------------------------------- MODULE Config -------------------------------
(***************************************************************************)
(* The configuration of src/addon/config.cpp.  The options are replaced as *)
(* a whole, by the user interface (set) or from the file (load), and the   *)
(* socket path is expanded there and then; the token and the overrides for *)
(* debugging are looked up in the environment whenever they are needed.    *)
(*                                                                         *)
(* A path is "plain" or mentions a "variable".  The file set writes is not *)
(* kept: the user may edit it, so load may find anything.  The timeout is  *)
(* always in range (IntConstrain) and left out, as is the toggle key.      *)
(*                                                                         *)
(* ResolvedUnchecked is the definition that follows it with a mistake in   *)
(* it, for the properties to be tried on.                                  *)
(***************************************************************************)
CONSTANTS
  None,         \* an empty string
  Variable      \* a subset of {"path", "token", "debug path", "debug token"}

VARIABLES
  socketPath, authTokenEnv,             \* the options, None when empty
  resolvedSocketPath, socketPathValid,  \* the expanded path
  environment                           \* the variables that are set and not empty

optionVars == <<socketPath, authTokenEnv, resolvedSocketPath, socketPathValid>>
configVars == <<optionVars, environment>>

SocketPath   == {"plain", "variable"}
AuthTokenEnv == {"token"}

\* wordexp with WRDE_UNDEF: an undefined variable is an error.
Expands(path) == path = "variable" => "path" \in environment

\* What the constructor of Addon has loaded: the defaults, which are empty, or
\* what the file has, and the path as resolveSocketPath has expanded it.
Init ==
  /\ environment \in SUBSET Variable
  /\ socketPath \in SocketPath \cup {None}
  /\ authTokenEnv \in AuthTokenEnv \cup {None}
  /\ socketPathValid = (socketPath = None \/ Expands(socketPath))
  /\ resolvedSocketPath = IF socketPathValid THEN socketPath ELSE None

\* resolveSocketPath.
ResolveSocketPath ==
  IF socketPath' # None /\ Expands(socketPath')
  THEN resolvedSocketPath' = socketPath' /\ socketPathValid' = TRUE
  ELSE resolvedSocketPath' = None /\ socketPathValid' = (socketPath' = None)

\* set and load: new options, from the user interface or the file.
Replace ==
  /\ socketPath' \in SocketPath \cup {None}
  /\ authTokenEnv' \in AuthTokenEnv \cup {None}
  /\ ResolveSocketPath
  /\ UNCHANGED environment

\* Another part of the process calls setenv.
EnvironmentChanges ==
  /\ environment' \in SUBSET Variable
  /\ environment' # environment
  /\ UNCHANGED optionVars

EffectiveSocketPath == IF "debug path" \in environment THEN "debug" ELSE resolvedSocketPath

EffectiveAuthToken ==
  IF "debug token" \in environment THEN "debug"
  ELSE IF authTokenEnv \in environment THEN authTokenEnv
  ELSE None

\* connectionConfig: the connection to make, or None for an error.
ResolvedUnchecked ==
  IF \/ socketPath = None /\ "debug path" \notin environment
     \/ EffectiveAuthToken = None
  THEN None
  ELSE [path |-> EffectiveSocketPath, token |-> EffectiveAuthToken]

Resolved ==
  IF \/ socketPath = None /\ "debug path" \notin environment
     \/ socketPath # None /\ ~socketPathValid /\ "debug path" \notin environment
     \/ EffectiveAuthToken = None
  THEN None
  ELSE [path |-> EffectiveSocketPath, token |-> EffectiveAuthToken]
=============================================================================
