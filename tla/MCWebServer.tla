---------------------------- MODULE MCWebServer ----------------------------
(***************************************************************************)
(* The sessions of the web server and the tables that let native clients   *)
(* into them, checked one at a time in one run. A stream reads the tables  *)
(* once, when it begins, and the tables never ask for a stream. So a       *)
(* behaviour picks one of those the run looks at in its initial state and  *)
(* takes the steps of that one only; the states reached are those of the   *)
(* modules put side by side, never their product.                          *)
(***************************************************************************)
EXTENDS MCStreamSessions, NativeSessions

CONSTANT Focus  \* the components a run looks at

VARIABLE focus  \* the component whose steps the behaviour takes

\* All launches are of one app, which the next launch takes from the one before.
OneApp == [s \in NativeIds |-> CHOOSE q \in NativeIds : TRUE]

suiteVars ==
  <<focus, vars, nativeVars>>

OnlyStreamSessions ==
  /\ focus = "sessions"
  /\ UNCHANGED <<focus, nativeVars>>
  /\ Next

OnlyNativeSessions ==
  /\ focus = "native"
  /\ UNCHANGED <<focus, vars>>
  /\ NativeNext

SuiteInit ==
  /\ focus \in Focus
  /\ Init
  /\ NativeInit

SuiteNext ==
  \/ OnlyStreamSessions
  \/ OnlyNativeSessions

\* The fairness of each module, taken of the steps the suite lets it make.
SuiteFairness ==
  /\ WF_vars(focus = "sessions" /\ (\/ \E t \in Tasks : TaskStep(t)
                                   \/ \E s \in Sessions : BodyStep(s)))
  /\ \A r \in Requests : SF_nativeVars(focus = "native" /\ RequestStep(r))

SuiteSpec == SuiteInit /\ [][SuiteNext]_suiteVars /\ SuiteFairness

\* Every component keeps the types of its state, whatever browsers, native
\* clients, streamers and time do in turn.
ServerTypeOK ==
  /\ focus = "sessions" => TypeOK
  /\ focus = "native" => NativeTypeOK
=============================================================================
