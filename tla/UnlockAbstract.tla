--------------------------- MODULE UnlockAbstract ---------------------------
(***************************************************************************)
(* What Decrypt_User promises its caller, with the pipeline abstracted     *)
(* away.  One call at a time (the caller serialises).  While a call is     *)
(* pending, the caller's CE storage may be opened, but only if the call's  *)
(* credential is the user's real one, and prepared once it is open.  A     *)
(* call that returns true leaves CE storage open and prepared.             *)
(***************************************************************************)
CONSTANTS Users, Creds, None

VARIABLES
  lskf,       \* [Users -> credential]: each user's real credential
  ce,         \* [Users -> {"locked", "unlocked"}]
  prepared,   \* [Users -> BOOLEAN]
  call,       \* the pending call [user, cred], or None
  result      \* the value the last call returned

vars == <<lskf, ce, prepared, call, result>>

Correct(u, c) == c = lskf[u]

Init ==
  /\ lskf \in [Users -> Creds]
  /\ ce = [u \in Users |-> "locked"]
  /\ prepared = [u \in Users |-> FALSE]
  /\ call = None
  /\ result = FALSE

Call(u, c) ==
  /\ call = None
  /\ call' = [user |-> u, cred |-> c]
  /\ UNCHANGED <<lskf, ce, prepared, result>>

\* A call refused before any work.
Refuse(u, c) ==
  /\ call = None
  /\ result' = FALSE
  /\ UNCHANGED <<lskf, ce, prepared, call>>

\* One step of the pending call: it may open and prepare the caller's CE
\* storage, and it may return.
Serve ==
  /\ call # None
  /\ LET u == call.user IN
     /\ ce' \in {ce, [ce EXCEPT ![u] = "unlocked"]}
     /\ ce' # ce => Correct(u, call.cred)
     /\ prepared' \in {prepared, [prepared EXCEPT ![u] = TRUE]}
     /\ prepared' # prepared => ce'[u] = "unlocked"
     /\ \/ call' = call /\ UNCHANGED result
        \/ /\ call' = None
           /\ result' \in BOOLEAN
           /\ result' => ce'[u] = "unlocked" /\ prepared'[u]
  /\ UNCHANGED lskf

Next ==
  \/ \E u \in Users, c \in Creds : Call(u, c) \/ Refuse(u, c)
  \/ Serve

Spec == Init /\ [][Next]_vars
=============================================================================
