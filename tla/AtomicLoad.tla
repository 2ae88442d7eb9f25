----------------------------- MODULE AtomicLoad -----------------------------
(***************************************************************************)
(* What one load promises the worker group (spec sections 5 and 7), with  *)
(* the collectives, files and stages abstracted away: every worker         *)
(* eventually returns; all workers return the same verdict; a worker that *)
(* returns success has persisted its fragment, and a worker that returns  *)
(* an error has published none.                                           *)
(***************************************************************************)
CONSTANT Workers

VARIABLES
  verdict,   \* verdict[w]: "pending", or what the entry point returned on w
  frags      \* the workers whose fragment is persisted

vars == <<verdict, frags>>

Init == verdict = [w \in Workers |-> "pending"] /\ frags = {}

\* Worker w seals and persists its fragment.
Persist(w) ==
  /\ verdict[w] = "pending"
  /\ w \notin frags
  /\ frags' = frags \cup {w}
  /\ UNCHANGED verdict

\* Worker w returns o, the verdict every other returned worker has given:
\* success with its fragment persisted (now, or earlier by Persist), or an
\* error with none persisted.
Finish(w, o) ==
  /\ verdict[w] = "pending"
  /\ \A v \in Workers : verdict[v] \in {"pending", o}
  /\ verdict' = [verdict EXCEPT ![w] = o]
  /\ IF o = "ok" THEN frags' = frags \cup {w}
                 ELSE w \notin frags /\ UNCHANGED frags

Next == \E w \in Workers : Persist(w) \/ \E o \in {"ok", "err"} : Finish(w, o)

Spec == Init /\ [][Next]_vars
          /\ \A w \in Workers : WF_vars(\E o \in {"ok", "err"} : Finish(w, o))
=============================================================================
