----------------------------- MODULE HookPromise -----------------------------
(***************************************************************************)
(* What HookApiModule::fireHook promises to the core thread that calls it: *)
(* a private, one-shot question.  The subscriber may answer while the      *)
(* question is open (a later answer replaces an earlier one); the call     *)
(* returns the answer that was accepted for it, or none, and never an      *)
(* answer given to another call.                                           *)
(***************************************************************************)
CONSTANTS Firers,     \* core threads that fire hooks
          Answers,    \* completion data a subscriber can give
          NoAnswer    \* null completion data

VARIABLES phase,      \* is a question of this thread open
          answer,     \* the answer accepted for it so far
          returned    \* what the thread's last call returned

vars == <<phase, answer, returned>>

Init == /\ phase = [f \in Firers |-> "idle"]
        /\ answer = [f \in Firers |-> NoAnswer]
        /\ returned = [f \in Firers |-> NoAnswer]

\* The hook has no subscriber: nothing is asked.
Skip(f) == /\ phase[f] = "idle"
           /\ returned' = [returned EXCEPT ![f] = NoAnswer]
           /\ UNCHANGED <<phase, answer>>

Ask(f) == /\ phase[f] = "idle"
          /\ phase' = [phase EXCEPT ![f] = "open"]
          /\ UNCHANGED <<answer, returned>>

Answer(f, d) == /\ phase[f] = "open"
                /\ answer' = [answer EXCEPT ![f] = d]
                /\ UNCHANGED <<phase, returned>>

Return(f) == /\ phase[f] = "open"
             /\ phase' = [phase EXCEPT ![f] = "idle"]
             /\ returned' = [returned EXCEPT ![f] = answer[f]]
             /\ answer' = [answer EXCEPT ![f] = NoAnswer]

Next == \E f \in Firers : \/ Skip(f)
                          \/ Ask(f)
                          \/ \E d \in Answers : Answer(f, d)
                          \/ Return(f)

Spec == Init /\ [][Next]_vars
=============================================================================
