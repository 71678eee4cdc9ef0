-------------------------- MODULE DocumentLifecycle --------------------------
(***************************************************************************)
(* What ingestion promises about a document row: a claim spends an attempt *)
(* and the attempts are capped, always; and while every document has one   *)
(* owner at a time, a terminal status is only ever written over processing *)
(* by the claim that wrote it.  Once ownership has been lost (owned is     *)
(* FALSE) a late owner may settle the row over whatever it says.           *)
(* A terminal row may be claimed again: a delivery that read it before it  *)
(* became terminal goes on to claim it.                                    *)
(***************************************************************************)
EXTENDS Naturals

CONSTANT MaxAttempts
VARIABLES status, attempts, owned

Init == status = "absent" /\ attempts = 0 /\ owned = TRUE

Create == /\ status = "absent" /\ attempts = 0
          /\ status' = "pending" /\ UNCHANGED attempts

\* The PDF could not be stored: the row goes again.
Withdraw == /\ status = "pending" /\ attempts = 0
            /\ status' = "absent" /\ UNCHANGED attempts

Claim == /\ status # "absent" /\ attempts < MaxAttempts
         /\ status' = "processing" /\ attempts' = attempts + 1

Exhaust == /\ status # "absent" /\ attempts >= MaxAttempts
           /\ status' = "failed" /\ attempts' = MaxAttempts + 1

Settle == /\ status = "processing" \/ (status # "absent" /\ ~owned')
          /\ status' \in {"ready", "failed"} /\ UNCHANGED attempts

Delete == status' = "absent" /\ attempts' = 0

Stay == UNCHANGED <<status, attempts>>

Next == /\ Create \/ Withdraw \/ Claim \/ Exhaust \/ Settle \/ Delete \/ Stay
        /\ owned' => owned

Spec == Init /\ [][Next]_<<status, attempts, owned>>
=============================================================================
