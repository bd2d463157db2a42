---------------------------- MODULE AnswerPromise ----------------------------
(***************************************************************************)
(* What an account is promised about the answer to one question, without   *)
(* leases, retries or requests in flight: a proposal is of one version of  *)
(* the data; it is answered only after the account approved it and while   *)
(* its data is the newest; the account is asked again a bounded number of  *)
(* times; and an answer that was withdrawn comes back only by asking.      *)
(***************************************************************************)
EXTENDS Naturals

CONSTANTS
  Proposals,   \* what may be proposed: a version of the data and of the code
  Data(_),     \* the version of the data a proposal is about
  Versions,    \* the versions of the data
  MaxRenewals

VARIABLES stage, proposal, newest, renewals

promise == <<stage, proposal, newest, renewals>>

Init ==
  /\ stage = "proposed"
  /\ proposal \in Proposals
  /\ newest = Data(proposal)
  /\ renewals = 0

NewData ==
  /\ newest' \in Versions /\ newest' > newest
  /\ UNCHANGED <<stage, proposal, renewals>>

Current == Data(proposal) = newest

Approve ==
  /\ stage = "proposed" /\ Current
  /\ stage' = "approved"
  /\ UNCHANGED <<proposal, newest, renewals>>

Answer ==
  /\ stage = "approved" /\ Current
  /\ stage' = "answered"
  /\ UNCHANGED <<proposal, newest, renewals>>

Withdraw ==
  /\ stage # "withdrawn"
  /\ stage' = "withdrawn"
  /\ UNCHANGED <<proposal, newest, renewals>>

\* The same question is proposed again, on the newest data or with newer code.
Renew ==
  /\ renewals < MaxRenewals
  /\ renewals' = renewals + 1
  /\ stage' = "proposed"
  /\ proposal' \in Proposals \ {proposal}
  /\ Data(proposal') = newest
  /\ UNCHANGED newest

Next == NewData \/ Approve \/ Answer \/ Withdraw \/ Renew

Spec == Init /\ [][Next]_promise
=============================================================================
