------------------------------- MODULE KycReview -------------------------------
(***************************************************************************)
(* One sender's KYC: the submissions (kyc_submissions) and the status on   *)
(* the user row (users.kyc_status), which gates every remittance.          *)
(*                                                                         *)
(* A request reads the user row when it starts and acts on that copy: two  *)
(* POSTs may both pass the "already pending" check, and a reviewer's       *)
(* session holds the user as it was when the submission was opened.  The   *)
(* ORM writes the user row only when the new status differs from the copy. *)
(***************************************************************************)
EXTENDS Naturals, FiniteSets

CONSTANTS
    Submissions,   \* kyc_submissions.id values
    Posts,         \* the sender's concurrent POST /kyc requests
    Admins,        \* concurrent review requests
    NoSubmission

ASSUME NoSubmissionAssumption == NoSubmission \notin Submissions

VARIABLES
    kyc,          \* users.kyc_status
    submission,   \* submission |-> its status
    admitted,     \* POSTs that passed the status check and have not committed
    review        \* admin request |-> the submission it opened, the user status it holds

vars == <<kyc, submission, admitted, review>>

Decisions == {"approved", "rejected"}
KYCStatus == {"not_submitted", "pending"} \cup Decisions
NoReview == [item |-> NoSubmission, seen |-> "not_submitted"]

TypeOK ==
    /\ kyc \in KYCStatus
    /\ submission \in [Submissions -> {"absent", "pending"} \cup Decisions]
    /\ admitted \in SUBSET Posts
    /\ review \in [Admins -> [item : Submissions \cup {NoSubmission}, seen : KYCStatus]]

Init ==
    /\ kyc = "not_submitted"
    /\ submission = [s \in Submissions |-> "absent"]
    /\ admitted = {}
    /\ review = [a \in Admins |-> NoReview]

With(status) == {s \in Submissions : submission[s] = status}

-----------------------------------------------------------------------------
(* The sender.                                                             *)

\* kyc_submit passes its check on the user that get_current_user loaded.
Admit(r) ==
    /\ r \notin admitted
    /\ kyc \notin {"pending", "approved"}
    /\ admitted' = admitted \cup {r}
    /\ UNCHANGED <<kyc, submission, review>>

\* The form is invalid: source of funds, age or ID number.
RefuseForm(r) ==
    /\ r \in admitted
    /\ admitted' = admitted \ {r}
    /\ UNCHANGED <<kyc, submission, review>>

\* submit_kyc: the new row and the user's status in one commit.  The copy that
\* passed the check is not pending, so the user row is always written.
Submit(r, s) ==
    /\ r \in admitted
    /\ submission[s] = "absent"
    /\ submission' = [submission EXCEPT ![s] = "pending"]
    /\ kyc' = "pending"
    /\ admitted' = admitted \ {r}
    /\ UNCHANGED review

-----------------------------------------------------------------------------
(* The reviewers.                                                          *)

\* Mutant of Open: any id is accepted, and the copy is the submission's status.
OpenAny(a, s) ==
    /\ review[a] = NoReview
    /\ review' = [review EXCEPT ![a] = [item |-> s, seen |-> submission[s]]]
    /\ UNCHANGED <<kyc, submission, admitted>>

\* get_submission_by_id, which loads the user with the submission; a stale page
\* may name a submission that is long decided.
Open(a, s) ==
    /\ review[a] = NoReview
    /\ submission[s] # "absent"
    /\ review' = [review EXCEPT ![a] = [item |-> s, seen |-> kyc]]
    /\ UNCHANGED <<kyc, submission, admitted>>

\* The user row that a session with copy `seen` leaves when it assigns `status`.
Written(seen, status) == IF seen = status THEN kyc ELSE status

\* Mutant of Decide: the UPDATE is not conditional on the status.
DecideAgain(a, decision) ==
    LET s == review[a].item IN
    /\ s # NoSubmission
    /\ submission' = [submission EXCEPT ![s] = decision]
    /\ kyc' = Written(review[a].seen, decision)
    /\ review' = [review EXCEPT ![a] = NoReview]
    /\ UNCHANGED admitted

\* _review, the conditional UPDATE claims the submission: the decision and the
\* user's status are one commit.
Decide(a, decision) ==
    LET s == review[a].item IN
    /\ s # NoSubmission
    /\ submission[s] = "pending"
    /\ submission' = [submission EXCEPT ![s] = decision]
    /\ kyc' = Written(review[a].seen, decision)
    /\ review' = [review EXCEPT ![a] = NoReview]
    /\ UNCHANGED admitted

\* Mutant of RefuseReview: it saves the user as the session holds it.
RefuseSavingCopy(a) ==
    /\ review[a] # NoReview
    /\ kyc' = review[a].seen
    /\ review' = [review EXCEPT ![a] = NoReview]
    /\ UNCHANGED <<submission, admitted>>

\* Mutant of RefuseReview: the user is updated although the submission was not claimed.
RefuseUpdatingUser(a) ==
    /\ review[a] # NoReview
    /\ kyc' \in Decisions
    /\ review' = [review EXCEPT ![a] = NoReview]
    /\ UNCHANGED <<submission, admitted>>

\* _review finds it reviewed already, or reject_kyc was given a blank reason.
RefuseReview(a) ==
    /\ review[a] # NoReview
    /\ review' = [review EXCEPT ![a] = NoReview]
    /\ UNCHANGED <<kyc, submission, admitted>>

Next ==
    \/ \E r \in Posts : Admit(r) \/ RefuseForm(r)
    \/ \E r \in Posts, s \in Submissions : Submit(r, s)
    \/ \E a \in Admins, s \in Submissions : Open(a, s)
    \/ \E a \in Admins, d \in Decisions : Decide(a, d)
    \/ \E a \in Admins : RefuseReview(a)

Spec == Init /\ [][Next]_vars

-----------------------------------------------------------------------------
(* Properties.                                                             *)

\* A sender shown as pending is in some reviewer's queue: whatever the order of
\* submissions and of reviews on stale copies, no sender waits for a review that
\* nobody can give.
PendingIsReviewable == kyc = "pending" => With("pending") # {}

\* The status on the user row, which lets the sender move money, is backed by a
\* submission some admin decided that way.
BackedByASubmission == kyc \in Decisions => With(kyc) # {}

\* A review is given once and is final, and the sender is approved only by the
\* step that approves a submission still pending (FR-KYC-03/04: a stale page or
\* a second admin never flips the status).
OnlyAReviewDecides ==
    [][/\ \A s \in Submissions : submission[s] \in Decisions => submission'[s] = submission[s]
       /\ (kyc' \in Decisions /\ kyc' # kyc) =>
            \E s \in Submissions : submission[s] = "pending" /\ submission'[s] = kyc']_vars
=============================================================================
