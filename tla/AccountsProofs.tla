----------------------------- MODULE AccountsProofs -----------------------------
(***************************************************************************)
(* The KYC on its own, for any number of requests; then the account that   *)
(* is composed with it: what is proved of the KYC carries over, and the    *)
(* two gates it feeds hold.                                                *)
(***************************************************************************)
EXTENDS Accounts, TLAPS

-----------------------------------------------------------------------------
(* The KYC alone: what holds of it for any number of submissions,          *)
(* concurrent POSTs and reviewers, however stale their copies are.         *)

\* Every variable keeps its type.
THEOREM TypeCorrect == Spec => []TypeOK
<1>1. Init => TypeOK
  BY DEF Init, TypeOK, NoReview, KYCStatus
<1>2. TypeOK /\ [Next]_vars => TypeOK'
  <2> SUFFICES ASSUME TypeOK, [Next]_vars PROVE TypeOK'
    OBVIOUS
  <2> USE DEF TypeOK
  <2>1. ASSUME NEW r \in Posts, Admit(r) PROVE TypeOK'
    BY <2>1 DEF Admit
  <2>2. ASSUME NEW r \in Posts, RefuseForm(r) PROVE TypeOK'
    BY <2>2 DEF RefuseForm
  <2>3. ASSUME NEW r \in Posts, NEW s \in Submissions, Submit(r, s) PROVE TypeOK'
    BY <2>3 DEF Submit, KYCStatus
  <2>4. ASSUME NEW a \in Admins, NEW s \in Submissions, Open(a, s) PROVE TypeOK'
    BY <2>4 DEF Open
  <2>5. ASSUME NEW a \in Admins, NEW d \in Decisions, Decide(a, d) PROVE TypeOK'
    BY <2>5 DEF Decide, Written, KYCStatus, Decisions, NoReview
  <2>6. ASSUME NEW a \in Admins, RefuseReview(a) PROVE TypeOK'
    BY <2>6 DEF RefuseReview, KYCStatus, NoReview
  <2>7. CASE UNCHANGED vars
    BY <2>7 DEF vars
  <2> QED
    BY <2>1, <2>2, <2>3, <2>4, <2>5, <2>6, <2>7 DEF Next
<1> QED
  BY <1>1, <1>2, PTL DEF Spec

-----------------------------------------------------------------------------
(* A pending sender is in the queue.  The property is not inductive: the   *)
(* last pending submission could be decided by a reviewer whose copy says  *)
(* the decision already, and the user row would stay pending.  What is     *)
(* kept is a submission of which no reviewer holds such a copy: the newest *)
(* has been opened by nobody, and opening one shows the sender pending.    *)

\* Submission s is pending, and whoever has it open holds a pending user.
SurelyDecided(s) ==
    /\ submission[s] = "pending"
    /\ \A a \in Admins : review[a].item = s => review[a].seen = "pending"

\* No request is about a submission that does not exist, and a pending sender
\* has a submission whose decision will be written to the user row.
Reviewable ==
    /\ TypeOK
    /\ \A a \in Admins : review[a].item # NoSubmission => submission[review[a].item] # "absent"
    /\ kyc = "pending" => \E s \in Submissions : SurelyDecided(s)

LEMMA ReviewableInit == Init => Reviewable
  BY NoSubmissionAssumption DEF Init, Reviewable, TypeOK, NoReview, KYCStatus

LEMMA ReviewableStep == Reviewable /\ TypeOK' /\ [Next]_vars => Reviewable'
<1> SUFFICES ASSUME Reviewable, TypeOK', [Next]_vars PROVE Reviewable'
  OBVIOUS
<1>1. TypeOK
  BY DEF Reviewable
<1>2. ASSUME NEW r \in Posts, Admit(r) \/ RefuseForm(r) PROVE Reviewable'
  BY <1>2 DEF Admit, RefuseForm, Reviewable, SurelyDecided
<1>3. ASSUME NEW r \in Posts, NEW s \in Submissions, Submit(r, s) PROVE Reviewable'
  <2>1. SurelyDecided(s)'
    BY <1>1, <1>3, NoSubmissionAssumption DEF Submit, Reviewable, SurelyDecided, TypeOK
  <2>2. \A a \in Admins : review'[a].item # NoSubmission => submission'[review'[a].item] # "absent"
    BY <1>1, <1>3 DEF Submit, Reviewable, TypeOK
  <2> QED
    BY <2>1, <2>2 DEF Reviewable
<1>4. ASSUME NEW a \in Admins, NEW s \in Submissions, Open(a, s) PROVE Reviewable'
  <2>1. \A b \in Admins : review'[b] = IF b = a THEN [item |-> s, seen |-> kyc] ELSE review[b]
    BY <1>1, <1>4 DEF Open, TypeOK
  <2>2. \A b \in Admins : review'[b].item # NoSubmission => submission'[review'[b].item] # "absent"
    BY <1>4, <2>1 DEF Open, Reviewable
  <2>3. ASSUME NEW t \in Submissions, SurelyDecided(t), kyc = "pending" PROVE SurelyDecided(t)'
    BY <1>4, <2>1, <2>3 DEF Open, SurelyDecided
  <2> QED
    BY <1>4, <2>2, <2>3 DEF Reviewable, Open
<1>5. ASSUME NEW a \in Admins, NEW d \in Decisions, Decide(a, d) PROVE Reviewable'
  <2> DEFINE s == review[a].item
  <2>0. s \in Submissions /\ d # "pending" /\ d # "absent"
    BY <1>1, <1>5 DEF Decide, TypeOK, Decisions
  <2>1. \A b \in Admins : review'[b] = IF b = a THEN NoReview ELSE review[b]
    BY <1>1, <1>5 DEF Decide, TypeOK
  <2>2. \A t \in Submissions : submission'[t] = IF t = s THEN d ELSE submission[t]
    BY <1>1, <1>5 DEF Decide, TypeOK
  <2>3. \A b \in Admins : review'[b].item # NoSubmission => submission'[review'[b].item] # "absent"
    BY <1>1, <2>0, <2>1, <2>2 DEF Reviewable, TypeOK, NoReview
  <2>4. kyc' = "pending" => kyc = "pending" /\ review[a].seen = d
    BY <1>5, <2>0 DEF Decide, Written
  <2>5. ASSUME NEW t \in Submissions, SurelyDecided(t), kyc' = "pending" PROVE SurelyDecided(t)'
    <3>1. t # s
      BY <2>0, <2>4, <2>5 DEF SurelyDecided
    <3> QED
      BY <2>1, <2>2, <2>5, <3>1, NoSubmissionAssumption DEF SurelyDecided, NoReview
  <2> QED
    BY <2>3, <2>4, <2>5 DEF Reviewable
<1>6. ASSUME NEW a \in Admins, RefuseReview(a) PROVE Reviewable'
  <2>1. \A b \in Admins : review'[b] = IF b = a THEN NoReview ELSE review[b]
    BY <1>1, <1>6 DEF RefuseReview, TypeOK
  <2> QED
    BY <1>6, <2>1, NoSubmissionAssumption DEF RefuseReview, Reviewable, SurelyDecided, NoReview
<1>7. CASE UNCHANGED vars
  BY <1>7 DEF vars, Reviewable, SurelyDecided
<1> QED
  BY <1>2, <1>3, <1>4, <1>5, <1>6, <1>7 DEF Next

\* A sender shown as pending always has a submission in the reviewers' queue.
THEOREM PendingReviewable == Spec => []PendingIsReviewable
<1>1. Reviewable => PendingIsReviewable
  BY DEF Reviewable, PendingIsReviewable, SurelyDecided, With
<1> QED
  BY <1>1, ReviewableInit, ReviewableStep, TypeCorrect, PTL DEF Spec

-----------------------------------------------------------------------------
(* Decisions.                                                              *)

\* One step gives a decision only to a pending submission, and changes the
\* user to a decision only together with one.
LEMMA DecisionStep ==
    ASSUME TypeOK, [Next]_vars
    PROVE  /\ \A s \in Submissions : submission[s] \in Decisions => submission'[s] = submission[s]
           /\ (kyc' \in Decisions /\ kyc' # kyc) =>
                \E s \in Submissions : submission[s] = "pending" /\ submission'[s] = kyc'
<1>1. ASSUME NEW r \in Posts, Admit(r) \/ RefuseForm(r) PROVE UNCHANGED <<kyc, submission>>
  BY <1>1 DEF Admit, RefuseForm
<1>2. ASSUME NEW r \in Posts, NEW s \in Submissions, Submit(r, s)
      PROVE  /\ kyc' \notin Decisions
             /\ \A t \in Submissions : submission[t] \in Decisions => submission'[t] = submission[t]
  BY <1>2 DEF Submit, TypeOK, Decisions
<1>3. ASSUME NEW a \in Admins, NEW s \in Submissions, Open(a, s) PROVE UNCHANGED <<kyc, submission>>
  BY <1>3 DEF Open
<1>4. ASSUME NEW a \in Admins, NEW d \in Decisions, Decide(a, d)
      PROVE  /\ \A t \in Submissions : submission[t] \in Decisions => submission'[t] = submission[t]
             /\ kyc' # kyc => \E t \in Submissions : submission[t] = "pending" /\ submission'[t] = kyc'
  BY <1>4 DEF Decide, Written, TypeOK, Decisions
<1>5. ASSUME NEW a \in Admins, RefuseReview(a) PROVE UNCHANGED <<kyc, submission>>
  BY <1>5 DEF RefuseReview
<1> QED
  BY <1>1, <1>2, <1>3, <1>4, <1>5 DEF Next, vars

\* A review is final, and a sender becomes approved or rejected only by the step
\* that decides a pending submission so.
THEOREM ReviewsAreFinal == Spec => OnlyAReviewDecides
  BY TypeCorrect, DecisionStep, PTL DEF Spec, OnlyAReviewDecides

\* The status on the user row is backed by a submission decided that way.
THEOREM StatusIsBacked == Spec => []BackedByASubmission
<1>1. Init => BackedByASubmission
  BY DEF Init, BackedByASubmission, Decisions
<1>2. TypeOK /\ BackedByASubmission /\ [Next]_vars => BackedByASubmission'
  <2> SUFFICES ASSUME TypeOK, BackedByASubmission, [Next]_vars, kyc' \in Decisions
               PROVE  \E s \in Submissions : submission'[s] = kyc'
    BY DEF BackedByASubmission, With
  <2>1. CASE kyc' = kyc
    BY <2>1, DecisionStep DEF BackedByASubmission, With
  <2>2. CASE kyc' # kyc
    BY <2>2, DecisionStep
  <2> QED
    BY <2>1, <2>2
<1> QED
  BY <1>1, <1>2, TypeCorrect, PTL DEF Spec

-----------------------------------------------------------------------------
(* The composition implements the KYC on its own: its profile edits and    *)
(* remittances are stuttering steps there.                                 *)

LEMMA EditIsOutsideKyc ==
    ASSUME NEW e \in Edits,
           OpenEdit(e) \/ SaveEdit(e) \/ DropEdit(e) \/ \E n \in Names : AdmitEdit(e, n)
    PROVE  UNCHANGED vars
BY DEF OpenEdit, SaveEdit, DropEdit, AdmitEdit

LEMMA SendIsOutsideKyc ==
    ASSUME NEW p \in Sends, AdmitSend(p) \/ BookSend(p) \/ RefuseSend(p)
    PROVE  UNCHANGED vars
BY DEF AdmitSend, BookSend, RefuseSend

LEMMA KycStepRefines == [AccountsNext]_allVars => [Next]_vars
<1> SUFFICES ASSUME [AccountsNext]_allVars PROVE [Next]_vars
  OBVIOUS
<1>1. ASSUME NEW r \in Posts, NEW s \in Submissions, Submit(r, s) PROVE Next
  BY <1>1 DEF Next
<1>2. ASSUME \/ \E r \in Posts : Admit(r) \/ RefuseForm(r)
             \/ \E a \in Admins, s \in Submissions : Open(a, s)
             \/ \E a \in Admins, d \in Decisions : Decide(a, d)
             \/ \E a \in Admins : RefuseReview(a)
      PROVE  Next
  BY <1>2 DEF Next
<1>3. CASE UNCHANGED allVars
  BY <1>3 DEF allVars
<1> QED
  BY <1>1, <1>2, <1>3, EditIsOutsideKyc, SendIsOutsideKyc DEF AccountsNext

\* Editing the profile and sending money never disturb the KYC: the account
\* implements KycReview, so its theorems hold of the whole account.
THEOREM RefinesKycReview == AccountsSpec => Spec
<1>1. AccountsInit => Init
  BY DEF AccountsInit
<1> QED
  BY <1>1, KycStepRefines, PTL DEF AccountsSpec, Spec

-----------------------------------------------------------------------------
(* Types.                                                                  *)

OwnTypes ==
    /\ name \in Names
    /\ edit \in [Edits -> [copy : Names \cup {NoName}, new : Names \cup {NoName}]]
    /\ send \in [Sends -> {"idle", "admitted", "booked"}]
    /\ verified \in Names \cup {NoName}
    /\ overtaken \in BOOLEAN

LEMMA EditRecord ==
    ASSUME NEW c \in Names \cup {NoName}, NEW n \in Names \cup {NoName}
    PROVE  [copy |-> c, new |-> n] \in [copy : Names \cup {NoName}, new : Names \cup {NoName}]
OBVIOUS

LEMMA OwnTypesInit == AccountsInit => OwnTypes
<1>1. NoEdit \in [copy : Names \cup {NoName}, new : Names \cup {NoName}]
  BY DEF NoEdit
<1> QED
  BY <1>1 DEF AccountsInit, OwnTypes

LEMMA OwnTypesStep == OwnTypes /\ [AccountsNext]_allVars => OwnTypes'
<1> SUFFICES ASSUME OwnTypes, [AccountsNext]_allVars PROVE OwnTypes'
  OBVIOUS
<1> USE DEF OwnTypes
<1>1. ASSUME RecordName PROVE OwnTypes'
  BY <1>1 DEF RecordName
<1>2. ASSUME UNCHANGED accountVars PROVE OwnTypes'
  BY <1>2 DEF accountVars
<1>3. ASSUME NEW e \in Edits, OpenEdit(e) PROVE OwnTypes'
  BY <1>3, EditRecord DEF OpenEdit
<1>4. ASSUME NEW e \in Edits, SaveEdit(e) PROVE OwnTypes'
  BY <1>4, EditRecord DEF SaveEdit, NoEdit
<1>5. ASSUME NEW e \in Edits, DropEdit(e) PROVE OwnTypes'
  BY <1>5, EditRecord DEF DropEdit, NoEdit
<1>6. ASSUME NEW e \in Edits, NEW n \in Names, AdmitEdit(e, n) PROVE OwnTypes'
  BY <1>6, EditRecord DEF AdmitEdit
<1>7. ASSUME NEW p \in Sends, AdmitSend(p) \/ BookSend(p) \/ RefuseSend(p) PROVE OwnTypes'
  BY <1>7 DEF AdmitSend, BookSend, RefuseSend
<1>8. CASE UNCHANGED allVars
  BY <1>2, <1>8 DEF allVars
<1> QED
  BY <1>1, <1>2, <1>3, <1>4, <1>5, <1>6, <1>7, <1>8 DEF AccountsNext

\* Every variable of the account keeps its type.
THEOREM AccountsTypeCorrect == AccountsSpec => []AccountsTypeOK
<1>1. TypeOK /\ OwnTypes => AccountsTypeOK
  BY DEF AccountsTypeOK, OwnTypes
<1> QED
  BY <1>1, OwnTypesInit, OwnTypesStep, RefinesKycReview, TypeCorrect, PTL DEF AccountsSpec

-----------------------------------------------------------------------------
(* The sender of a remittance.  An approval is never withdrawn, so what    *)
(* was true of the copy the request read is still backed at the insert.    *)

\* A decided submission keeps its decision.
LEMMA ApprovalStays ==
    ASSUME TypeOK, [Next]_vars, With("approved") # {}
    PROVE  With("approved")' # {}
<1>1. PICK s \in Submissions : submission[s] = "approved"
  BY DEF With
<1>2. submission'[s] = "approved"
  BY <1>1, DecisionStep DEF Decisions
<1> QED
  BY <1>2 DEF With

\* Every remittance past its check is some approved sender's.
THEOREM SendersAreVerified == AccountsSpec => []VerifiedSender
<1>1. AccountsInit => VerifiedSender
  BY DEF AccountsInit, VerifiedSender
<1>2. TypeOK /\ OwnTypes /\ BackedByASubmission /\ VerifiedSender /\ [AccountsNext]_allVars
        => VerifiedSender'
  <2> SUFFICES ASSUME TypeOK, OwnTypes, BackedByASubmission, VerifiedSender,
                      [AccountsNext]_allVars,
                      NEW q \in Sends, send'[q] # "idle"
               PROVE  With("approved")' # {}
    BY DEF VerifiedSender
  <2>1. CASE send[q] # "idle"
    BY <2>1, ApprovalStays, KycStepRefines DEF VerifiedSender
  <2>2. CASE send[q] = "idle"
    <3>1. PICK p \in Sends : AdmitSend(p) \/ BookSend(p) \/ RefuseSend(p)
      BY <2>2 DEF AccountsNext, RecordName, accountVars, allVars,
                  OpenEdit, SaveEdit, DropEdit, AdmitEdit
    <3>2. CASE AdmitSend(p)
      <4>1. With("approved") # {}
        BY <3>2 DEF AdmitSend, BackedByASubmission, Decisions
      <4> QED
        BY <4>1, ApprovalStays, KycStepRefines
    <3>3. CASE BookSend(p) \/ RefuseSend(p)
      <4>1. p # q
        BY <2>2, <3>3 DEF BookSend, RefuseSend
      <4>2. send'[q] = send[q]
        BY <3>3, <4>1 DEF BookSend, RefuseSend, OwnTypes
      <4> QED
        BY <2>2, <4>2
    <3> QED
      BY <3>1, <3>2, <3>3
  <2> QED
    BY <2>1, <2>2
<1> QED
  BY <1>1, <1>2, OwnTypesInit, OwnTypesStep, RefinesKycReview, TypeCorrect, StatusIsBacked,
     PTL DEF AccountsSpec

-----------------------------------------------------------------------------
(* The name.  With no edit past its check when the first submission is     *)
(* committed there is none afterwards either, so nobody is left to change  *)
(* the name.                                                               *)

NameSettled ==
    (~Untouched /\ ~overtaken) =>
        /\ name = verified
        /\ \A e \in Edits : edit[e].new = NoName

\* A submission, once made, exists.
LEMMA TouchedStays ==
    ASSUME TypeOK, [Next]_vars, ~Untouched
    PROVE  ~Untouched'
<1>1. PICK s \in Submissions : submission[s] # "absent"
  BY DEF Untouched, With
<1>2. ASSUME NEW r \in Posts, NEW t \in Submissions, Submit(r, t) PROVE submission'[s] # "absent"
  BY <1>1, <1>2 DEF Submit, TypeOK
<1>3. ASSUME NEW a \in Admins, NEW d \in Decisions, Decide(a, d) PROVE submission'[s] # "absent"
  BY <1>1, <1>3 DEF Decide, TypeOK, Decisions
<1>4. submission'[s] # "absent"
  BY <1>1, <1>2, <1>3 DEF Next, vars, Admit, RefuseForm, Open, RefuseReview
<1> QED
  BY <1>4 DEF Untouched, With

\* Only a submission ends the untouched state.
LEMMA UntouchedEndsBySubmit ==
    ASSUME TypeOK, [AccountsNext]_allVars, Untouched, ~Untouched'
    PROVE  \E r \in Posts, s \in Submissions : Submit(r, s) /\ RecordName
<1>1. ASSUME UNCHANGED submission PROVE FALSE
  BY <1>1 DEF Untouched, With
<1>2. ASSUME NEW a \in Admins, NEW d \in Decisions, Decide(a, d) PROVE FALSE
  BY <1>2, NoSubmissionAssumption DEF Decide, Untouched, With, TypeOK
<1>3. ASSUME NEW r \in Posts, Admit(r) \/ RefuseForm(r) PROVE UNCHANGED submission
  BY <1>3 DEF Admit, RefuseForm
<1>4. ASSUME NEW a \in Admins, RefuseReview(a) \/ \E s \in Submissions : Open(a, s)
      PROVE  UNCHANGED submission
  BY <1>4 DEF RefuseReview, Open
<1>5. UNCHANGED vars => UNCHANGED submission
  BY DEF vars
<1> QED
  BY <1>1, <1>2, <1>3, <1>4, <1>5, EditIsOutsideKyc, SendIsOutsideKyc DEF AccountsNext, allVars

\* After the first submission no edit is admitted, and none is left to save.
LEMMA NameSettledStep ==
    TypeOK /\ OwnTypes /\ NameSettled /\ [AccountsNext]_allVars => NameSettled'
<1> SUFFICES ASSUME TypeOK, OwnTypes, NameSettled, [AccountsNext]_allVars,
                    ~Untouched', ~overtaken'
             PROVE  name' = verified' /\ \A e \in Edits : edit'[e].new = NoName
  BY DEF NameSettled
<1>1. ~overtaken
  BY DEF AccountsNext, RecordName, accountVars, allVars, OpenEdit, SaveEdit, DropEdit,
         AdmitEdit, AdmitSend, BookSend, RefuseSend
<1>2. CASE Untouched
  <2>1. RecordName
    BY <1>2, UntouchedEndsBySubmit
  <2> QED
    BY <1>2, <2>1 DEF RecordName
<1>3. CASE ~Untouched
  <2>1. name = verified /\ \A e \in Edits : edit[e].new = NoName
    BY <1>1, <1>3 DEF NameSettled
  <2>2. CASE RecordName
    BY <1>3, <2>1, <2>2 DEF RecordName
  <2>3. CASE UNCHANGED accountVars
    BY <2>1, <2>3 DEF accountVars
  <2>4. ASSUME NEW e \in Edits, OpenEdit(e) PROVE UNCHANGED <<name, verified>> /\ \A f \in Edits : edit'[f].new = edit[f].new
    BY <2>4 DEF OpenEdit, OwnTypes
  <2>5. ASSUME NEW e \in Edits, SaveEdit(e) \/ \E n \in Names : AdmitEdit(e, n) PROVE FALSE
    BY <1>3, <2>1, <2>5 DEF SaveEdit, AdmitEdit
  <2>6. ASSUME NEW e \in Edits, DropEdit(e)
        PROVE  UNCHANGED <<name, verified>> /\ \A f \in Edits : edit'[f].new \in {edit[f].new, NoName}
    BY <2>6 DEF DropEdit, OwnTypes, NoEdit
  <2>7. ASSUME NEW p \in Sends, AdmitSend(p) \/ BookSend(p) \/ RefuseSend(p)
        PROVE  UNCHANGED <<name, verified, edit>>
    BY <2>7 DEF AdmitSend, BookSend, RefuseSend
  <2>8. CASE UNCHANGED allVars
    BY <2>1, <2>8 DEF allVars, accountVars
  <2> QED
    BY <2>1, <2>2, <2>3, <2>4, <2>5, <2>6, <2>7, <2>8 DEF AccountsNext
<1> QED
  BY <1>2, <1>3

\* The name of the first submission stays on the account, unless a profile edit
\* overlapped that submission.
THEOREM NameStaysFixed == AccountsSpec => []NameFixed
<1>1. AccountsInit => NameSettled
  BY DEF AccountsInit, Init, NameSettled, Untouched, With
<1>2. NameSettled => NameFixed
  BY DEF NameSettled, NameFixed
<1> QED
  BY <1>1, <1>2, OwnTypesInit, OwnTypesStep, NameSettledStep, RefinesKycReview, TypeCorrect, PTL DEF AccountsSpec
=============================================================================
