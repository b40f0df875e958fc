------------------------- MODULE IdempotencyProofs --------------------------
(***************************************************************************)
(* Idempotency for any number of requests and bodies, any lease and any    *)
(* life of a record: its types, one email per record, and no answer that   *)
(* names an email that was not accepted.                                   *)
(***************************************************************************)
EXTENDS Idempotency, TLAPS

(* Every variable has its type.                                              *)
THEOREM KeyTyping == Spec => []TypeOK
<1>1. Init => TypeOK
  BY KeyAssumption DEF Init, TypeOK, NoRecord, Idle, Pcs, Complete, Exists
<1>2. TypeOK /\ [Next]_vars => TypeOK'
  <2> SUFFICES ASSUME TypeOK, [Next]_vars PROVE TypeOK'
    OBVIOUS
  <2> USE KeyAssumption DEF TypeOK, Complete, Exists
  <2>1. ASSUME NEW q \in Requests, NEW b \in Bodies, Begin(q, b) PROVE TypeOK'
    <3>1. /\ now + Ttl \in 0..(Horizon + Ttl)
          /\ Claimed(q, b) \in [body : Bodies \cup {None}, email : Requests \cup {None},
                                owner : Requests \cup {None}, createdAt : 0..Horizon,
                                expiresAt : 0..(Horizon + Ttl)]
          /\ Claimed(q, b).body = b /\ b # None
      BY DEF Claimed
    <3>2. record' = Claimed(q, b) \/ record' = record
      BY <2>1 DEF Begin
    <3>3. \E pc \in {"accept", "look"} :
            req' = [req EXCEPT ![q] = [pc |-> pc, body |-> b, email |-> None]]
      BY <2>1, ZenonT(60) DEF Begin, Idle
    <3> HIDE DEF Claimed
    <3> QED BY <2>1, <3>1, <3>2, <3>3 DEF Begin, Pcs, Working
  <2>2. ASSUME NEW q \in Requests, Look(q) PROVE TypeOK'
    BY <2>2 DEF Look, Visible, Goto, Answer, Pcs, Answered
  <2>3. ASSUME NEW q \in Requests, Accept(q) PROVE TypeOK'
    BY <2>3 DEF Accept, Commit, Goto, Answer, Pcs, Working, Answered
  <2>4. ASSUME NEW q \in Requests, Abort(q) PROVE TypeOK'
    BY <2>4 DEF Abort, Goto, Pcs, Working
  <2>5. ASSUME NEW q \in Requests, Release(q) PROVE TypeOK'
    BY <2>5 DEF Release, NoRecord, Goto, Pcs, Answered
  <2>6. ASSUME NEW q \in Requests, BeginAgain(q) PROVE TypeOK'
    BY <2>6 DEF BeginAgain, Claimed, Goto, Pcs, Working, Answered
  <2>7. ASSUME NEW q \in Requests, LookAgain(q) PROVE TypeOK'
    BY <2>7 DEF LookAgain, Visible, Goto, Answer, Pcs, Answered
  <2>8. ASSUME NEW q \in Requests, Die(q) PROVE TypeOK'
    BY <2>8 DEF Die, Goto, Pcs, Working
  <2>9. CASE Purge
    BY <2>9 DEF Purge, NoRecord
  <2>10. CASE Tick
    BY <2>10 DEF Tick
  <2>11. CASE UNCHANGED vars
    BY <2>11 DEF vars
  <2> QED
    BY <2>1, <2>2, <2>3, <2>4, <2>5, <2>6, <2>7, <2>8, <2>9, <2>10, <2>11 DEF Next
<1> QED BY <1>1, <1>2, PTL DEF Spec

-----------------------------------------------------------------------------
(* A claim never replaces a record whose email still stands.                 *)
LEMMA ClaimSpares ==
  ASSUME TypeOK, SentStands, NEW q \in Requests, NEW b \in Bodies, Claimable(b),
         NEW x \in sent
  PROVE  x.until <= now
<1>1. x.email \in Requests /\ x.until \in Int /\ now \in Int
  BY KeyAssumption DEF TypeOK
<1>2. SUFFICES ASSUME record.email = x.email, record.expiresAt = x.until
               PROVE  x.until <= now
  BY DEF SentStands
<1>3. Complete /\ Exists
  BY <1>1, <1>2, KeyAssumption DEF TypeOK, Complete
<1> QED BY <1>2, <1>3 DEF Claimable

(* One record of the key lets one email out (beginIdempotent's WHERE and     *)
(* the guard of completeIdempotent), whatever takes over, fails or is late.  *)
THEOREM OneEmail == Spec => [](SentStands /\ OneEmailPerRecord)
<1>1. Init => SentStands /\ OneEmailPerRecord
  BY DEF Init, SentStands, OneEmailPerRecord
<1>2. TypeOK /\ SentStands /\ OneEmailPerRecord /\ [Next]_vars
        => (SentStands /\ OneEmailPerRecord)'
  <2> SUFFICES ASSUME TypeOK, SentStands, OneEmailPerRecord, [Next]_vars
               PROVE  (SentStands /\ OneEmailPerRecord)'
    OBVIOUS
  <2>1. ASSUME UNCHANGED <<now, sent>>, \A x \in sent : x.until <= now \/ record' = record
        PROVE  (SentStands /\ OneEmailPerRecord)'
    BY <2>1 DEF SentStands, OneEmailPerRecord
  <2>2. ASSUME NEW q \in Requests, NEW b \in Bodies, Begin(q, b)
        PROVE  (SentStands /\ OneEmailPerRecord)'
    BY <2>1, <2>2, ClaimSpares DEF Begin
  <2>3. ASSUME NEW q \in Requests, Accept(q)
        PROVE  (SentStands /\ OneEmailPerRecord)'
    <3>1. CASE Exists /\ ~Complete
      <4> DEFINE y == [email |-> q, body |-> req[q].body, at |-> now,
                       until |-> record.expiresAt]
      <4>1. /\ record' = [record EXCEPT !.email = q] /\ sent' = sent \cup {y}
            /\ now' = now
        BY <2>3, <3>1 DEF Accept, Commit
      <4>2. \A x \in sent : x.until <= now
        BY <3>1, KeyAssumption DEF SentStands, Complete, TypeOK
      <4>3. record'.email = q /\ record'.expiresAt = y.until
        BY <4>1 DEF TypeOK
      <4>4. SentStands'
        BY <4>1, <4>2, <4>3 DEF SentStands
      <4>5. \A x \in sent : x.until <= y.at
        BY <4>2
      <4>6. OneEmailPerRecord'
        BY <4>1, <4>5 DEF OneEmailPerRecord
      <4> QED BY <4>4, <4>6
    <3>2. CASE ~(Exists /\ ~Complete)
      BY <2>1, <2>3, <3>2 DEF Accept
    <3> QED BY <3>1, <3>2
  <2>4. ASSUME NEW q \in Requests, Release(q)
        PROVE  (SentStands /\ OneEmailPerRecord)'
    <3>1. ~Complete => \A x \in sent : x.until <= now
      BY KeyAssumption DEF SentStands, Complete, TypeOK
    <3> QED BY <2>1, <2>4, <3>1 DEF Release
  <2>5. ASSUME NEW q \in Requests, BeginAgain(q)
        PROVE  (SentStands /\ OneEmailPerRecord)'
    <3>1. req[q].body \in Bodies
      BY <2>5 DEF BeginAgain, TypeOK
    <3> QED BY <2>1, <2>5, <3>1, ClaimSpares DEF BeginAgain
  <2>6. CASE Purge
    <3>1. \A x \in sent : x.until \in Int /\ now \in Int
      BY DEF TypeOK
    <3>2. \A x \in sent : x.until <= now
      BY <2>6, <3>1 DEF Purge, SentStands
    <3> QED BY <2>1, <2>6, <3>2 DEF Purge
  <2>7. CASE Tick
    <3>1. \A x \in sent : x.until \in Int /\ now \in Int
      BY DEF TypeOK
    <3> QED BY <2>7, <3>1 DEF Tick, SentStands, OneEmailPerRecord
  <2>8. ASSUME NEW q \in Requests, Look(q) \/ Abort(q) \/ LookAgain(q) \/ Die(q)
        PROVE  (SentStands /\ OneEmailPerRecord)'
    BY <2>1, <2>8 DEF Look, Abort, LookAgain, Die
  <2>9. CASE UNCHANGED vars
    BY <2>1, <2>9 DEF vars
  <2> QED BY <2>2, <2>3, <2>4, <2>5, <2>6, <2>7, <2>8, <2>9 DEF Next
<1> QED BY <1>1, <1>2, KeyTyping, PTL DEF Spec

-----------------------------------------------------------------------------
(* A 200 names an accepted email: completeIdempotent runs in the accept      *)
(* transaction.                                                              *)
THEOREM Answers == Spec => [](RecordSent /\ AnswersExist)
<1>1. Init => RecordSent /\ AnswersExist
  BY DEF Init, RecordSent, AnswersExist, NoRecord, Idle, Complete
<1>2. TypeOK /\ RecordSent /\ AnswersExist /\ [Next]_vars => (RecordSent /\ AnswersExist)'
  <2> SUFFICES ASSUME TypeOK, RecordSent, AnswersExist, [Next]_vars
               PROVE  (RecordSent /\ AnswersExist)'
    OBVIOUS
  <2> USE DEF TypeOK, RecordSent, AnswersExist, Complete
  <2>1. ASSUME NEW q \in Requests, NEW b \in Bodies, Begin(q, b)
        PROVE  (RecordSent /\ AnswersExist)'
    <3>1. record'.email = None \/ record' = record
      BY <2>1 DEF Begin, Claimed
    <3>2. \A r \in Requests : req'[r].pc = "ok" => req'[r] = req[r]
      BY <2>1, ZenonT(60) DEF Begin, Idle
    <3> QED BY <2>1, <3>1, <3>2 DEF Begin
  <2>2. ASSUME NEW q \in Requests, Look(q) PROVE (RecordSent /\ AnswersExist)'
    BY <2>2 DEF Look, Goto, Answer
  <2>3. ASSUME NEW q \in Requests, Accept(q) PROVE (RecordSent /\ AnswersExist)'
    <3>1. CASE Exists /\ ~Complete
      <4> DEFINE y == [email |-> q, body |-> req[q].body, at |-> now,
                       until |-> record.expiresAt]
      <4>1. record'.email = q /\ sent' = sent \cup {y} /\ y.email = q
        BY <2>3, <3>1 DEF Accept, Commit
      <4>2. \A r \in Requests : req'[r].pc = "ok" => req'[r] = req[r] \/ req'[r].email = q
        BY <2>3, <3>1 DEF Accept, Commit, Answer, Goto
      <4> QED BY <4>1, <4>2
    <3>2. CASE ~(Exists /\ ~Complete)
      BY <2>3, <3>2 DEF Accept, Goto
    <3> QED BY <3>1, <3>2
  <2>4. ASSUME NEW q \in Requests, Abort(q) \/ Die(q) PROVE (RecordSent /\ AnswersExist)'
    BY <2>4 DEF Abort, Die, Goto
  <2>5. ASSUME NEW q \in Requests, Release(q) PROVE (RecordSent /\ AnswersExist)'
    BY <2>5 DEF Release, NoRecord, Goto
  <2>6. ASSUME NEW q \in Requests, BeginAgain(q) PROVE (RecordSent /\ AnswersExist)'
    BY <2>6 DEF BeginAgain, Claimed, Goto
  <2>7. ASSUME NEW q \in Requests, LookAgain(q) PROVE (RecordSent /\ AnswersExist)'
    BY <2>7 DEF LookAgain, Goto, Answer
  <2>8. CASE Purge
    BY <2>8 DEF Purge, NoRecord
  <2>9. CASE Tick
    BY <2>9 DEF Tick
  <2>10. CASE UNCHANGED vars
    BY <2>10 DEF vars
  <2> QED
    BY <2>1, <2>2, <2>3, <2>4, <2>5, <2>6, <2>7, <2>8, <2>9, <2>10 DEF Next
<1> QED BY <1>1, <1>2, KeyTyping, PTL DEF Spec

(* The reason the lives of two emails never overlap: a record completed for  *)
(* an email stands, with the expiry it was given, until that expiry.  The    *)
(* take-over, the release and the completion of another request all ask for  *)
(* an incomplete record.                                                     *)
THEOREM Stands == Spec => []SentStands
BY OneEmail, PTL

=============================================================================
