----------------------------- MODULE WindowProofs -----------------------------
(***************************************************************************)
(* Proofs about UiSession and about WindowClose above it, for any kinds,   *)
(* drafts, facts, settings and bounds.  The session: its types, the        *)
(* invariant that ties confirmations to questions, and from it that        *)
(* decisions cover the drafts they were asked about and that the session   *)
(* implements CloseConsent.  A target's windows: under them the runtime is *)
(* still that session, and the windows, their blocked controls and         *)
(* dialogs, the saves and the list of the manager keep to it.              *)
(***************************************************************************)
EXTENDS WindowClose, SequenceTheorems, TLAPS

-----------------------------------------------------------------------------
(* The two ways in which the record of questions changes.                   *)

\* The question request_close records.
Asked(k, g) == [kind |-> k, generation |-> g, revision |-> edits[k],
                draft |-> draft[k], decided |-> FALSE]

\* A recorded question comes last and changes no other.
LEMMA AskedLast ==
    ASSUME issued \in Seq(Question), NEW q \in Question,
           issued' = Append(issued, q)
    PROVE  /\ issued' \in Seq(Question)
           /\ Len(issued') = Len(issued) + 1
           /\ DOMAIN issued' = 1 .. (Len(issued) + 1)
           /\ DOMAIN issued = 1 .. Len(issued)
           /\ \A i \in 1 .. Len(issued) : issued'[i] = issued[i]
           /\ issued'[Len(issued) + 1] = q
BY AppendProperties, LenProperties

\* Deciding a question changes nothing else of it.
LEMMA DecidedFields ==
    ASSUME NEW q \in Question, NEW p, p = [q EXCEPT !.decided = TRUE]
    PROVE  /\ p.kind = q.kind
           /\ p.generation = q.generation
           /\ p.revision = q.revision
           /\ p.draft = q.draft
           /\ p.decided
BY DEF Question

\* A decision marks its own question and leaves the others alone.
LEMMA DecidedOne ==
    ASSUME issued \in Seq(Question), NEW id \in DOMAIN issued,
           issued' = [issued EXCEPT ![id].decided = TRUE]
    PROVE  /\ issued' \in Seq(Question)
           /\ Len(issued') = Len(issued)
           /\ DOMAIN issued' = DOMAIN issued
           /\ DOMAIN issued = 1 .. Len(issued)
           /\ \A i \in DOMAIN issued : i # id => issued'[i] = issued[i]
           /\ issued'[id] = [issued[id] EXCEPT !.decided = TRUE]
<1> DEFINE q == [issued[id] EXCEPT !.decided = TRUE]
<1>1. DOMAIN issued = 1 .. Len(issued) /\ issued[id] \in Question
  BY LenProperties, ElementOfSeq
<1>2. q \in Question
  BY <1>1 DEF Question
<1>3. issued' = [issued EXCEPT ![id] = q]
  OBVIOUS
<1> HIDE DEF q
<1>4. /\ [issued EXCEPT ![id] = q] \in Seq(Question)
      /\ Len([issued EXCEPT ![id] = q]) = Len(issued)
      /\ \A i \in 1 .. Len(issued) :
            [issued EXCEPT ![id] = q][i] = IF i = id THEN q ELSE issued[i]
  BY <1>1, <1>2, ExceptSeq
<1>5. DOMAIN issued' = 1 .. Len(issued')
  BY <1>3, <1>4, LenProperties
<1> QED
  BY <1>1, <1>3, <1>4, <1>5 DEF q

-----------------------------------------------------------------------------
(* Types.                                                                   *)

\* The types, with the fact that makes a confirmation's id a question's place.
Typed == TypeOK /\ confirmations = Len(issued)

\* At first every value is of its type.
LEMMA InitTyped == SessionInit => Typed
BY SessionAssumption
   DEF SessionInit, Typed, TypeOK, NoConfirmation, Confirmation, NoConsent, Consents

\* Every step keeps the types.
LEMMA NextTyped == Typed /\ [SessionNext]_sessionVars => Typed'
<1> SUFFICES ASSUME Typed, [SessionNext]_sessionVars PROVE Typed'
  OBVIOUS
<1> USE DEF Typed, TypeOK
<1>1. ASSUME NEW k \in Kinds, WindowOpened(k) PROVE Typed'
  BY <1>1, SessionAssumption DEF WindowOpened, NoConfirmation, NoConsent, Consents
<1>2. ASSUME NEW k \in Kinds, NEW g \in Known(k), WindowClosed(k, g) PROVE Typed'
  BY <1>2, SessionAssumption DEF WindowClosed, NoConfirmation
<1>3. ASSUME NEW k \in Kinds, NEW g \in Known(k), NEW f \in Facts, WindowFacts(k, g, f)
      PROVE Typed'
  BY <1>3 DEF WindowFacts
<1>4. ASSUME NEW k \in Kinds, NEW g \in Known(k), NEW v \in Drafts, Set(k, g, v)
      PROVE Typed'
  BY <1>4 DEF Set
<1>5. ASSUME NEW k \in Kinds, NEW g \in Known(k), RequestAllowed(k, g) PROVE Typed'
  BY <1>5 DEF RequestAllowed, NoConfirmation, Consents
<1>6. ASSUME NEW k \in Kinds, NEW g \in Known(k), NEW canSave \in BOOLEAN,
             RequestConfirm(k, g, canSave)
      PROVE Typed'
  <2>1. g \in Nat /\ Asked(k, g) \in Question
    BY DEF Known, Asked, Question
  <2>2. issued' \in Seq(Question) /\ Len(issued') = Len(issued) + 1
    BY <1>6, <2>1, AskedLast DEF RequestConfirm, Asked
  <2>3. pending' \in [Kinds -> Confirmation \cup {NoConfirmation}]
    BY <1>6, <2>1 DEF RequestConfirm, Confirmation
  <2> QED
    BY <1>6, <2>2, <2>3 DEF RequestConfirm
<1>7. ASSUME NEW k \in Kinds, NEW g \in Known(k), NEW id \in 1 .. confirmations,
             ConfirmStale(k, g, id)
      PROVE Typed'
  BY <1>7 DEF ConfirmStale
<1>8. ASSUME NEW k \in Kinds, NEW g \in Known(k), NEW id \in 1 .. confirmations,
             NEW d \in Decisions, ConfirmAccepted(k, g, id, d)
      PROVE Typed'
  <2>1. id \in DOMAIN issued
    BY LenProperties
  <2>2. issued' \in Seq(Question) /\ Len(issued') = Len(issued)
    BY <1>8, <2>1, DecidedOne DEF ConfirmAccepted
  <2>3. Answered(k, d) \in Consents
    BY DEF Answered, Consents
  <2> QED
    BY <1>8, <2>2, <2>3 DEF ConfirmAccepted
<1>9. CASE UNCHANGED sessionVars
  BY <1>9 DEF sessionVars, windowVars
<1> QED
  BY <1>1, <1>2, <1>3, <1>4, <1>5, <1>6, <1>7, <1>8, <1>9 DEF SessionNext

\* Every value stays of its type, whatever is called in whatever order.
THEOREM TypeCorrect == SessionSpec => []TypeOK
<1>1. Typed => TypeOK
  BY DEF Typed
<1> QED
  BY InitTyped, NextTyped, <1>1, PTL DEF SessionSpec

-----------------------------------------------------------------------------
(* Confirmations and questions.                                             *)

\* At first nothing was asked.
LEMMA InitInv == SessionInit => SessionInv
<1> SUFFICES ASSUME SessionInit PROVE SessionInv
  OBVIOUS
<1>1. confirmations = 0 /\ issued = <<>> /\ \A k \in Kinds : pending[k].id = 0
  BY DEF SessionInit, NoConfirmation
<1>2. Len(issued) = 0 /\ DOMAIN issued = {}
  BY <1>1
<1> QED
  BY <1>1, <1>2 DEF SessionInv, PendingIsAsked, QuestionsArePast, OneQuestionPerRevision

\* Every step keeps what is pending the recorded question.
LEMMA NextInv == Typed /\ SessionInv /\ [SessionNext]_sessionVars => SessionInv'
<1> SUFFICES ASSUME Typed, SessionInv, [SessionNext]_sessionVars PROVE SessionInv'
  OBVIOUS
<1>typed. TypeOK /\ Typed' /\ TypeOK'
  BY NextTyped DEF Typed
<1>len. confirmations = Len(issued) /\ confirmations' = Len(issued)'
  BY <1>typed DEF Typed
<1>questions. /\ DOMAIN issued = 1 .. Len(issued)
              /\ \A i \in DOMAIN issued : issued[i] \in Question
  BY <1>typed, LenProperties, ElementOfSeq DEF TypeOK
<1>once. ASSUME UNCHANGED issued, PendingIsAsked', QuestionsArePast' PROVE SessionInv'
  BY <1>once, <1>len DEF SessionInv, OneQuestionPerRevision
<1> USE DEF TypeOK, PendingIsAsked, IsQuestionOf, QuestionsArePast
<1>1. ASSUME NEW k \in Kinds, WindowOpened(k) PROVE SessionInv'
  <2>1. UNCHANGED issued
    BY <1>1 DEF WindowOpened
  <2>2. PendingIsAsked'
    BY <1>1, <1>typed DEF WindowOpened, SessionInv, NoConfirmation
  <2>3. QuestionsArePast'
    <3> SUFFICES ASSUME NEW i \in DOMAIN issued
                 PROVE  /\ issued[i].generation <= generation'[issued[i].kind]
                        /\ issued[i].generation = generation'[issued[i].kind] =>
                              /\ issued[i].revision <= edits'[issued[i].kind]
                              /\ /\ issued[i].revision = edits'[issued[i].kind]
                                 /\ open'[issued[i].kind]
                                 /\ ~issued[i].decided
                                 => pending'[issued[i].kind].id = i
      BY <2>1
    <3>1. issued[i] \in Question /\ issued[i].kind \in Kinds /\ issued[i].generation \in Nat
      BY <1>questions DEF Question
    <3>2. issued[i].generation <= generation[issued[i].kind]
      BY DEF SessionInv
    <3>3. CASE issued[i].kind = k
      BY <1>1, <1>typed, <3>1, <3>2, <3>3 DEF WindowOpened
    <3>4. CASE issued[i].kind # k
      BY <1>1, <1>typed, <3>1, <3>4 DEF WindowOpened, SessionInv
    <3> QED
      BY <3>3, <3>4
  <2> QED
    BY <2>1, <2>2, <2>3, <1>once
<1>2. ASSUME NEW k \in Kinds, NEW g \in Known(k), WindowClosed(k, g) PROVE SessionInv'
  <2>1. UNCHANGED issued
    BY <1>2 DEF WindowClosed
  <2>2. PendingIsAsked'
    BY <1>2, <1>typed DEF WindowClosed, SessionInv, NoConfirmation
  <2>3. QuestionsArePast'
    BY <1>2, <1>typed, <1>questions DEF WindowClosed, SessionInv, Question
  <2> QED
    BY <2>1, <2>2, <2>3, <1>once
<1>3. ASSUME NEW k \in Kinds, NEW g \in Known(k), NEW f \in Facts, WindowFacts(k, g, f)
      PROVE SessionInv'
  BY <1>3, <1>once DEF WindowFacts, SessionInv
<1>4. ASSUME NEW k \in Kinds, NEW g \in Known(k), NEW v \in Drafts, Set(k, g, v)
      PROVE SessionInv'
  <2>1. UNCHANGED <<issued, pending, open, generation>>
    BY <1>4 DEF Set
  <2>2. PendingIsAsked'
    <3> SUFFICES ASSUME NEW j \in Kinds, pending[j].id # 0
                 PROVE  /\ open[j]
                        /\ pending[j].id \in DOMAIN issued
                        /\ pending[j].generation = generation[j]
                        /\ IsQuestionOf(j, issued[pending[j].id])'
      BY <2>1
    <3>1. /\ pending[j].id \in DOMAIN issued
          /\ issued[pending[j].id] \in Question
          /\ IsQuestionOf(j, issued[pending[j].id])
          /\ issued[pending[j].id].generation = generation[j]
      BY <1>questions DEF SessionInv
    <3>2. /\ issued[pending[j].id].kind = j
          /\ issued[pending[j].id].revision \in Nat
      BY <3>1 DEF Question
    <3>3. issued[pending[j].id].revision <= edits[j]
      BY <3>1, <3>2 DEF SessionInv
    <3>4. CASE j = k
      <4>1. edits'[j] = edits[j] + 1 /\ edits[j] \in Nat
        BY <1>4, <1>typed, <3>4 DEF Set
      <4>2. issued[pending[j].id].revision # edits'[j]
        BY <3>2, <3>3, <4>1
      <4> QED
        BY <2>1, <3>1, <4>2 DEF SessionInv
    <3>5. CASE j # k
      <4>1. edits'[j] = edits[j] /\ draft'[j] = draft[j]
        BY <1>4, <1>typed, <3>5 DEF Set
      <4> QED
        BY <2>1, <3>1, <4>1 DEF SessionInv
    <3> QED
      BY <3>4, <3>5
  <2>3. QuestionsArePast'
    <3> SUFFICES ASSUME NEW i \in DOMAIN issued
                 PROVE  /\ issued[i].generation <= generation[issued[i].kind]
                        /\ issued[i].generation = generation[issued[i].kind] =>
                              /\ issued[i].revision <= edits'[issued[i].kind]
                              /\ /\ issued[i].revision = edits'[issued[i].kind]
                                 /\ open[issued[i].kind]
                                 /\ ~issued[i].decided
                                 => pending[issued[i].kind].id = i
      BY <2>1
    <3>1. issued[i].kind \in Kinds /\ issued[i].revision \in Nat
      BY <1>questions DEF Question
    <3>2. CASE issued[i].kind = k
      <4>1. edits'[k] = edits[k] + 1 /\ edits[k] \in Nat
        BY <1>4, <1>typed DEF Set
      <4> QED
        BY <3>1, <3>2, <4>1 DEF SessionInv
    <3>3. CASE issued[i].kind # k
      <4>1. edits'[issued[i].kind] = edits[issued[i].kind]
        BY <1>4, <1>typed, <3>1, <3>3 DEF Set
      <4> QED
        BY <4>1 DEF SessionInv
    <3> QED
      BY <3>2, <3>3
  <2> QED
    BY <2>1, <2>2, <2>3, <1>once
<1>5. ASSUME NEW k \in Kinds, NEW g \in Known(k), RequestAllowed(k, g) PROVE SessionInv'
  <2>1. UNCHANGED <<issued, open, generation, edits, draft>>
    BY <1>5 DEF RequestAllowed
  <2>2. PendingIsAsked'
    BY <1>5, <2>1 DEF RequestAllowed, SessionInv, NoConfirmation
  <2>3. QuestionsArePast'
    BY <1>5, <2>1, <1>questions DEF RequestAllowed, Covered, SessionInv, Question
  <2> QED
    BY <2>1, <2>2, <2>3, <1>once
<1>6. ASSUME NEW k \in Kinds, NEW g \in Known(k), NEW canSave \in BOOLEAN,
             RequestConfirm(k, g, canSave)
      PROVE SessionInv'
  <2> DEFINE n == Len(issued) + 1
             q == Asked(k, g)
  <2>1. g = generation[k] /\ q \in Question
    BY <1>6, <1>typed DEF RequestConfirm, OpenState, Asked, Question
  <2>2. issued' = Append(issued, q)
    BY <1>6 DEF RequestConfirm, Asked
  <2> HIDE DEF q
  <2>3. /\ DOMAIN issued' = 1 .. n
        /\ \A i \in DOMAIN issued : i \in DOMAIN issued' /\ issued'[i] = issued[i]
        /\ issued'[n] = q
        /\ n \notin DOMAIN issued
        /\ \A i \in DOMAIN issued' : i = n \/ i \in DOMAIN issued
    BY <2>1, <2>2, <1>typed, AskedLast
  <2> HIDE DEF n
  <2>4. /\ UNCHANGED <<open, generation, edits, draft>>
        /\ open[k]
        /\ ~Covered(k)
        /\ pending' = [pending EXCEPT ![k] = [id |-> n, generation |-> g,
                                              revision |-> edits[k], canSave |-> canSave]]
    BY <1>6, <1>len DEF RequestConfirm, OpenState, n
  <2>5. /\ q.kind = k /\ q.generation = generation[k] /\ q.revision = edits[k]
        /\ q.draft = draft[k] /\ ~q.decided
    BY <2>1 DEF q, Asked
  <2>6. PendingIsAsked'
    <3> SUFFICES ASSUME NEW j \in Kinds, pending'[j].id # 0
                 PROVE  /\ open[j]
                        /\ pending'[j].id \in DOMAIN issued'
                        /\ pending'[j].generation = generation[j]
                        /\ IsQuestionOf(j, issued[pending[j].id])'
      BY <2>4
    <3>1. CASE j = k
      <4>1. /\ pending'[j].id = n /\ pending'[j].generation = g
            /\ pending'[j].revision = edits[k]
        BY <1>typed, <2>4, <3>1
      <4>2. n \in DOMAIN issued'
        BY <1>typed, <2>3, LenProperties DEF n
      <4> QED
        BY <2>1, <2>3, <2>4, <2>5, <3>1, <4>1, <4>2
    <3>2. CASE j # k
      <4>1. pending'[j] = pending[j]
        BY <1>typed, <2>4, <3>2
      <4>2. /\ pending[j].id \in DOMAIN issued
            /\ issued'[pending[j].id] = issued[pending[j].id]
            /\ open[j] /\ pending[j].generation = generation[j]
            /\ IsQuestionOf(j, issued[pending[j].id])
        BY <2>3, <4>1 DEF SessionInv
      <4>3. pending[j].id \in DOMAIN issued'
        BY <2>3, <4>2
      <4>4. IsQuestionOf(j, issued[pending[j].id])'
        BY <2>4, <4>1, <4>2
      <4> QED
        BY <4>1, <4>2, <4>3, <4>4
    <3> QED
      BY <3>1, <3>2
  <2>7. QuestionsArePast'
    <3> SUFFICES ASSUME NEW i \in DOMAIN issued'
                 PROVE  LET p == issued'[i] IN
                        /\ p.generation <= generation[p.kind]
                        /\ p.generation = generation[p.kind] => p.revision <= edits[p.kind]
                        /\ /\ p.generation = generation[p.kind]
                           /\ p.revision = edits[p.kind]
                           /\ open[p.kind]
                           /\ ~p.decided
                           => pending'[p.kind].id = i
      BY <2>4
    <3>1. CASE i = n
      BY <1>typed, <2>3, <2>4, <2>5, <3>1
    <3>2. CASE i # n
      <4>1. i \in DOMAIN issued /\ issued'[i] = issued[i] /\ issued[i].kind \in Kinds
        BY <2>3, <3>2, <1>questions DEF Question
      <4>2. CASE issued[i].kind = k
        <5>1. ~ (/\ issued[i].generation = generation[k]
                 /\ issued[i].revision = edits[k]
                 /\ ~issued[i].decided)
          <6> SUFFICES ASSUME issued[i].generation = generation[k],
                              issued[i].revision = edits[k],
                              ~issued[i].decided
                       PROVE  FALSE
            OBVIOUS
          <6>1. pending[k].id = i /\ i # 0
            BY <2>4, <4>1, <4>2, <1>questions DEF SessionInv
          <6>2. issued[i].revision = pending[k].revision
            BY <6>1 DEF SessionInv
          <6> QED
            BY <2>4, <6>1, <6>2 DEF Covered
        <5> QED
          BY <4>1, <4>2, <5>1 DEF SessionInv
      <4>3. CASE issued[i].kind # k
        BY <1>typed, <2>4, <4>1, <4>3 DEF SessionInv
      <4> QED
        BY <4>2, <4>3
    <3> QED
      BY <3>1, <3>2
  <2>8. OneQuestionPerRevision'
    <3>1. \A i \in DOMAIN issued :
             ~ (/\ issued[i].kind = k
                /\ issued[i].generation = generation[k]
                /\ issued[i].revision = edits[k]
                /\ ~issued[i].decided)
      <4> SUFFICES ASSUME NEW i \in DOMAIN issued,
                          issued[i].kind = k,
                          issued[i].generation = generation[k],
                          issued[i].revision = edits[k],
                          ~issued[i].decided
                   PROVE  FALSE
        OBVIOUS
      <4>1. pending[k].id = i /\ i # 0
        BY <2>4, <1>questions DEF SessionInv
      <4>2. issued[i].revision = pending[k].revision
        BY <4>1 DEF SessionInv
      <4> QED
        BY <2>4, <4>1, <4>2 DEF Covered
    <3> QED
      BY <2>3, <2>5, <3>1 DEF SessionInv, OneQuestionPerRevision
  <2> QED
    BY <1>len, <2>6, <2>7, <2>8 DEF SessionInv
<1>7. ASSUME NEW k \in Kinds, NEW g \in Known(k), NEW id \in 1 .. confirmations,
             ConfirmStale(k, g, id)
      PROVE SessionInv'
  <2>1. UNCHANGED <<issued, open, generation, edits, draft>>
    BY <1>7 DEF ConfirmStale
  <2>2. PendingIsAsked'
    BY <1>7, <2>1 DEF ConfirmStale, SessionInv, NoConfirmation
  <2>3. QuestionsArePast'
    BY <1>7, <2>1, <1>questions DEF ConfirmStale, Covered, Names, SessionInv, Question
  <2> QED
    BY <2>1, <2>2, <2>3, <1>once
<1>8. ASSUME NEW k \in Kinds, NEW g \in Known(k), NEW id \in 1 .. confirmations,
             NEW d \in Decisions, ConfirmAccepted(k, g, id, d)
      PROVE SessionInv'
  <2>1. /\ UNCHANGED <<open, generation, edits, draft>>
        /\ pending' = [pending EXCEPT ![k] = NoConfirmation]
        /\ pending[k].id = id
    BY <1>8 DEF ConfirmAccepted, Names
  <2>2. id \in DOMAIN issued
    BY <1>len, <1>questions
  <2>3. /\ DOMAIN issued' = DOMAIN issued
        /\ \A i \in DOMAIN issued :
              /\ i # id => issued'[i] = issued[i]
              /\ issued'[i].kind = issued[i].kind
              /\ issued'[i].generation = issued[i].generation
              /\ issued'[i].revision = issued[i].revision
              /\ issued'[i].draft = issued[i].draft
              /\ issued[i].decided => issued'[i].decided
        /\ issued'[id].decided
    <3>1. /\ DOMAIN issued' = DOMAIN issued
          /\ \A i \in DOMAIN issued : i # id => issued'[i] = issued[i]
          /\ issued'[id] = [issued[id] EXCEPT !.decided = TRUE]
      BY <1>8, <1>typed, <2>2, DecidedOne DEF ConfirmAccepted
    <3>2. /\ issued'[id].kind = issued[id].kind
          /\ issued'[id].generation = issued[id].generation
          /\ issued'[id].revision = issued[id].revision
          /\ issued'[id].draft = issued[id].draft
          /\ issued'[id].decided
      BY <1>questions, <2>2, <3>1, DecidedFields
    <3>3. DOMAIN issued' = DOMAIN issued
      BY <3>1
    <3>4. \A i \in DOMAIN issued : i # id => issued'[i] = issued[i]
      BY <3>1
    <3> QED
      BY <3>2, <3>3, <3>4
  <2>4. PendingIsAsked'
    <3> SUFFICES ASSUME NEW j \in Kinds, pending'[j].id # 0
                 PROVE  /\ open[j]
                        /\ pending'[j].id \in DOMAIN issued
                        /\ pending'[j].generation = generation[j]
                        /\ IsQuestionOf(j, issued[pending[j].id])'
      BY <2>1, <2>3
    <3>1. j # k /\ pending'[j] = pending[j]
      BY <1>typed, <2>1 DEF NoConfirmation
    <3>2. pending[j].id # id
      BY <2>1, <3>1 DEF SessionInv
    <3> QED
      BY <2>1, <2>3, <3>1, <3>2 DEF SessionInv
  <2>5. QuestionsArePast'
    <3> SUFFICES ASSUME NEW i \in DOMAIN issued
                 PROVE  LET p == issued'[i] IN
                        /\ p.generation <= generation[p.kind]
                        /\ p.generation = generation[p.kind] => p.revision <= edits[p.kind]
                        /\ /\ p.generation = generation[p.kind]
                           /\ p.revision = edits[p.kind]
                           /\ open[p.kind]
                           /\ ~p.decided
                           => pending'[p.kind].id = i
      BY <2>1, <2>3
    <3>1. CASE i = id
      BY <2>3, <3>1 DEF SessionInv
    <3>2. CASE i # id
      <4>1. issued'[i] = issued[i] /\ issued[i].kind \in Kinds
        BY <2>3, <3>2, <1>questions DEF Question
      <4>2. CASE issued[i].kind = k
        BY <2>1, <3>2, <4>1, <4>2 DEF SessionInv
      <4>3. CASE issued[i].kind # k
        BY <1>typed, <2>1, <4>1, <4>3 DEF SessionInv
      <4> QED
        BY <4>2, <4>3
    <3> QED
      BY <3>1, <3>2
  <2>6. OneQuestionPerRevision'
    BY <2>3 DEF SessionInv, OneQuestionPerRevision
  <2> QED
    BY <1>len, <2>4, <2>5, <2>6 DEF SessionInv
<1>9. CASE UNCHANGED sessionVars
  BY <1>9, <1>once DEF sessionVars, windowVars, SessionInv
<1> QED
  BY <1>1, <1>2, <1>3, <1>4, <1>5, <1>6, <1>7, <1>8, <1>9 DEF SessionNext


\* Confirmations and the questions asked keep together under every call.
THEOREM SessionInvariant == SessionSpec => [](Typed /\ SessionInv)
<1>1. Typed /\ SessionInv /\ [SessionNext]_sessionVars => Typed' /\ SessionInv'
  BY NextTyped, NextInv
<1> QED
  BY InitTyped, InitInv, <1>1, PTL DEF SessionSpec

\* No two undecided questions are about the same edits of an instance.
THEOREM QuestionsAreMerged == SessionSpec => []OneQuestionPerRevision
<1>1. SessionInv => OneQuestionPerRevision
  BY DEF SessionInv
<1> QED
  BY SessionInvariant, <1>1, PTL

\* A step decides only a question about the drafts there are.
LEMMA NextDecides ==
    Typed /\ SessionInv /\ [SessionNext]_sessionVars => [DecidesWhatIsThere]_sessionVars
<1> SUFFICES ASSUME Typed, SessionInv, [SessionNext]_sessionVars,
                    NEW i \in DOMAIN issued, issued'[i].decided, ~issued[i].decided
             PROVE  /\ open[issued[i].kind]
                    /\ issued[i].generation = generation[issued[i].kind]
                    /\ issued[i].draft = draft[issued[i].kind]
  BY DEF DecidesWhatIsThere
<1>1. ASSUME NEW k \in Kinds, NEW g \in Known(k), NEW id \in 1 .. confirmations,
             NEW d \in Decisions, ConfirmAccepted(k, g, id, d)
      PROVE  /\ open[issued[i].kind]
             /\ issued[i].generation = generation[issued[i].kind]
             /\ issued[i].draft = draft[issued[i].kind]
  <2>1. id \in DOMAIN issued /\ issued \in Seq(Question)
    BY LenProperties DEF Typed, TypeOK
  <2>2. i = id
    BY <1>1, <2>1, DecidedOne DEF ConfirmAccepted
  <2>3. pending[k].id = id /\ id # 0 /\ pending[k].revision = edits[k]
    BY <1>1 DEF ConfirmAccepted, Names, Covered
  <2> QED
    BY <2>2, <2>3 DEF SessionInv, PendingIsAsked, IsQuestionOf
<1>2. ASSUME NEW k \in Kinds, NEW g \in Known(k), NEW canSave \in BOOLEAN,
             RequestConfirm(k, g, canSave)
      PROVE  FALSE
  <2>1. issued \in Seq(Question) /\ Asked(k, g) \in Question
    BY <1>2 DEF Typed, TypeOK, Known, Asked, Question
  <2>2. issued'[i] = issued[i]
    BY <1>2, <2>1, AskedLast DEF RequestConfirm, Asked
  <2> QED
    BY <2>2
<1>3. issued' = issued => FALSE
  OBVIOUS
<1> QED
  BY <1>1, <1>2, <1>3
     DEF SessionNext, WindowOpened, WindowClosed, WindowFacts, Set, RequestAllowed,
         ConfirmStale, sessionVars

\* An accepted decision is about the very drafts its question was asked about.
THEOREM DecisionsAreCovered == SessionSpec => DecisionsCoverDrafts
<1>1. Typed /\ SessionInv /\ [SessionNext]_sessionVars => [DecidesWhatIsThere]_sessionVars
  BY NextDecides
<1> QED
  BY SessionInvariant, <1>1, PTL DEF SessionSpec, DecisionsCoverDrafts

-----------------------------------------------------------------------------
(* Facts.                                                                   *)

\* A step that changes facts moves their generation or version.
LEMMA NextVersions ==
    Typed /\ [SessionNext]_sessionVars => [VersionsFacts]_sessionVars
<1> SUFFICES ASSUME Typed, [SessionNext]_sessionVars,
                    NEW j \in Kinds, facts'[j] # facts[j]
             PROVE  \/ generation'[j] > generation[j]
                    \/ /\ generation'[j] = generation[j]
                       /\ factVersion'[j] > factVersion[j]
  BY DEF VersionsFacts
<1> USE DEF Typed, TypeOK
<1>1. ASSUME NEW k \in Kinds, WindowOpened(k) PROVE generation'[j] > generation[j]
  BY <1>1 DEF WindowOpened
<1>2. ASSUME NEW k \in Kinds, NEW g \in Known(k), NEW f \in Facts, WindowFacts(k, g, f)
      PROVE  generation'[j] = generation[j] /\ factVersion'[j] > factVersion[j]
  BY <1>2 DEF WindowFacts
<1>3. facts' = facts => FALSE
  OBVIOUS
<1> QED
  BY <1>1, <1>2, <1>3
     DEF SessionNext, WindowClosed, Set, RequestAllowed, RequestConfirm,
         ConfirmStale, ConfirmAccepted, sessionVars, windowVars

\* Whoever remembers a generation and a fact version sees every change.
THEOREM FactsCarryVersions == SessionSpec => FactsAreVersioned
BY InitTyped, NextTyped, NextVersions, PTL DEF SessionSpec, FactsAreVersioned

-----------------------------------------------------------------------------
(* The abstract protocol.                                                   *)

\* The initial states are initial states of the abstract protocol.
LEMMA InitConsents == SessionInit => Consent!Init
<1> SUFFICES ASSUME SessionInit PROVE Consent!Init
  OBVIOUS
<1>1. \A k \in Kinds : (pending[k].id # 0) = FALSE /\ pending[k].revision = 0
  BY DEF SessionInit, NoConfirmation
<1>2. [k \in Kinds |-> pending[k].id # 0] = [k \in Kinds |-> FALSE]
  BY <1>1, Zenon
<1>3. [k \in Kinds |-> pending[k].revision] = [k \in Kinds |-> 0]
  BY <1>1
<1> QED
  BY <1>2, <1>3 DEF SessionInit, NoConsent, Consent!Init, Consent!Nothing

\* Every step is one of the abstract protocol or stutters.
LEMMA NextConsents ==
    Typed /\ SessionInv /\ [SessionNext]_sessionVars => [Consent!Next]_Consent!vars
<1> SUFFICES ASSUME Typed, SessionInv, [SessionNext]_sessionVars
             PROVE  Consent!Next \/ UNCHANGED Consent!vars
  OBVIOUS
<1> USE DEF Typed, TypeOK
<1>1. ASSUME NEW k \in Kinds, WindowOpened(k) PROVE Consent!Open(k)
  <2>1. pending[k].id = 0
    BY <1>1 DEF WindowOpened, SessionInv, PendingIsAsked
  <2>2. pending[k] = NoConfirmation
    BY <2>1 DEF Confirmation
  <2>3. pending' = pending
    BY <1>1, <2>2 DEF WindowOpened
  <2> QED
    BY <1>1, <2>3 DEF WindowOpened, NoConsent, Consent!Open, Consent!Nothing
<1>2. ASSUME NEW k \in Kinds, NEW g \in Known(k), WindowClosed(k, g) PROVE Consent!Close(k)
  BY <1>2 DEF WindowClosed, OpenState, Consent!Close, NoConfirmation
<1>3. ASSUME NEW k \in Kinds, NEW g \in Known(k), NEW f \in Facts, WindowFacts(k, g, f)
      PROVE  UNCHANGED Consent!vars
  BY <1>3 DEF WindowFacts, Consent!vars
<1>4. ASSUME NEW k \in Kinds, NEW g \in Known(k), NEW v \in Drafts, Set(k, g, v)
      PROVE  Consent!Edit(k)
  BY <1>4 DEF Set, OpenState, Consent!Edit
<1>5. ASSUME NEW k \in Kinds, NEW g \in Known(k), RequestAllowed(k, g)
      PROVE  Consent!Allow(k)
  BY <1>5 DEF RequestAllowed, OpenState, Covered, Consent!Allow, NoConfirmation
<1>6. ASSUME NEW k \in Kinds, NEW g \in Known(k), NEW canSave \in BOOLEAN,
             RequestConfirm(k, g, canSave)
      PROVE  Consent!Ask(k)
  <2>1. /\ pending'[k].id # 0 /\ pending'[k].revision = edits[k]
        /\ \A j \in Kinds : j # k => pending'[j] = pending[j]
    BY <1>6 DEF RequestConfirm
  <2>2. [j \in Kinds |-> pending'[j].id # 0]
          = [[j \in Kinds |-> pending[j].id # 0] EXCEPT ![k] = TRUE]
    <3>1. (pending'[k].id # 0) = TRUE
      BY <2>1
    <3> QED
      BY <2>1, <3>1, Zenon
  <2>3. [j \in Kinds |-> pending'[j].revision]
          = [[j \in Kinds |-> pending[j].revision] EXCEPT ![k] = edits[k]]
    BY <2>1
  <2> QED
    BY <1>6, <2>2, <2>3 DEF RequestConfirm, OpenState, Covered, Consent!Ask
<1>7. ASSUME NEW k \in Kinds, NEW g \in Known(k), NEW id \in 1 .. confirmations,
             ConfirmStale(k, g, id)
      PROVE  Consent!Withdraw(k)
  BY <1>7 DEF ConfirmStale, Names, Consent!Withdraw, NoConfirmation
<1>8. ASSUME NEW k \in Kinds, NEW g \in Known(k), NEW id \in 1 .. confirmations,
             NEW d \in Decisions, ConfirmAccepted(k, g, id, d)
      PROVE  Consent!Withdraw(k) \/ Consent!Consent(k)
  <2>1. CASE d = "cancel"
    BY <1>8, <2>1 DEF ConfirmAccepted, Answered, Names, Consent!Withdraw,
                      NoConfirmation
  <2>2. CASE d # "cancel"
    BY <1>8, <2>2 DEF ConfirmAccepted, Answered, Names, OpenState, Covered, Consent!Consent,
                      NoConfirmation
  <2> QED
    BY <2>1, <2>2
<1>9. CASE UNCHANGED sessionVars
  BY <1>9 DEF sessionVars, windowVars, Consent!vars
<1> QED
  BY <1>1, <1>2, <1>3, <1>4, <1>5, <1>6, <1>7, <1>8, <1>9 DEF SessionNext, Consent!Next

\* The session is an implementation of the close protocol: a consent answers a
\* question about everything there was to lose.
THEOREM SessionImplementsConsent == SessionSpec => ImplementsConsent
BY InitConsents, NextConsents, SessionInvariant, PTL
   DEF SessionSpec, ImplementsConsent, Consent!Spec

-----------------------------------------------------------------------------
(* The session underneath.                                                  *)

\* Every instance that is open has a generation a caller can hold.
Opened == \A k \in Kinds : open[k] => generation[k] # 0

Session == Typed /\ SessionInv /\ Opened /\ CloseTypeOK

\* A generation that is open is one the session's callers may hold, and a
\* confirmation that can be decided is one that was issued.
LEMMA Callers ==
    ASSUME Session, NEW k \in Kinds, NEW g, OpenState(k, g)
    PROVE  /\ g \in Known(k)
           /\ \A id : Names(k, g, id) => id \in 1 .. confirmations
<1>1. g \in Known(k)
  BY DEF Session, Opened, Typed, TypeOK, OpenState, Known
<1>2. ASSUME NEW id, Names(k, g, id) PROVE id \in 1 .. confirmations
  <2>1. id # 0 /\ pending[k].id = id
    BY <1>2 DEF Names
  <2>2. id \in DOMAIN issued
    BY <2>1 DEF Session, SessionInv, PendingIsAsked
  <2> QED
    BY <2>2, LenProperties DEF Session, Typed, TypeOK
<1> QED
  BY <1>1, <1>2

\* Whatever the target does, the session makes one of its steps or none.
LEMMA TargetDrivesSession == Session /\ [Next]_vars => [SessionNext]_sessionVars
<1> SUFFICES ASSUME Session, [Next]_vars PROVE [SessionNext]_sessionVars
  OBVIOUS
<1>0. Savable \in BOOLEAN
  BY CloseAssumption DEF Session, CloseTypeOK, Savable
<1>1. ASSUME NEW k \in Kinds, OpenWindow(k) PROVE [SessionNext]_sessionVars
  BY <1>1 DEF OpenWindow, SessionNext
<1>2. ASSUME NEW k \in Kinds, NEW v \in Drafts, Write(k, v) PROVE [SessionNext]_sessionVars
  <2>1. generation[k] \in Known(k)
    BY <1>2, Callers DEF Write, Set, OpenState
  <2> QED
    BY <1>2, <2>1 DEF Write, SessionNext
<1>3. ASSUME NEW k \in Kinds, RequestClose(k) PROVE [SessionNext]_sessionVars
  <2>1. OpenState(k, listed[k])
    BY <1>3 DEF RequestClose, RequestConfirm, RequestAllowed
  <2>2. listed[k] \in Known(k)
    BY <2>1, Callers
  <2> QED
    BY <1>0, <1>3, <2>2 DEF RequestClose, SessionNext
<1>4. ASSUME NEW k \in Kinds, NEW id, Stale(k, id) PROVE [SessionNext]_sessionVars
  <2>1. ConfirmStale(k, listed[k], id) =>
           listed[k] \in Known(k) /\ id \in 1 .. confirmations
    BY Callers DEF ConfirmStale, Names
  <2> QED
    BY <1>4, <2>1 DEF Stale, SessionNext
<1>5. ASSUME NEW k \in Kinds, NEW id, NEW d \in Decisions, Accepted(k, id, d)
      PROVE  [SessionNext]_sessionVars
  <2>1. /\ ConfirmAccepted(k, listed[k], id, d)
        /\ listed[k] \in Known(k) /\ id \in 1 .. confirmations
    BY <1>5, Callers DEF Accepted, ConfirmAccepted, Names
  <2> QED
    BY <2>1 DEF SessionNext
<1>6. ASSUME NEW k \in Kinds, NEW d \in Decisions,
             DecideInDialog(k, d) \/ \E id \in 1 .. confirmations : DecideExternally(k, id, d)
      PROVE  [SessionNext]_sessionVars
  BY <1>4, <1>5, <1>6 DEF DecideInDialog, DecideExternally, Refused
<1>7. ASSUME NEW s \in saves, SaveSucceeds(s) \/ SaveFails(s)
      PROVE  [SessionNext]_sessionVars
  BY <1>7 DEF SaveSucceeds, SaveFails
<1>8. ASSUME NEW w \in finishing, FinishClose(w) PROVE [SessionNext]_sessionVars
  <2>1. w.kind \in Kinds
    BY <1>8 DEF Session, CloseTypeOK, Window
  <2>2. WindowClosed(w.kind, w.generation) => w.generation \in Known(w.kind)
    BY <2>1, Callers DEF WindowClosed
  <2> QED
    BY <1>8, <2>1, <2>2 DEF FinishClose, SessionNext
<1>9. CASE UNCHANGED vars
  BY <1>9 DEF vars
<1> QED
  BY <1>1, <1>2, <1>3, <1>6, <1>7, <1>8, <1>9 DEF Next

-----------------------------------------------------------------------------
(* Types.                                                                   *)

\* At first the session's invariant holds and no window is open.
LEMMA InitTypes == Init => Session
<1> SUFFICES ASSUME Init PROVE Session
  OBVIOUS
<1>1. Typed /\ SessionInv
  BY InitTyped, InitInv DEF Init
<1>2. CloseTypeOK
  BY <1>1, SessionAssumption DEF Init, CloseTypeOK, Typed
<1> QED
  BY <1>1, <1>2 DEF Session, Opened, Init, SessionInit

\* The target's own variables after a step that keeps the session typed.
LEMMA NextTargetTyped ==
    ASSUME Session, TypeOK', [Next]_vars
    PROVE  CloseTypeOK'
<1> USE DEF Session, CloseTypeOK
<1>0. \A k \in Kinds : TheWindow(k) \in Window
  BY DEF TheWindow, Window, TypeOK
<1>1. ASSUME NEW k \in Kinds, setting' = setting, OpenWindow(k) PROVE CloseTypeOK'
  BY <1>1 DEF OpenWindow, TypeOK
<1>2. ASSUME NEW k \in Kinds, NEW v \in Drafts, setting' = setting, Write(k, v)
      PROVE CloseTypeOK'
  BY <1>2 DEF Write, targetVars
<1>3. ASSUME NEW k \in Kinds, setting' = setting, RequestClose(k) PROVE CloseTypeOK'
  <2>1. pending[k].id \in Nat
    BY DEF TypeOK, Confirmation, NoConfirmation
  <2>2. \A id \in Nat : ShownDialogs(k, id) \subseteq Nat
    BY DEF ShownDialogs
  <2>3. confirmations' \in Nat
    BY DEF TypeOK
  <2> QED
    BY <1>0, <1>3, <2>1, <2>2, <2>3 DEF RequestClose, Shows
<1>4. ASSUME NEW k \in Kinds, NEW id, NEW d \in Decisions, setting' = setting,
             UNCHANGED <<listed, saved>>, Refused(k, id, d)
      PROVE  CloseTypeOK'
  BY <1>4 DEF Refused, Reject
<1>5. ASSUME NEW k \in Kinds, NEW id \in Nat, NEW d \in Decisions, setting' = setting,
             UNCHANGED <<listed, saved>>, Accepted(k, id, d)
      PROVE  CloseTypeOK'
  <2>1. [window |-> TheWindow(k), draft |-> draft[k], id |-> id]
           \in [window : Window, draft : Drafts, id : Nat]
    BY <1>0 DEF TypeOK
  <2> QED
    BY <1>0, <1>5, <2>1 DEF Accepted
<1>6. ASSUME NEW k \in Kinds, NEW d \in Decisions, setting' = setting, DecideInDialog(k, d)
      PROVE  CloseTypeOK'
  BY <1>4, <1>5, <1>6 DEF DecideInDialog
<1>7. ASSUME NEW k \in Kinds, NEW d \in Decisions, NEW id \in 1 .. confirmations,
             setting' = setting, DecideExternally(k, id, d)
      PROVE  CloseTypeOK'
  <2>1. id \in Nat
    BY DEF TypeOK
  <2> QED
    BY <1>4, <1>5, <1>7, <2>1 DEF DecideExternally
<1>8. ASSUME NEW s \in saves, setting' = setting, SaveSucceeds(s) \/ SaveFails(s)
      PROVE  CloseTypeOK'
  BY <1>8 DEF SaveSucceeds, SaveFails
<1>9. ASSUME NEW w \in finishing, setting' = setting, FinishClose(w) PROVE CloseTypeOK'
  <2>1. w \in Window /\ finishing' = finishing \ {w} /\ UNCHANGED <<saves, saved>>
    BY <1>9 DEF FinishClose
  <2>2. listed' \in [Kinds -> Nat]
    BY <1>9 DEF FinishClose
  <2>3. blocked' \in [Kinds -> Nat] /\ dialog' \in [Kinds -> Nat]
    BY <1>9 DEF FinishClose
  <2> QED
    BY <1>9, <2>1, <2>2, <2>3
<1>10. CASE UNCHANGED vars
  BY <1>10 DEF vars, targetVars
<1> QED
  BY <1>1, <1>2, <1>3, <1>6, <1>7, <1>8, <1>9, <1>10 DEF Next

\* Every step keeps the session's invariant.
LEMMA NextSession == Session /\ [Next]_vars => Session'
<1> SUFFICES ASSUME Session, [Next]_vars PROVE Session'
  OBVIOUS
<1>1. [SessionNext]_sessionVars
  BY TargetDrivesSession
<1>2. Typed' /\ SessionInv'
  BY <1>1, NextTyped, NextInv DEF Session
<1>3. CloseTypeOK'
  BY <1>2, NextTargetTyped DEF Typed
<1>4. Opened'
  <2>1. ASSUME NEW k \in Kinds, WindowOpened(k) PROVE Opened'
    BY <2>1 DEF Session, Opened, Typed, TypeOK, WindowOpened
  <2>2. ASSUME NEW k \in Kinds, NEW g \in Known(k), WindowClosed(k, g) PROVE Opened'
    BY <2>2 DEF Session, Opened, Typed, TypeOK, WindowClosed
  <2>3. ASSUME UNCHANGED <<generation, open>> PROVE Opened'
    BY <2>3 DEF Session, Opened
  <2> QED
    BY <1>1, <2>1, <2>2, <2>3
       DEF SessionNext, WindowFacts, Set, RequestAllowed, RequestConfirm, ConfirmStale,
           ConfirmAccepted, sessionVars, windowVars
<1> QED
  BY <1>2, <1>3, <1>4 DEF Session

\* Types are kept under a target's windows.
THEOREM ClosesTypeCorrect == Spec => []CloseTypeOK
<1>1. Session => CloseTypeOK
  BY DEF Session
<1> QED
  BY InitTypes, NextSession, <1>1, PTL DEF Spec

\* What GTK or the page does with the runtime is a behaviour of UiSession, so
\* every theorem about the session holds under a target's windows.
THEOREM TargetKeepsSession == Spec => SessionSpec
<1>1. Init => SessionInit
  BY DEF Init
<1> QED
  BY InitTypes, NextSession, TargetDrivesSession, <1>1, PTL DEF Spec, SessionSpec

-----------------------------------------------------------------------------
(* The windows.                                                             *)

\* Saves and handlers hold windows of now or before, one handler runs at a
\* time, and what waits for a save was declared to have one.
Held ==
    /\ \A s \in saves : s.window.generation <= generation[s.window.kind]
    /\ \A v, w \in finishing : v = w
    /\ saves # {} => Savable
    /\ \A k \in Kinds : pending[k].canSave => Savable
    /\ \A w \in finishing : OpenState(w.kind, w.generation) \/ Savable

\* A window that is about to close has a consent, which covers every edit
\* where no save can have run since.
Consented ==
    /\ \A s \in saves :
          OpenState(s.window.kind, s.window.generation) =>
              consent[s.window.kind].given # "no"
    /\ \A w \in finishing :
          OpenState(w.kind, w.generation) =>
              /\ consent[w.kind].given # "no"
              /\ Savable \/ consent[w.kind].revision = edits[w.kind]

\* Blocked controls wait for the pending confirmation, or for their window to
\* close; where drafts only change through them, that confirmation is current.
Blocking ==
    \A k \in Kinds :
        /\ ~open[k] => blocked[k] = 0 /\ dialog[k] = 0
        /\ blocked[k] # 0 /\ (Frontend = "gtk" \/ ~Background) =>
              pending[k].id = blocked[k] \/ TheWindow(k) \in finishing
        /\ blocked[k] # 0 /\ ~Background => Covered(k)
        /\ dialog[k] # 0 /\ (Frontend = "web" \/ ~Background) => dialog[k] = blocked[k]

\* The manager lists what is open.
Listing ==
    Frontend = "gtk" \/ ~Savable =>
        \A k \in Kinds : listed[k] = IF open[k] THEN generation[k] ELSE 0

\* What the runtime's refusal of a decision changes.
LEMMA StaleChanges ==
    ASSUME Session, NEW k \in Kinds, NEW id, Stale(k, id)
    PROVE  /\ UNCHANGED <<generation, open, draft, edits, consent>>
           /\ OpenState(k, listed[k])
           /\ \/ UNCHANGED pending /\ pending[k].id # id
              \/ /\ pending[k].id = id /\ ~Covered(k)
                 /\ pending' = [pending EXCEPT ![k] = NoConfirmation]
BY DEF Stale, ConfirmStale, Names, sessionVars, windowVars

\* What an accepted decision changes.
LEMMA AcceptedChanges ==
    ASSUME Session, NEW k \in Kinds, NEW id, NEW d \in Decisions, Accepted(k, id, d)
    PROVE  /\ UNCHANGED <<generation, open, draft, edits>>
           /\ OpenState(k, generation[k])
           /\ pending' = [pending EXCEPT ![k] = NoConfirmation]
           /\ d = "save" => pending[k].canSave
           /\ consent' = [consent EXCEPT ![k] = Answered(k, d)]
BY DEF Accepted, ConfirmAccepted, Names, OpenState

\* Every decision of the dialog or an external entry is accepted or refused.
LEMMA DecisionCases ==
    ASSUME Session, NEW k \in Kinds, NEW d \in Decisions,
           \/ DecideInDialog(k, d)
           \/ \E id \in 1 .. confirmations : DecideExternally(k, id, d)
    PROVE  /\ UiIdle
           /\ UNCHANGED listed
           /\ \E id \in Nat :
                 \/ Accepted(k, id, d)
                 \/ /\ Stale(k, id)
                    /\ UNCHANGED <<saves, finishing>>
                    /\ \/ Reject(k, id)
                       \/ /\ Frontend = "gtk" /\ id = dialog[k]
                          /\ dialog' = [dialog EXCEPT ![k] = 0]
                          /\ blocked' = [blocked EXCEPT ![k] = IF @ = dialog[k] THEN 0 ELSE @]
<1>1. 1 .. confirmations \subseteq Nat /\ dialog[k] \in Nat
  BY DEF Session, CloseTypeOK, TypeOK
<1> QED
  BY <1>1 DEF DecideInDialog, DecideExternally, Refused

\* Saves stay those of windows that were opened, and one handler finishes at a time.
LEMMA NextHeld ==
    ASSUME Session, Held, [Next]_vars
    PROVE  Held'
<1>types. /\ generation \in [Kinds -> Nat] /\ open \in [Kinds -> BOOLEAN]
          /\ pending \in [Kinds -> Confirmation \cup {NoConfirmation}]
          /\ saves \subseteq [window : Window, draft : Drafts, id : Nat]
  BY DEF Session, CloseTypeOK, TypeOK
<1>0. Savable' = Savable
  BY DEF Next, vars, Savable
<1>1. ASSUME NEW k \in Kinds, OpenWindow(k) PROVE Held'
  <2>1. \A j \in Kinds : generation'[j] \in Nat /\ generation[j] <= generation'[j]
    BY <1>types, <1>1 DEF OpenWindow, WindowOpened, sessionVars, windowVars
  <2>2. \A j \in Kinds : pending'[j] = pending[j] \/ pending'[j] = NoConfirmation
    BY <1>types, <1>1 DEF OpenWindow, WindowOpened, sessionVars, windowVars
  <2>3. saves' = saves /\ finishing = {} /\ finishing' = {}
    BY <1>types, <1>1 DEF OpenWindow, UiIdle
  <2>4. \A s \in saves : s.window.kind \in Kinds /\ s.window.generation \in Nat
    BY <1>types DEF Window
  <2> QED
    BY <1>types, <1>0, <2>1, <2>2, <2>3, <2>4 DEF NoConfirmation, Held
<1>2. ASSUME NEW k \in Kinds, NEW v \in Drafts, Write(k, v) PROVE Held'
  BY <1>0, <1>2 DEF Held, Write, Set, targetVars, OpenState
<1>3. ASSUME NEW k \in Kinds, RequestClose(k) PROVE Held'
  <2>1. UNCHANGED <<generation, open, saves>>
    BY <1>types, <1>3 DEF RequestClose, RequestConfirm, RequestAllowed, sessionVars, windowVars
  <2>2. \A j \in Kinds : pending'[j].canSave => pending[j].canSave \/ Savable
    <3>1. \/ UNCHANGED sessionVars
          \/ RequestConfirm(k, listed[k], Savable)
          \/ RequestAllowed(k, listed[k])
      BY <1>3 DEF RequestClose
    <3>2. CASE UNCHANGED sessionVars
      BY <3>2 DEF sessionVars, windowVars
    <3>3. CASE RequestConfirm(k, listed[k], Savable)
      BY <1>types, <3>3 DEF RequestConfirm
    <3>4. CASE RequestAllowed(k, listed[k])
      BY <1>types, <3>4 DEF RequestAllowed, NoConfirmation
    <3> QED
      BY <3>1, <3>2, <3>3, <3>4
  <2>3. finishing' = {} \/ (finishing' = {TheWindow(k)} /\ OpenState(k, generation[k]))
    <3>1. RequestAllowed(k, listed[k]) => OpenState(k, generation[k])
      BY DEF RequestAllowed, OpenState
    <3> QED
      BY <1>3, <3>1 DEF RequestClose, UiIdle
  <2> QED
    BY <1>types, <1>0, <2>1, <2>2, <2>3 DEF Held, TheWindow, OpenState
<1>4. ASSUME NEW k \in Kinds, NEW d \in Decisions, NEW id \in Nat, UiIdle, Accepted(k, id, d)
      PROVE  Held'
  <2>1. generation' = generation /\ open' = open
    BY <1>types, <1>4, AcceptedChanges
  <2>2. \A j \in Kinds : pending'[j].canSave => pending[j].canSave
    BY <1>types, <1>4, AcceptedChanges DEF NoConfirmation
  <2>3. d = "save" => Savable
    BY <1>types, <1>4, AcceptedChanges DEF Held
  <2>4. \A s \in saves' : s \in saves \/ (d = "save" /\ s.window = TheWindow(k))
    BY <1>4 DEF Accepted
  <2>5. finishing' = {} \/ (finishing' = {TheWindow(k)} /\ OpenState(k, generation[k]))
    BY <1>types, <1>4, AcceptedChanges DEF Accepted
  <2>6. generation[k] \in Nat
    BY <1>types
  <2> QED
    BY <1>types, <1>0, <2>1, <2>2, <2>3, <2>4, <2>5, <2>6 DEF Held, TheWindow, OpenState
<1>5. ASSUME NEW k \in Kinds, NEW id \in Nat, UiIdle, Stale(k, id), UNCHANGED <<saves, finishing>>
      PROVE  Held'
  <2>1. \A j \in Kinds : pending'[j].canSave => pending[j].canSave
    BY <1>types, <1>5, StaleChanges DEF NoConfirmation
  <2> QED
    BY <1>types, <1>0, <1>5, <2>1, StaleChanges DEF Held, OpenState
<1>6. ASSUME NEW k \in Kinds, NEW d \in Decisions,
             DecideInDialog(k, d) \/ \E id \in 1 .. confirmations : DecideExternally(k, id, d)
      PROVE  Held'
  BY <1>4, <1>5, <1>6, DecisionCases
<1>7. ASSUME NEW s \in saves, SaveSucceeds(s) \/ SaveFails(s) PROVE Held'
  BY <1>0, <1>7 DEF Held, SaveSucceeds, SaveFails, sessionVars, windowVars, UiIdle
<1>8. ASSUME NEW w \in finishing, FinishClose(w) PROVE Held'
  <2>1. finishing' = {} /\ saves' = saves /\ generation' = generation
    BY <1>types, <1>8 DEF Held, FinishClose, WindowClosed, sessionVars, windowVars
  <2>2. \A j \in Kinds : pending'[j].canSave => pending[j].canSave
    BY <1>types, <1>8 DEF FinishClose, WindowClosed, sessionVars, windowVars, NoConfirmation
  <2> QED
    BY <1>types, <1>0, <2>1, <2>2 DEF Held
<1>9. CASE UNCHANGED vars
  BY <1>0, <1>9 DEF Held, vars, targetVars, sessionVars, windowVars, OpenState
<1> QED
  BY <1>1, <1>2, <1>3, <1>6, <1>7, <1>8, <1>9 DEF Next

-----------------------------------------------------------------------------
(* Consents.                                                                *)

\* Every save stays one a consent allowed.
LEMMA NextConsented ==
    ASSUME Session, Held, Consented, [Next]_vars
    PROVE  Consented'
<1>types. /\ generation \in [Kinds -> Nat] /\ open \in [Kinds -> BOOLEAN]
          /\ edits \in [Kinds -> Nat] /\ consent \in [Kinds -> Consents]
          /\ \A s \in saves : s.window.kind \in Kinds /\ s.window.generation \in Nat
  BY DEF Session, CloseTypeOK, TypeOK, Window
<1>0. Savable' = Savable
  BY DEF Next, vars, Savable
<1>1. ASSUME NEW k \in Kinds, OpenWindow(k) PROVE Consented'
  <2>1. saves' = saves /\ finishing' = {}
    BY <1>1 DEF OpenWindow, UiIdle
  <2>2. ASSUME NEW s \in saves,
               open'[s.window.kind], generation'[s.window.kind] = s.window.generation
        PROVE  consent'[s.window.kind].given # "no"
    <3>1. CASE UNCHANGED sessionVars
      BY <1>types, <2>2, <3>1 DEF sessionVars, windowVars, Consented, OpenState
    <3>2. CASE WindowOpened(k) /\ s.window.kind = k
      BY <1>types, <2>2, <3>2 DEF WindowOpened, Held
    <3>3. CASE WindowOpened(k) /\ s.window.kind # k
      BY <1>types, <2>2, <3>3 DEF WindowOpened, Consented, OpenState
    <3> QED
      BY <1>1, <3>1, <3>2, <3>3 DEF OpenWindow
  <2> QED
    BY <2>1, <2>2 DEF Consented, OpenState
<1>2. ASSUME NEW k \in Kinds, NEW v \in Drafts, Write(k, v) PROVE Consented'
  BY <1>2 DEF Consented, Write, Set, targetVars, OpenState, UiIdle
<1>3. ASSUME NEW k \in Kinds, RequestClose(k) PROVE Consented'
  <2>1. UNCHANGED <<generation, open, edits, saves>>
    BY <1>3 DEF RequestClose, RequestConfirm, RequestAllowed, sessionVars, windowVars
  <2>2. CASE RequestAllowed(k, listed[k]) /\ finishing' = {TheWindow(k)}
    <3>1. consent' = [consent EXCEPT ![k] = [given |-> "freely", revision |-> edits[k]]]
      BY <2>2 DEF RequestAllowed
    <3> QED
      BY <1>types, <2>1, <2>2, <3>1 DEF Consented, OpenState, TheWindow
  <2>3. CASE consent' = consent /\ finishing' = {}
    BY <2>1, <2>3 DEF Consented, OpenState
  <2> QED
    BY <1>3, <2>2, <2>3 DEF RequestClose, RequestConfirm, sessionVars, UiIdle
<1>4. ASSUME NEW k \in Kinds, NEW d \in Decisions, NEW id \in Nat, UiIdle, Accepted(k, id, d)
      PROVE  Consented'
  <2>1. /\ UNCHANGED <<generation, open, edits>>
        /\ consent' = [consent EXCEPT ![k] = Answered(k, d)]
    BY <1>4, AcceptedChanges
  <2>2. \A s \in saves' : s \in saves \/ (d = "save" /\ s.window = TheWindow(k))
    BY <1>4 DEF Accepted
  <2>3. finishing' = {} \/ (d = "discard" /\ finishing' = {TheWindow(k)})
    BY <1>4 DEF Accepted
  <2>4. \/ d = "cancel" /\ Answered(k, d) = consent[k]
        \/ d # "cancel" /\ Answered(k, d) = [given |-> "asked", revision |-> edits[k]]
    BY DEF Answered
  <2>5. \A s \in saves' :
           OpenState(s.window.kind, s.window.generation)' => consent'[s.window.kind].given # "no"
    BY <1>types, <2>1, <2>2, <2>4 DEF Consented, OpenState, TheWindow
  <2>6. \A w \in finishing' :
           consent'[w.kind].given # "no" /\ consent'[w.kind].revision = edits'[w.kind]
    BY <1>types, <2>1, <2>3, <2>4 DEF TheWindow
  <2> QED
    BY <2>5, <2>6 DEF Consented
<1>5. ASSUME NEW k \in Kinds, NEW id \in Nat, UiIdle, Stale(k, id), UNCHANGED <<saves, finishing>>
      PROVE  Consented'
  BY <1>5, StaleChanges DEF Consented, OpenState, UiIdle
<1>6. ASSUME NEW k \in Kinds, NEW d \in Decisions,
             DecideInDialog(k, d) \/ \E id \in 1 .. confirmations : DecideExternally(k, id, d)
      PROVE  Consented'
  BY <1>4, <1>5, <1>6, DecisionCases
<1>7. ASSUME NEW s \in saves, SaveSucceeds(s) \/ SaveFails(s) PROVE Consented'
  BY <1>0, <1>7 DEF Consented, Held, SaveSucceeds, SaveFails, sessionVars, windowVars, UiIdle,
                    OpenState
<1>8. ASSUME NEW w \in finishing, FinishClose(w) PROVE Consented'
  <2>1. finishing' = {} /\ UNCHANGED <<saves, generation, consent>>
    BY <1>8 DEF Held, FinishClose, WindowClosed, sessionVars, windowVars
  <2>2. \A j \in Kinds : open'[j] => open[j]
    BY <1>types, <1>8 DEF FinishClose, WindowClosed, sessionVars, windowVars
  <2> QED
    BY <1>types, <2>1, <2>2 DEF Consented, OpenState
<1>9. CASE UNCHANGED vars
  BY <1>0, <1>9 DEF Consented, vars, targetVars, sessionVars, windowVars, OpenState
<1> QED
  BY <1>1, <1>2, <1>3, <1>6, <1>7, <1>8, <1>9 DEF Next

-----------------------------------------------------------------------------
(* Blocked controls and dialogs.                                            *)

\* Every step keeps blocked windows and dialogs about pending confirmations.
LEMMA NextBlocking ==
    ASSUME Session, Held, Blocking, [Next]_vars
    PROVE  Blocking'
<1>types. /\ generation \in [Kinds -> Nat] /\ open \in [Kinds -> BOOLEAN]
          /\ edits \in [Kinds -> Nat]
          /\ pending \in [Kinds -> Confirmation \cup {NoConfirmation}]
          /\ blocked \in [Kinds -> Nat] /\ dialog \in [Kinds -> Nat]
          /\ confirmations \in Nat
  BY DEF Session, CloseTypeOK, TypeOK
<1>0. Frontend' = Frontend /\ Background' = Background
  BY DEF Next, vars, Frontend, Background
<1>f. Frontend \in {"gtk", "web"}
  BY CloseAssumption DEF Session, CloseTypeOK, Frontend
<1>1. ASSUME NEW k \in Kinds, OpenWindow(k) PROVE Blocking'
  <2>1. /\ finishing = {} /\ finishing' = {}
        /\ blocked'[k] = 0 /\ dialog'[k] = 0
        /\ \A j \in Kinds \ {k} : blocked'[j] = blocked[j] /\ dialog'[j] = dialog[j]
    BY <1>types, <1>1 DEF OpenWindow, UiIdle
  <2>2. \A j \in Kinds \ {k} : /\ open'[j] = open[j] /\ pending'[j] = pending[j]
                               /\ edits'[j] = edits[j]
    BY <1>types, <1>1 DEF OpenWindow, WindowOpened, sessionVars, windowVars
  <2> QED
    BY <1>0, <2>1, <2>2 DEF Blocking, Covered
<1>2. ASSUME NEW k \in Kinds, NEW v \in Drafts, Write(k, v) PROVE Blocking'
  <2>1. UNCHANGED <<open, pending, generation, blocked, dialog, finishing>> /\ finishing = {}
    BY <1>2 DEF Write, Set, targetVars, UiIdle
  <2>2. \A j \in Kinds \ {k} : edits'[j] = edits[j]
    BY <1>types, <1>2 DEF Write, Set
  <2>3. blocked[k] = 0 \/ Background
    BY <1>2 DEF Write
  <2> QED
    BY <1>0, <2>1, <2>2, <2>3 DEF Blocking, Covered
<1>3. ASSUME NEW k \in Kinds, RequestClose(k) PROVE Blocking'
  <2>1. UNCHANGED <<generation, open, edits>> /\ finishing = {} /\ open[k]
    BY <1>3 DEF RequestClose, RequestConfirm, RequestAllowed, sessionVars, windowVars, UiIdle,
                OpenState
  <2>2. CASE /\ Covered(k) /\ UNCHANGED <<sessionVars, finishing>>
             /\ blocked' = [blocked EXCEPT ![k] = pending[k].id]
             /\ Shows(k, pending[k].id)
    BY <1>types, <1>0, <1>f, <2>1, <2>2
       DEF Blocking, Covered, Shows, ShownDialogs, sessionVars, windowVars
  <2>3. CASE /\ RequestConfirm(k, listed[k], Savable) /\ UNCHANGED finishing
             /\ blocked' = [blocked EXCEPT ![k] = confirmations']
             /\ Shows(k, confirmations')
    <3>1. /\ ~Covered(k) /\ confirmations' = confirmations + 1
          /\ pending' = [pending EXCEPT ![k] =
                           [id |-> confirmations + 1, generation |-> listed[k],
                            revision |-> edits[k], canSave |-> Savable]]
      BY <2>3 DEF RequestConfirm
    <3>2. /\ blocked'[k] = confirmations + 1 /\ pending'[k].id = confirmations + 1
          /\ pending'[k].revision = edits[k]
      BY <1>types, <2>3, <3>1
    <3>3. dialog'[k] = confirmations + 1 \/ ~(Frontend = "web" \/ ~Background)
      BY <1>types, <1>f, <2>3, <3>1 DEF Blocking, Shows, ShownDialogs
    <3>4. \A j \in Kinds \ {k} : /\ blocked'[j] = blocked[j] /\ pending'[j] = pending[j]
                                 /\ dialog'[j] = dialog[j]
      BY <1>types, <2>3, <3>1 DEF Shows
    <3> QED
      BY <1>types, <1>0, <2>1, <2>3, <3>2, <3>3, <3>4 DEF Blocking, Covered
  <2>4. CASE /\ RequestAllowed(k, listed[k]) /\ finishing' = {TheWindow(k)}
             /\ UNCHANGED <<blocked, dialog>>
    <3>1. ~Covered(k) /\ pending' = [pending EXCEPT ![k] = NoConfirmation]
      BY <2>4 DEF RequestAllowed
    <3> QED
      BY <1>types, <1>0, <2>1, <2>4, <3>1 DEF Blocking, Covered, TheWindow
  <2> QED
    BY <1>3, <2>2, <2>3, <2>4 DEF RequestClose
<1>4. ASSUME NEW k \in Kinds, NEW d \in Decisions, NEW id \in Nat, UiIdle, Accepted(k, id, d)
      PROVE  Blocking'
  <2>1. /\ UNCHANGED <<open, edits, generation>>
        /\ pending' = [pending EXCEPT ![k] = NoConfirmation]
    BY <1>4, AcceptedChanges
  <2>2. /\ blocked' = [blocked EXCEPT ![k] = 0]
        /\ dialog' = [dialog EXCEPT ![k] = 0]
    BY <1>4 DEF Accepted
  <2>3. finishing = {}
    BY <1>4 DEF UiIdle
  <2> QED
    BY <1>types, <1>0, <2>1, <2>2, <2>3 DEF Blocking, Covered
<1>5. ASSUME NEW k \in Kinds, NEW id \in Nat, UiIdle, Stale(k, id), UNCHANGED <<saves, finishing>>,
             \/ Reject(k, id)
             \/ /\ Frontend = "gtk" /\ id = dialog[k]
                /\ dialog' = [dialog EXCEPT ![k] = 0]
                /\ blocked' = [blocked EXCEPT ![k] = IF @ = dialog[k] THEN 0 ELSE @]
      PROVE  Blocking'
  <2>1. UNCHANGED <<generation, open, edits, finishing>> /\ finishing = {}
    BY <1>5, StaleChanges DEF UiIdle
  <2>2. \A j \in Kinds \ {k} : /\ blocked'[j] = blocked[j] /\ pending'[j] = pending[j]
                               /\ dialog'[j] = dialog[j]
    BY <1>types, <1>5, StaleChanges DEF Reject
  <2>3. \/ /\ blocked'[k] = 0 /\ dialog'[k] = 0
        \/ /\ blocked'[k] = blocked[k] /\ dialog'[k] = dialog[k]
           /\ Frontend = "gtk" => blocked[k] # id
        \/ /\ Frontend = "gtk" /\ dialog'[k] = 0
           /\ blocked'[k] = IF blocked[k] = id THEN 0 ELSE blocked[k]
    BY <1>types, <1>5 DEF Reject
  <2>4. \/ pending'[k] = pending[k] /\ pending[k].id # id
        \/ pending[k].id = id /\ ~Covered(k) /\ pending'[k] = NoConfirmation
    BY <1>types, <1>5, StaleChanges
  <2> QED
    BY <1>types, <1>0, <1>f, <2>1, <2>2, <2>3, <2>4 DEF Blocking, Covered
<1>6. ASSUME NEW k \in Kinds, NEW d \in Decisions,
             DecideInDialog(k, d) \/ \E id \in 1 .. confirmations : DecideExternally(k, id, d)
      PROVE  Blocking'
  BY <1>4, <1>5, <1>6, DecisionCases
<1>7. ASSUME NEW s \in saves, SaveSucceeds(s) \/ SaveFails(s) PROVE Blocking'
  BY <1>0, <1>7 DEF Blocking, SaveSucceeds, SaveFails, sessionVars, windowVars, UiIdle, Covered
<1>8. ASSUME NEW w \in finishing, FinishClose(w) PROVE Blocking'
  <2>1. finishing' = {} /\ finishing = {w} /\ UNCHANGED <<generation, edits>>
    BY <1>8 DEF Held, FinishClose, WindowClosed, sessionVars, windowVars
  <2>2. CASE WindowClosed(w.kind, w.generation) /\ w.kind \in Kinds
    <3>1. /\ pending' = [pending EXCEPT ![w.kind] = NoConfirmation]
          /\ open' = [open EXCEPT ![w.kind] = FALSE]
          /\ OpenState(w.kind, w.generation)
      BY <2>2 DEF WindowClosed
    <3>2. /\ blocked' = [blocked EXCEPT ![w.kind] = 0]
          /\ dialog' = [dialog EXCEPT ![w.kind] = 0]
      BY <1>8, <3>1 DEF FinishClose
    <3> QED
      BY <1>types, <1>0, <2>1, <2>2, <3>1, <3>2 DEF Blocking, Covered, TheWindow
  <2>3. CASE ~OpenState(w.kind, w.generation) /\ UNCHANGED sessionVars
    <3>1. UNCHANGED <<blocked, dialog, open, pending>>
      BY <1>8, <2>3 DEF FinishClose, sessionVars, windowVars
    <3>2. \A k \in Kinds : open[k] => TheWindow(k) # w
      BY <2>3 DEF TheWindow, OpenState
    <3> QED
      BY <1>types, <1>0, <2>1, <3>1, <3>2 DEF Blocking, Covered
  <2>4. w.kind \in Kinds
    BY DEF Session, CloseTypeOK, Window
  <2> QED
    BY <1>8, <2>2, <2>3, <2>4 DEF FinishClose
<1>9. CASE UNCHANGED vars
  BY <1>0, <1>9 DEF Blocking, Covered, TheWindow, vars, targetVars, sessionVars, windowVars
<1> QED
  BY <1>1, <1>2, <1>3, <1>6, <1>7, <1>8, <1>9 DEF Next

-----------------------------------------------------------------------------
(* The manager's list.                                                      *)

\* Every step keeps the window list that of the session.
LEMMA NextListing ==
    ASSUME Session, Held, Listing, [Next]_vars
    PROVE  Listing'
<1>types. /\ generation \in [Kinds -> Nat] /\ open \in [Kinds -> BOOLEAN]
          /\ listed \in [Kinds -> Nat]
  BY DEF Session, CloseTypeOK, TypeOK
<1>0. Frontend' = Frontend /\ Savable' = Savable
  BY DEF Next, vars, Frontend, Savable
<1>same. ASSUME UNCHANGED <<generation, open, listed>> PROVE Listing'
  BY <1>0, <1>same DEF Listing
<1>1. ASSUME NEW k \in Kinds, OpenWindow(k) PROVE Listing'
  <2>1. listed' = [listed EXCEPT ![k] = generation'[k]]
    BY <1>1 DEF OpenWindow
  <2>2. open'[k] /\ \A j \in Kinds \ {k} : open'[j] = open[j] /\ generation'[j] = generation[j]
    BY <1>types, <1>1 DEF OpenWindow, WindowOpened, sessionVars, windowVars
  <2> QED
    BY <1>types, <1>0, <2>1, <2>2 DEF Listing
<1>2. ASSUME NEW k \in Kinds, NEW v \in Drafts, Write(k, v) PROVE Listing'
  BY <1>2, <1>same DEF Write, Set, targetVars
<1>3. ASSUME NEW k \in Kinds, RequestClose(k) PROVE Listing'
  BY <1>3, <1>same DEF RequestClose, RequestConfirm, RequestAllowed, sessionVars, windowVars
<1>4. ASSUME NEW k \in Kinds, NEW d \in Decisions,
             DecideInDialog(k, d) \/ \E id \in 1 .. confirmations : DecideExternally(k, id, d)
      PROVE  Listing'
  BY <1>4, <1>same, DecisionCases, StaleChanges, AcceptedChanges
<1>5. ASSUME NEW s \in saves, SaveSucceeds(s) \/ SaveFails(s) PROVE Listing'
  BY <1>5, <1>same DEF SaveSucceeds, SaveFails, sessionVars, windowVars
<1>6. ASSUME NEW w \in finishing, FinishClose(w), Frontend = "gtk" \/ ~Savable PROVE Listing'
  <2>1. w.kind \in Kinds /\ w.generation \in Nat
    BY DEF Session, CloseTypeOK, Window
  <2>2. listed[w.kind] = IF open[w.kind] THEN generation[w.kind] ELSE 0
    BY <1>6, <2>1 DEF Listing
  <2>3. CASE OpenState(w.kind, w.generation)
    <3>1. UNCHANGED generation /\ open' = [open EXCEPT ![w.kind] = FALSE]
      BY <1>6, <2>3 DEF FinishClose, WindowClosed
    <3>2. listed' = [listed EXCEPT ![w.kind] = 0]
      BY <1>6, <2>2, <2>3 DEF FinishClose, OpenState
    <3> QED
      BY <1>types, <1>0, <2>1, <3>1, <3>2 DEF Listing
  <2>4. CASE ~OpenState(w.kind, w.generation)
    <3>1. UNCHANGED <<generation, open>>
      BY <1>6, <2>4 DEF FinishClose, WindowClosed, sessionVars, windowVars
    <3>2. Frontend = "gtk" /\ Frontend # "web"
      BY <1>6, <2>4 DEF Held
    <3>3. listed' = [listed EXCEPT ![w.kind] = IF @ = w.generation THEN 0 ELSE @]
      BY <1>6, <3>2 DEF FinishClose
    <3>4. listed[w.kind] = w.generation => listed[w.kind] = 0
      BY <2>2, <2>4 DEF OpenState
    <3> QED
      BY <1>types, <1>0, <2>1, <3>1, <3>3, <3>4 DEF Listing
  <2> QED
    BY <2>3, <2>4
<1>7. ASSUME NEW w \in finishing, FinishClose(w) PROVE Listing'
  BY <1>0, <1>6, <1>7 DEF Listing
<1>8. CASE UNCHANGED vars
  BY <1>8, <1>same DEF vars, targetVars, sessionVars, windowVars
<1> QED
  BY <1>1, <1>2, <1>3, <1>4, <1>5, <1>7, <1>8 DEF Next

-----------------------------------------------------------------------------
(* What the target promises.                                                *)

WindowInv == Session /\ Held /\ Consented /\ Blocking /\ Listing

\* The invariant holds at first.
LEMMA InitWindow == Init => WindowInv
<1> SUFFICES ASSUME Init PROVE WindowInv
  OBVIOUS
<1>1. /\ \A k \in Kinds : /\ ~open[k] /\ pending[k].canSave = FALSE
                          /\ blocked[k] = 0 /\ dialog[k] = 0 /\ listed[k] = 0
      /\ saves = {} /\ finishing = {}
  BY DEF Init, SessionInit, NoConfirmation
<1>2. Held /\ Consented /\ Blocking /\ Listing
  BY <1>1 DEF Held, Consented, Blocking, Listing
<1> QED
  BY <1>2, InitTypes DEF WindowInv

\* Every step preserves the invariant.
LEMMA NextWindow == WindowInv /\ [Next]_vars => WindowInv'
BY NextSession, NextHeld, NextConsented, NextBlocking, NextListing DEF WindowInv

\* Windows, dialogs, saves and the list keep to the session.
LEMMA WindowInvariant == Spec => []WindowInv
BY InitWindow, NextWindow, PTL DEF Spec

\* Blocked controls wait for a confirmation a decision can name
\* (windows.rs, request_close_from and confirm_close).
THEOREM BlockedWindowsArePending == Spec => []BlockedMeansPending
<1>1. WindowInv => BlockedMeansPending
  BY DEF WindowInv, Blocking, BlockedMeansPending, BlocksCanBeDecided, UiIdle
<1> QED
  BY WindowInvariant, <1>1, PTL

\* The dialog on screen is about the confirmation the window waits for
\* (windows.rs, show_dialog).
THEOREM DialogsArePending == Spec => []DialogIsForPending
<1>1. WindowInv => DialogIsForPending
  BY DEF WindowInv, Blocking, DialogIsForPending, DialogsAnswerBlocks, UiIdle
<1> QED
  BY WindowInvariant, <1>1, PTL

\* The manager lists exactly the open windows (windows.rs, finish_close).
THEOREM OpenWindowsAreListed == Spec => []ListedIsOpen
<1>1. WindowInv => ListedIsOpen
  BY DEF WindowInv, Listing, ListedIsOpen
<1> QED
  BY WindowInvariant, <1>1, PTL

\* A window closes only on a consent, one about every edit where no save runs
\* in between.
THEOREM RefusalsLoseNothing == Spec => EditsSurviveRefusals
<1>1. WindowInv /\ [Next]_vars =>
         [\A k \in Kinds :
             open[k] /\ ~open'[k] =>
                 /\ consent[k].given # "no"
                 /\ Savable \/ consent[k].revision = edits[k]]_vars
  <2> SUFFICES ASSUME WindowInv, Next, NEW k \in Kinds, open[k], ~open'[k]
               PROVE  /\ consent[k].given # "no"
                      /\ Savable \/ consent[k].revision = edits[k]
    OBVIOUS
  <2>1. PICK w \in finishing : FinishClose(w)
    <3>1. ASSUME NEW j \in Kinds, OpenWindow(j) PROVE FALSE
      BY <3>1 DEF OpenWindow, WindowOpened, sessionVars, windowVars, WindowInv, Session, Typed,
                  TypeOK
    <3>2. ASSUME NEW j \in Kinds, NEW v \in Drafts, Write(j, v) PROVE FALSE
      BY <3>2 DEF Write, Set
    <3>3. ASSUME NEW j \in Kinds, RequestClose(j) PROVE FALSE
      BY <3>3 DEF RequestClose, RequestConfirm, RequestAllowed, sessionVars, windowVars
    <3>4. ASSUME NEW j \in Kinds, NEW d \in Decisions,
                 \/ DecideInDialog(j, d)
                 \/ \E id \in 1 .. confirmations : DecideExternally(j, id, d)
          PROVE  FALSE
      BY <3>4, DecisionCases, StaleChanges, AcceptedChanges DEF WindowInv
    <3>5. ASSUME NEW s \in saves, SaveSucceeds(s) \/ SaveFails(s) PROVE FALSE
      BY <3>5 DEF SaveSucceeds, SaveFails, sessionVars, windowVars
    <3> QED
      BY <3>1, <3>2, <3>3, <3>4, <3>5 DEF Next
  <2>2. w.kind = k /\ OpenState(w.kind, w.generation)
    BY <2>1 DEF FinishClose, WindowClosed, sessionVars, windowVars, WindowInv, Session, Typed,
                TypeOK
  <2> QED
    BY <2>2 DEF WindowInv, Consented
<1> QED
  BY WindowInvariant, <1>1, PTL DEF Spec, EditsSurviveRefusals

=============================================================================
