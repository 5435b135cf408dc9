------------------------------ MODULE MailProofs ------------------------------
(***************************************************************************)
(* Theorems of the mail of customers: of Intake, for any requests, senders  *)
(* and messages, and of Followups, for any number of tasks, refreshes and   *)
(* faults.                                                                  *)
(***************************************************************************)
EXTENDS Intake, Followups, SequenceTheorems, FiniteSetTheorems, TLAPS

-----------------------------------------------------------------------------
(* INTAKE *)

Rows == [msg : Messages, complete : BOOLEAN]

\* The two halves of RecordedOnce.
OneOfEach ==
    /\ \A i, j \in DOMAIN inquiries : inquiries[i].msg = inquiries[j].msg => i = j
    /\ \A i, j \in DOMAIN customers : customers[i] = customers[j] => i = j

RecordedWhole == \A i \in DOMAIN inquiries :
    /\ Known(Sender(inquiries[i].msg))
    /\ i \in outbox <=> ~inquiries[i].complete

-----------------------------------------------------------------------------
(* What a commit adds *)

LEMMA SenderType == \A m \in Messages : Sender(m) \in Senders
BY IntakeBounds DEF Sender

LEMMA Appended ==
    ASSUME NEW S, NEW s \in Seq(S), NEW x \in S
    PROVE  /\ Append(s, x) \in Seq(S)
           /\ DOMAIN Append(s, x) = DOMAIN s \cup {Len(s) + 1}
           /\ Len(s) + 1 \notin DOMAIN s
           /\ Append(s, x)[Len(s) + 1] = x
           /\ \A i \in DOMAIN s : Append(s, x)[i] = s[i]
<1>1. Len(s) \in Nat /\ DOMAIN s = 1..Len(s)
  BY LenProperties
<1>2. /\ Append(s, x) \in Seq(S) /\ Len(Append(s, x)) = Len(s) + 1
      /\ \A i \in 1..Len(s) : Append(s, x)[i] = s[i]
      /\ Append(s, x)[Len(s) + 1] = x
  BY AppendProperties
<1>3. DOMAIN Append(s, x) = 1..(Len(s) + 1)
  BY <1>2, LenProperties
<1> QED BY <1>1, <1>2, <1>3

\* One row more in the inquiries, at most one more in the customers.
LEMMA Inserted ==
    ASSUME IntakeTypeOK, NEW m \in Messages, NEW complete \in BOOLEAN, NEW adds \in BOOLEAN,
           Insert(m, complete, adds)
    PROVE  /\ inquiries' \in Seq(Rows) /\ customers' \in Seq(Senders) /\ outbox' \subseteq DOMAIN inquiries'
           /\ \A x \in Messages : Stored(x)' <=> Stored(x) \/ x = m
           /\ \A s \in Senders : Known(s)' <=> Known(s) \/ (adds /\ s = Sender(m))
           /\ (OneOfEach /\ (adds => ~Known(Sender(m)))) => OneOfEach'
           /\ (RecordedWhole /\ (adds \/ Known(Sender(m)))) => RecordedWhole'
           /\ \A i \in outbox : i \in outbox' /\ inquiries'[i] = inquiries[i]
           /\ ~complete => \E i \in outbox' : inquiries'[i].msg = m
<1>n. PICK n : n = Len(inquiries) + 1
  OBVIOUS
<1> DEFINE row == [msg |-> m, complete |-> complete]
           k == Len(customers) + 1
<1>1. inquiries \in Seq(Rows) /\ row \in Rows /\ customers \in Seq(Senders) /\ Sender(m) \in Senders
  BY SenderType DEF IntakeTypeOK, Rows
<1>2. /\ inquiries' \in Seq(Rows)
      /\ DOMAIN inquiries' = DOMAIN inquiries \cup {n} /\ n \notin DOMAIN inquiries
      /\ inquiries'[n] = row
      /\ \A i \in DOMAIN inquiries : inquiries'[i] = inquiries[i]
  BY <1>1, <1>n, Appended DEF Insert
<1>3. adds => /\ customers' \in Seq(Senders)
              /\ DOMAIN customers' = DOMAIN customers \cup {k} /\ k \notin DOMAIN customers
              /\ customers'[k] = Sender(m)
              /\ \A i \in DOMAIN customers : customers'[i] = customers[i]
  BY <1>1, Appended DEF Insert
<1>4. ~adds => customers' = customers
  BY DEF Insert
<1>5. outbox' = (IF complete THEN outbox ELSE outbox \cup {n}) /\ outbox \subseteq DOMAIN inquiries
  BY <1>n DEF Insert, IntakeTypeOK
<1>6. ~Stored(m) /\ row.msg = m /\ row.complete = complete
  BY DEF Insert
<1> HIDE DEF row, k
<1>7. \A x \in Messages : Stored(x)' <=> Stored(x) \/ x = m
  BY <1>2, <1>6 DEF Stored
<1>8. \A s \in Senders : Known(s)' <=> Known(s) \/ (adds /\ s = Sender(m))
  <2>1. CASE adds
    BY <1>3, <2>1 DEF Known
  <2>2. CASE ~adds
    BY <1>4, <2>2 DEF Known
  <2> QED BY <2>1, <2>2
<1>9. ASSUME OneOfEach, adds => ~Known(Sender(m)) PROVE OneOfEach'
  <2>1. \A i, j \in DOMAIN inquiries' : inquiries'[i].msg = inquiries'[j].msg => i = j
    BY <1>2, <1>6, <1>9 DEF OneOfEach, Stored
  <2>2. \A i, j \in DOMAIN customers' : customers'[i] = customers'[j] => i = j
    <3>1. CASE adds
      BY <1>3, <1>9, <3>1 DEF OneOfEach, Known
    <3>2. CASE ~adds
      BY <1>4, <1>9, <3>2 DEF OneOfEach
    <3> QED BY <3>1, <3>2
  <2> QED BY <2>1, <2>2 DEF OneOfEach
<1>10. ASSUME RecordedWhole, adds \/ Known(Sender(m)) PROVE RecordedWhole'
  <2>1. ASSUME NEW i \in DOMAIN inquiries
        PROVE  (Known(Sender(inquiries[i].msg)) /\ (i \in outbox <=> ~inquiries[i].complete))'
    <3>1. inquiries[i] \in Rows
      BY <1>1
    <3>2. Sender(inquiries[i].msg) \in Senders
      BY <3>1, SenderType DEF Rows
    <3>3. inquiries'[i] = inquiries[i] /\ i # n
      BY <1>2, <2>1
    <3>4. (i \in outbox <=> ~inquiries[i].complete)'
      BY <1>5, <1>10, <2>1, <3>3 DEF RecordedWhole
    <3>5. Known(Sender(inquiries[i].msg))
      BY <1>10, <2>1 DEF RecordedWhole
    <3>6. Known(Sender(inquiries[i].msg))'
      BY <1>8, <3>2, <3>3, <3>5 DEF Known
    <3> QED BY <3>4, <3>6
  <2>2. (Known(Sender(inquiries[n].msg)) /\ (n \in outbox <=> ~inquiries[n].complete))'
    <3>1. (n \in outbox <=> ~inquiries[n].complete)'
      BY <1>2, <1>5, <1>6
    <3>2. inquiries'[n].msg = m
      BY <1>2, <1>6
    <3>3. Known(Sender(inquiries[n].msg))'
      BY <1>1, <1>8, <1>10, <3>2 DEF Known
    <3> QED BY <3>1, <3>3
  <2> QED BY <1>2, <2>1, <2>2 DEF RecordedWhole
<1> QED BY <1>1, <1>2, <1>3, <1>4, <1>5, <1>6, <1>7, <1>8, <1>9, <1>10

-----------------------------------------------------------------------------
(* Open transactions *)

\* A request that awaits the clarification inserts its sender's customer row
\* exactly if nobody has committed one, and no two do.
Locks ==
    /\ \A d \in Deliveries : delivery[d].at = "clarify" =>
          (delivery[d].adds <=> ~Known(Sender(Message(d))))
    /\ \A d, e \in Deliveries :
          Holds(d) /\ Holds(e) /\ Sender(Message(d)) = Sender(Message(e)) => d = e

IntakeInv == IntakeTypeOK /\ OneOfEach /\ RecordedWhole /\ AnswersAreTrue /\ Locks

LEMMA InvInit == IntakeInit => IntakeInv
<1> SUFFICES ASSUME IntakeInit PROVE IntakeInv
  OBVIOUS
<1>1. IntakeTypeOK
  <2>1. delivery \in [Deliveries -> {NoDelivery}] /\ clarified \in [Messages -> {0}]
    BY DEF IntakeInit
  <2>2. customers \in Seq(Senders) /\ inquiries \in Seq([msg : Messages, complete : BOOLEAN])
    BY EmptySeq DEF IntakeInit
  <2>3. postgres \in BOOLEAN /\ hung \in BOOLEAN /\ outbox = {} /\ told = {}
    BY DEF IntakeInit
  <2> QED BY <2>1, <2>2, <2>3 DEF IntakeTypeOK
<1>2. OneOfEach /\ RecordedWhole
  BY DEF IntakeInit, OneOfEach, RecordedWhole
<1>3. AnswersAreTrue
  BY DEF IntakeInit, AnswersAreTrue
<1>4. Locks
  BY DEF IntakeInit, Locks, Holds, NoDelivery
<1> QED BY <1>1, <1>2, <1>3, <1>4 DEF IntakeInv

LEMMA MessageType ==
    ASSUME IntakeTypeOK, NEW d \in Deliveries, delivery[d].at # "idle"
    PROVE  /\ Message(d) \in Messages /\ Sender(Message(d)) \in Senders
           /\ delivery[d].at \in {"classify", "parse", "clarify"} /\ delivery[d].adds \in BOOLEAN
           /\ delivery[d] = [at |-> delivery[d].at, msg |-> delivery[d].msg, adds |-> delivery[d].adds]
<1>1. delivery[d] # NoDelivery
  BY DEF NoDelivery
<1> QED BY <1>1, SenderType DEF IntakeTypeOK, Message

\* A request that moves or leaves without a commit.
LEMMA Moved ==
    ASSUME IntakeInv, hung' = FALSE, UNCHANGED <<postgres, tables, clarified>>,
           told' \subseteq Messages, \A m \in told' : Stored(m),
           NEW d \in Deliveries,
           NEW new \in {NoDelivery} \cup [at : {"classify", "parse", "clarify"}, msg : Messages, adds : BOOLEAN],
           delivery' = [delivery EXCEPT ![d] = new],
           new.at = "clarify" =>
              /\ new.adds <=> ~Known(Sender(new.msg))
              /\ Known(Sender(new.msg)) \/ (\A e \in Deliveries \ {d} : Holds(e) => Sender(Message(e)) # Sender(new.msg))
    PROVE  IntakeInv'
<1>1. delivery'[d] = new /\ \A e \in Deliveries \ {d} : delivery'[e] = delivery[e]
  BY DEF IntakeInv, IntakeTypeOK
<1>2. IntakeTypeOK'
  <2>1. UNCHANGED <<postgres, customers, inquiries, outbox, clarified>> /\ hung' \in BOOLEAN
    BY DEF tables
  <2>2. (delivery \in [Deliveries ->
            {NoDelivery} \cup [at : {"classify", "parse", "clarify"}, msg : Messages, adds : BOOLEAN]])'
    BY <1>1 DEF IntakeInv, IntakeTypeOK, NoDelivery
  <2> QED BY <2>1, <2>2 DEF IntakeInv, IntakeTypeOK
<1>3. OneOfEach' /\ RecordedWhole'
  BY DEF IntakeInv, OneOfEach, RecordedWhole, Known, tables
<1>4. AnswersAreTrue'
  BY DEF IntakeInv, AnswersAreTrue, Stored, tables
<1>6. \A s : Known(s)' <=> Known(s)
  BY DEF Known, tables
<1>7. ASSUME NEW e \in Deliveries, (delivery[e].at = "clarify")'
      PROVE  (delivery[e].adds <=> ~Known(Sender(Message(e))))'
  BY <1>1, <1>6, <1>7 DEF IntakeInv, Locks, Message
<1>8. ASSUME NEW e \in Deliveries \ {d}, Holds(d)', Holds(e)', (Sender(Message(d)) = Sender(Message(e)))'
      PROVE  FALSE
  BY <1>1, <1>8 DEF IntakeInv, Locks, Holds, Message
<1>9. Locks'
  BY <1>1, <1>7, <1>8 DEF IntakeInv, Locks, Holds, Message
<1> QED BY <1>2, <1>3, <1>4, <1>9 DEF IntakeInv

\* A request that commits its inquiry and leaves.
LEMMA CommitKeeps ==
    ASSUME IntakeInv, hung' = FALSE, UNCHANGED postgres, NEW d \in Deliveries, delivery[d].at # "idle",
           NEW complete \in BOOLEAN, NEW adds \in BOOLEAN,
           Insert(Message(d), complete, adds), Leave(d),
           adds <=> ~Known(Sender(Message(d))),
           adds => \A e \in Deliveries \ {d} : Holds(e) => Sender(Message(e)) # Sender(Message(d)),
           told' \subseteq told \cup {Message(d)},
           \/ clarified' = clarified
           \/ ~complete /\ clarified' = [clarified EXCEPT ![Message(d)] = @ + 1]
    PROVE  IntakeInv'
<1> DEFINE m == Message(d)
<1>1. IntakeTypeOK /\ m \in Messages /\ Sender(m) \in Senders
  BY MessageType DEF IntakeInv
<1>2. /\ inquiries' \in Seq(Rows) /\ customers' \in Seq(Senders) /\ outbox' \subseteq DOMAIN inquiries'
      /\ \A x \in Messages : Stored(x)' <=> Stored(x) \/ x = m
      /\ \A s \in Senders : Known(s)' <=> Known(s) \/ (adds /\ s = Sender(m))
      /\ (OneOfEach /\ (adds => ~Known(Sender(m)))) => OneOfEach'
      /\ (RecordedWhole /\ (adds \/ Known(Sender(m)))) => RecordedWhole'
      /\ \A i \in outbox : i \in outbox' /\ inquiries'[i] = inquiries[i]
      /\ ~complete => \E i \in outbox' : inquiries'[i].msg = m
  BY <1>1, Inserted
<1>3. OneOfEach' /\ RecordedWhole'
  BY <1>2 DEF IntakeInv
<1>4. ~Stored(m)
  BY DEF Insert
<1> HIDE DEF m
<1>5. /\ delivery'[d] = NoDelivery /\ delivery' \in [Deliveries -> {NoDelivery} \cup
            [at : {"classify", "parse", "clarify"}, msg : Messages, adds : BOOLEAN]]
      /\ \A e \in Deliveries \ {d} : delivery'[e] = delivery[e]
  BY <1>1 DEF Leave, IntakeTypeOK
<1>6. clarified \in [Messages -> Nat] /\ clarified' \in [Messages -> Nat]
  <2>1. clarified \in [Messages -> Nat]
    BY <1>1 DEF IntakeTypeOK
  <2> QED BY <1>1, <2>1 DEF m
<1>7. IntakeTypeOK'
  <2>1. hung' \in BOOLEAN /\ postgres' \in BOOLEAN
    BY <1>1 DEF IntakeTypeOK
  <2>2. told' \subseteq Messages
    BY <1>1 DEF IntakeTypeOK, m
  <2>3. delivery' \in [Deliveries -> {NoDelivery} \cup
            [at : {"classify", "parse", "clarify"}, msg : Messages, adds : BOOLEAN]]
    BY <1>5
  <2> QED BY <1>2, <1>6, <2>1, <2>2, <2>3 DEF IntakeTypeOK, Rows
<1>8. AnswersAreTrue'
  <2>1. \A x \in told' : Stored(x)'
    BY <1>1, <1>2 DEF IntakeInv, AnswersAreTrue, IntakeTypeOK, m
  <2>2. ASSUME NEW x \in Messages, clarified'[x] > 0
        PROVE  clarified'[x] = 1 /\ \E i \in outbox' : inquiries'[i].msg = x
    <3>1. CASE clarified'[x] = clarified[x]
      <4>1. clarified[x] = 1 /\ \E i \in outbox : inquiries[i].msg = x
        BY <2>2, <3>1 DEF IntakeInv, AnswersAreTrue
      <4> QED BY <1>2, <3>1, <4>1
    <3>2. CASE clarified'[x] # clarified[x]
      <4>1. x = m /\ ~complete /\ clarified'[x] = clarified[x] + 1
        BY <1>1, <1>6, <3>2 DEF m
      <4>2. ~(clarified[x] > 0)
        BY <1>1, <1>4, <4>1 DEF IntakeInv, AnswersAreTrue, Stored, IntakeTypeOK
      <4> QED BY <1>2, <1>6, <4>1, <4>2
    <3> QED BY <3>1, <3>2
  <2> QED BY <2>1, <2>2 DEF AnswersAreTrue
<1>10. Locks'
  <2>1. ASSUME NEW e \in Deliveries, (delivery[e].at = "clarify")'
        PROVE  /\ e # d /\ delivery'[e] = delivery[e]
               /\ (delivery[e].adds <=> ~Known(Sender(Message(e))))'
    <3>1. e # d /\ delivery'[e] = delivery[e]
      BY <1>5, <2>1 DEF NoDelivery
    <3>2. delivery[e].adds <=> ~Known(Sender(Message(e)))
      BY <2>1, <3>1 DEF IntakeInv, Locks
    <3>3. Sender(Message(e)) \in Senders
      BY <1>1, <2>1, <3>1, MessageType
    <3>4. Message(e)' = Message(e)
      BY <3>1 DEF Message
    <3>5. (Sender(Message(e)) = Sender(m) /\ adds) => ~delivery[e].adds
      BY <2>1, <3>1 DEF Holds, m
    <3>6. (adds /\ Sender(Message(e)) = Sender(m)) => ~Known(Sender(Message(e)))
      BY DEF m
    <3> QED BY <1>2, <3>1, <3>2, <3>3, <3>4, <3>5, <3>6
  <2> QED BY <2>1 DEF IntakeInv, Locks, Holds, Message
<1> QED BY <1>3, <1>7, <1>8, <1>10 DEF IntakeInv

LEMMA InvStep == IntakeInv /\ [IntakeNext]_intakeVars => IntakeInv'
<1> SUFFICES ASSUME IntakeInv, [IntakeNext]_intakeVars PROVE IntakeInv'
  OBVIOUS
<1>t. IntakeTypeOK /\ AnswersAreTrue /\ Locks
  BY DEF IntakeInv
<1>1. ASSUME NEW d \in Deliveries, NEW m \in Messages, Deliver(d, m) PROVE IntakeInv'
  <2> DEFINE new == [at |-> "classify", msg |-> m, adds |-> FALSE]
  <2>1. delivery' = [delivery EXCEPT ![d] = new] /\ new.at # "clarify"
    BY <1>1 DEF Deliver
  <2>2. new \in [at : {"classify", "parse", "clarify"}, msg : Messages, adds : BOOLEAN]
    OBVIOUS
  <2>3. hung' = FALSE /\ UNCHANGED <<postgres, tables, clarified, told>> /\ \A x \in told : Stored(x) /\ x \in Messages
    BY <1>1, <1>t DEF Deliver, AnswersAreTrue, IntakeTypeOK
  <2> HIDE DEF new
  <2> QED BY <2>1, <2>2, <2>3, Moved
<1>2. ASSUME NEW d \in Deliveries, NEW m \in Messages, Redeliver(d, m) PROVE IntakeInv'
  <2>1. delivery' = [delivery EXCEPT ![d] = NoDelivery] /\ NoDelivery.at # "clarify"
    BY <1>2, <1>t DEF Redeliver, NoDelivery, IntakeTypeOK
  <2>2. hung' = FALSE /\ UNCHANGED <<postgres, tables, clarified>> /\ \A x \in told' : Stored(x) /\ x \in Messages
    BY <1>2, <1>t DEF Redeliver, AnswersAreTrue, IntakeTypeOK
  <2> QED BY <2>1, <2>2, Moved
<1>3. ASSUME NEW d \in Deliveries, Leave(d), hung' = FALSE, UNCHANGED <<postgres, tables, told, clarified>> PROVE IntakeInv'
  <2>1. delivery' = [delivery EXCEPT ![d] = NoDelivery] /\ NoDelivery.at # "clarify"
    BY <1>3 DEF Leave, NoDelivery
  <2>2. \A x \in told' : Stored(x) /\ x \in Messages
    BY <1>3, <1>t DEF AnswersAreTrue, IntakeTypeOK
  <2> QED BY <1>3, <2>1, <2>2, Moved
<1>4. ASSUME NEW d \in Deliveries, NEW inquiry \in BOOLEAN, Classify(d, inquiry) PROVE IntakeInv'
  <2>1. CASE ~inquiry
    BY <1>3, <1>4, <1>t, <2>1 DEF Classify, At, IntakeTypeOK
  <2>2. CASE inquiry
    <3> DEFINE new == [delivery[d] EXCEPT !.at = "parse"]
    <3>1. delivery[d].at # "idle"
      BY <1>4 DEF Classify, At
    <3>5. /\ delivery[d] = [at |-> delivery[d].at, msg |-> delivery[d].msg, adds |-> delivery[d].adds]
          /\ delivery[d].msg \in Messages /\ delivery[d].adds \in BOOLEAN
      BY <1>t, <3>1, MessageType DEF Message
    <3>4. /\ new \in [at : {"classify", "parse", "clarify"}, msg : Messages, adds : BOOLEAN]
          /\ new.at # "clarify"
      BY <3>5
    <3>6. delivery' = [delivery EXCEPT ![d] = new]
      BY <1>4, <1>t, <2>2 DEF Classify, IntakeTypeOK
    <3>2. /\ new \in [at : {"classify", "parse", "clarify"}, msg : Messages, adds : BOOLEAN]
          /\ new.at # "clarify" /\ delivery' = [delivery EXCEPT ![d] = new]
      BY <3>4, <3>6
    <3>3. hung' = FALSE /\ UNCHANGED <<postgres, tables, clarified, told>> /\ \A x \in told : Stored(x) /\ x \in Messages
      BY <1>4, <1>t DEF Classify, At, AnswersAreTrue, IntakeTypeOK
    <3> HIDE DEF new
    <3> QED BY <3>2, <3>3, Moved
  <2> QED BY <2>1, <2>2
<1>5. ASSUME NEW d \in Deliveries, RecordComplete(d) PROVE IntakeInv'
  <2> DEFINE adds == ~Known(Sender(Message(d)))
  <2>1. /\ delivery[d].at # "idle" /\ hung' = FALSE /\ UNCHANGED <<postgres, clarified>> /\ Leave(d)
        /\ Insert(Message(d), TRUE, adds) /\ told' = told \cup {Message(d)} /\ adds \in BOOLEAN
    BY <1>5, <1>t DEF RecordComplete, At, Known, IntakeTypeOK
  <2>2. adds => \A e \in Deliveries \ {d} : Holds(e) => Sender(Message(e)) # Sender(Message(d))
    BY <1>5 DEF RecordComplete, Waits
  <2>3. adds <=> ~Known(Sender(Message(d)))
    OBVIOUS
  <2> HIDE DEF adds
  <2> QED BY <2>1, <2>2, <2>3, CommitKeeps
<1>6. ASSUME NEW d \in Deliveries, RecordIncomplete(d) PROVE IntakeInv'
  <2> DEFINE adds == ~Known(Sender(Message(d)))
             new == [at |-> "clarify", msg |-> Message(d), adds |-> adds]
  <2>1. delivery[d].at # "idle" /\ adds \in BOOLEAN /\ delivery' = [delivery EXCEPT ![d] = new]
    BY <1>6 DEF RecordIncomplete, At, Known
  <2>2. /\ new \in [at : {"classify", "parse", "clarify"}, msg : Messages, adds : BOOLEAN]
        /\ new.adds = adds /\ new.msg = Message(d)
    <3>1. Message(d) \in Messages
      BY <1>t, <2>1, MessageType
    <3> HIDE DEF adds
    <3> QED BY <2>1, <3>1
  <2>3. Known(Sender(Message(d))) \/ \A e \in Deliveries \ {d} : Holds(e) => Sender(Message(e)) # Sender(Message(d))
    BY <1>6 DEF RecordIncomplete, Waits
  <2>4. hung' = FALSE /\ UNCHANGED <<postgres, tables, clarified, told>> /\ \A x \in told : Stored(x) /\ x \in Messages
    BY <1>6, <1>t DEF RecordIncomplete, At, AnswersAreTrue, IntakeTypeOK
  <2>5. new.adds <=> ~Known(Sender(new.msg))
    BY <2>2
  <2> HIDE DEF new, adds
  <2> QED BY <2>1, <2>2, <2>3, <2>4, <2>5, Moved
<1>7. ASSUME NEW d \in Deliveries, Hang(d) PROVE IntakeInv'
  <2>1. IntakeTypeOK' /\ OneOfEach' /\ RecordedWhole'
    BY <1>7 DEF Hang, IntakeInv, IntakeTypeOK, OneOfEach, RecordedWhole, Known, tables
  <2>2. AnswersAreTrue' /\ Locks'
    BY <1>7 DEF Hang, IntakeInv, AnswersAreTrue, Stored, Locks, Holds, Message, Known, tables
  <2> QED BY <2>1, <2>2 DEF IntakeInv
<1>8. ASSUME NEW d \in Deliveries, At(d, "clarify"), Insert(Message(d), FALSE, delivery[d].adds), Leave(d),
             UNCHANGED <<postgres, hung>>, told' \subseteq told \cup {Message(d)},
             \/ clarified' = clarified
             \/ clarified' = [clarified EXCEPT ![Message(d)] = @ + 1]
      PROVE  IntakeInv'
  <2>1. delivery[d].at = "clarify" /\ hung' = FALSE /\ delivery[d].adds \in BOOLEAN
    BY <1>8, <1>t, MessageType DEF At, IntakeTypeOK
  <2>2. delivery[d].adds <=> ~Known(Sender(Message(d)))
    BY <1>t, <2>1 DEF Locks
  <2>3. delivery[d].adds => \A e \in Deliveries \ {d} : Holds(e) => Sender(Message(e)) # Sender(Message(d))
    BY <1>t, <2>1 DEF Locks, Holds
  <2> QED BY <1>8, <2>1, <2>2, <2>3, CommitKeeps
<1>9. ASSUME NEW d \in Deliveries, Clarify(d) PROVE IntakeInv'
  BY <1>8, <1>9 DEF Clarify
<1>10. ASSUME NEW d \in Deliveries, ClarifyRaises(d) PROVE IntakeInv'
  BY <1>8, <1>10 DEF ClarifyRaises
<1>11. ASSUME NEW d \in Deliveries, Refuse(d) PROVE IntakeInv'
  BY <1>3, <1>11, <1>t DEF Refuse, IntakeTypeOK
<1>12. CASE Restart
  <2>1. IntakeTypeOK' /\ OneOfEach' /\ RecordedWhole' /\ AnswersAreTrue'
    BY <1>12 DEF Restart, IntakeInv, IntakeTypeOK, OneOfEach, RecordedWhole, AnswersAreTrue, Known, Stored, tables
  <2>2. Locks'
    BY <1>12 DEF Restart, Locks, Holds, NoDelivery
  <2> QED BY <2>1, <2>2 DEF IntakeInv
<1>13. CASE UNCHANGED intakeVars
  BY <1>13 DEF intakeVars, tables, IntakeInv, IntakeTypeOK, OneOfEach, RecordedWhole, AnswersAreTrue, Locks,
     Known, Stored, Holds, Message
<1> QED BY <1>1, <1>2, <1>4, <1>5, <1>6, <1>7, <1>9, <1>10, <1>11, <1>12, <1>13 DEF IntakeNext, Step

LEMMA InvAlways == IntakeSpec => []IntakeInv
BY InvInit, InvStep, PTL DEF IntakeSpec

-----------------------------------------------------------------------------

\* Tables, requests and answers keep their shape.
THEOREM IntakeTypes == IntakeSpec => []IntakeTypeOK
<1>1. IntakeInv => IntakeTypeOK
  BY DEF IntakeInv
<1> QED BY <1>1, InvAlways, PTL

\* However deliveries race, fail and are repeated, a message has one inquiry
\* and a sender one customer row, and the agent's commit in the middle of a
\* request leaves nothing out.
THEOREM OneInquiryPerMessage == IntakeSpec => []RecordedOnce
<1>1. IntakeInv => RecordedOnce
  BY DEF IntakeInv, OneOfEach, RecordedWhole, RecordedOnce
<1> QED BY <1>1, InvAlways, PTL

\* What the gateway is told is recorded, and no message is clarified twice.
THEOREM GatewayIsToldTrue == IntakeSpec => []AnswersAreTrue
<1>1. IntakeInv => AnswersAreTrue
  BY DEF IntakeInv
<1> QED BY <1>1, InvAlways, PTL

-----------------------------------------------------------------------------
(* FOLLOW-UPS: shapes *)

\* What a poller of the type is, field by field.
LEMMA PollShape ==
    ASSUME FollowupsTypeOK, NEW p \in Pollers
    PROVE  /\ poll[p].todo \subseteq Tasks /\ poll[p].current \in Tasks \cup {0}
           /\ poll[p].completed \subseteq Tasks /\ poll[p].suppressed \subseteq Tasks
  BY DEF FollowupsTypeOK

LEMMA CommittedType == ASSUME FollowupsTypeOK, NEW p \in Pollers PROVE Committed(p) \in [Tasks -> Task]
<1> SUFFICES ASSUME NEW t \in Tasks
             PROVE  /\ [task[t] EXCEPT !.status = "completed"] \in Task
                    /\ [task[t] EXCEPT !.status = "suppressed"] \in Task
                    /\ task[t] \in Task
  BY DEF Committed
<1> QED BY DEF FollowupsTypeOK, Task

Poll == [at : {"idle", "taking", "mailing"}, todo : SUBSET Tasks, current : Tasks \cup {0},
         forbids : BOOLEAN, completed : SUBSET Tasks, suppressed : SUBSET Tasks]

\* A poll that mails has a task in hand.
MailsSomething == \A p \in Pollers : poll[p].at = "mailing" => poll[p].current \in Tasks

Types == FollowupsTypeOK /\ MailsSomething

\* A poller may become any poll of the type that has a task when it mails.
LEMMA PollUpdate ==
    ASSUME FollowupsTypeOK, MailsSomething, NEW p \in Pollers, NEW new \in Poll,
           new.at = "mailing" => new.current \in Tasks,
           poll' = [poll EXCEPT ![p] = new]
    PROVE  poll' \in [Pollers -> Poll] /\ MailsSomething'
<1>1. poll \in [Pollers -> Poll]
  BY DEF FollowupsTypeOK, Poll
<1>2. \A x \in Pollers : poll'[x] = IF x = p THEN new ELSE poll[x]
  BY <1>1
<1> QED BY <1>1, <1>2 DEF MailsSomething

LEMMA TypesStep == ASSUME Types, [FollowupsNext]_vars PROVE Types'
<1> USE DEF Types, FollowupsTypeOK, MailsSomething
<1>1. ASSUME NEW t \in Tasks, CreateTask(t) PROVE Types'
  BY <1>1 DEF CreateTask, Task
<1>2. CASE ForbidsContact
  BY <1>2 DEF ForbidsContact
<1>3. ASSUME NEW r \in Refreshes, LookForAlert(r) PROVE Types'
  BY <1>3 DEF LookForAlert
<1>4. ASSUME NEW r \in Refreshes, NEW t \in Tasks, RaiseDelayAlert(r, t) PROVE Types'
  BY <1>4 DEF RaiseDelayAlert, Task
<1>5. ASSUME NEW p \in Pollers, LoadDue(p) PROVE Types'
  BY <1>5 DEF LoadDue, NoPoll
<1>6. ASSUME NEW p \in Pollers, NEW t \in Tasks, SuppressTask(p, t) PROVE Types'
  <2> DEFINE new == [poll[p] EXCEPT !.todo = @ \ {t}, !.suppressed = @ \cup {t}]
  <2>1. poll[p] \in Poll
    BY DEF Poll
  <2>2. new \in Poll /\ new.at = "taking"
    BY <1>6, <2>1 DEF SuppressTask, Poll
  <2>3. poll' = [poll EXCEPT ![p] = new]
    BY <1>6 DEF SuppressTask
  <2> QED BY <1>6, <2>2, <2>3, PollUpdate DEF SuppressTask, Poll
<1>7. ASSUME NEW p \in Pollers, NEW t \in Tasks, DraftFollowup(p, t) PROVE Types'
  BY <1>7, CommittedType DEF DraftFollowup, NoPoll
<1>8. ASSUME NEW p \in Pollers, MailFollowup(p) PROVE Types'
  <2> DEFINE new == [poll[p] EXCEPT !.at = "taking", !.current = 0,
                                    !.completed = @ \cup {poll[p].current}]
  <2>1. poll[p] \in Poll /\ poll[p].current \in Tasks
    BY <1>8 DEF MailFollowup, Poll
  <2>2. new \in Poll /\ new.at = "taking"
    BY <1>8, <2>1 DEF MailFollowup, Poll
  <2>3. poll' = [poll EXCEPT ![p] = new]
    BY <1>8 DEF MailFollowup
  <2>4. mails' \in [Tasks -> Nat]
    BY <1>8 DEF MailFollowup
  <2> QED BY <1>8, <2>2, <2>3, <2>4, PollUpdate DEF MailFollowup, Poll
<1>9. ASSUME NEW p \in Pollers, FinishPoll(p) PROVE Types'
  BY <1>9, CommittedType DEF FinishPoll, NoPoll
<1>10. ASSUME NEW p \in Pollers, PollFails(p) PROVE Types'
  <2>1. task' \in [Tasks -> Task]
    BY <1>10, CommittedType DEF PollFails
  <2>2. faults' \in 0..MaxFaults
    BY <1>10, FollowupBounds DEF PollFails
  <2> QED BY <1>10, <2>1, <2>2 DEF PollFails, NoPoll
<1>11. CASE UNCHANGED vars
  BY <1>11 DEF vars
<1> QED
  BY <1>1, <1>2, <1>3, <1>4, <1>5, <1>6, <1>7, <1>8, <1>9, <1>10, <1>11
     DEF FollowupsNext, ProcessDue

LEMMA KeepsTypes == FollowupsSpec => []Types
<1>1. ASSUME FollowupsInit PROVE Types
  <2>1. NoPoll \in Poll /\ NoPoll.at = "idle"
    BY DEF NoPoll, Poll
  <2>2. \A p \in Pollers : poll[p] = NoPoll
    BY <1>1 DEF FollowupsInit
  <2>3. task \in [Tasks -> Task] /\ mails \in [Tasks -> Nat] /\ refresh \in [Refreshes -> {"idle", "looked"}]
    BY <1>1 DEF FollowupsInit, Task
  <2>4. poll \in [Pollers -> Poll]
    BY <1>1, <2>1 DEF FollowupsInit
  <2>5. doNotContact \in BOOLEAN /\ raced \in BOOLEAN
    BY <1>1 DEF FollowupsInit
  <2>6. faults \in 0..MaxFaults
    BY <1>1, FollowupBounds DEF FollowupsInit
  <2>7. FollowupsTypeOK
    BY <2>3, <2>4, <2>5, <2>6 DEF FollowupsTypeOK, Poll
  <2> QED BY <2>1, <2>2, <2>7 DEF Types, MailsSomething
<1>2. Types /\ [FollowupsNext]_vars => Types'
  BY TypesStep
<1> QED BY <1>1, <1>2, PTL DEF FollowupsSpec

\* Tasks and polls keep their shapes (app/services/followup.py process_due).
THEOREM FollowupsTypes == FollowupsSpec => []FollowupsTypeOK
<1>1. Types => FollowupsTypeOK
  BY DEF Types
<1> QED BY <1>1, KeepsTypes, PTL


-----------------------------------------------------------------------------
(* Delay alerts *)

OpenAlert(t) == task[t].alert /\ task[t].status = "pending"

\* Unless two refreshes looked at once: one of them looks at a time, finds no
\* open alert while it does, and there is one at most.
AlertInv ==
    ~raced =>
        /\ \A r, s \in Refreshes : refresh[r] = "looked" /\ refresh[s] = "looked" => r = s
        /\ (\E r \in Refreshes : refresh[r] = "looked") => \A t \in Tasks : ~OpenAlert(t)
        /\ \A t, u \in Tasks : OpenAlert(t) /\ OpenAlert(u) => t = u

\* A poll closes alerts and opens none.
LEMMA PollsOpenNothing ==
    ASSUME Types, NEW p \in Pollers, LoadDue(p) \/ ProcessDue(p) \/ PollFails(p),
           NEW t \in Tasks, OpenAlert(t)'
    PROVE  OpenAlert(t)
<1>1. task' = task \/ task' = Committed(p)
  BY DEF LoadDue, ProcessDue, SuppressTask, DraftFollowup, MailFollowup, FinishPoll, PollFails
<1>2. task[t] \in Task
  BY DEF Types, FollowupsTypeOK
<1> QED BY <1>1, <1>2 DEF OpenAlert, Committed, Task

LEMMA AlertStep == ASSUME Types, AlertInv, [FollowupsNext]_vars PROVE AlertInv'
<1> SUFFICES ASSUME ~raced' PROVE AlertInv'
  BY DEF AlertInv
<1>t. task \in [Tasks -> Task] /\ refresh \in [Refreshes -> {"idle", "looked"}]
  BY DEF Types, FollowupsTypeOK
<1>1. ASSUME NEW t \in Tasks, CreateTask(t) PROVE AlertInv'
  <2>1. \A u \in Tasks : OpenAlert(u)' => OpenAlert(u)
    BY <1>1, <1>t DEF CreateTask, OpenAlert
  <2> QED BY <1>1, <2>1 DEF CreateTask, AlertInv
<1>2. CASE ForbidsContact
  BY <1>2 DEF ForbidsContact, AlertInv, OpenAlert
<1>3. ASSUME NEW r \in Refreshes, LookForAlert(r) PROVE AlertInv'
  <2>1. ~raced /\ \A s \in Refreshes : refresh[s] # "looked"
    BY <1>3 DEF LookForAlert
  <2>2. \A s \in Refreshes : refresh'[s] = "looked" => s = r
    BY <1>3, <1>t, <2>1 DEF LookForAlert
  <2>3. \A t \in Tasks : ~OpenAlert(t)'
    BY <1>3 DEF LookForAlert, NoAlertPending, OpenAlert
  <2> QED BY <2>2, <2>3 DEF AlertInv
<1>4. ASSUME NEW r \in Refreshes, NEW t \in Tasks, RaiseDelayAlert(r, t) PROVE AlertInv'
  <2>1. ~raced /\ refresh[r] = "looked"
    BY <1>4 DEF RaiseDelayAlert
  <2>2. \A s \in Refreshes : refresh'[s] # "looked"
    BY <1>4, <1>t, <2>1 DEF RaiseDelayAlert, AlertInv
  <2>3. \A u \in Tasks : OpenAlert(u)' => u = t
    BY <1>4, <1>t, <2>1 DEF RaiseDelayAlert, AlertInv, OpenAlert
  <2> QED BY <2>2, <2>3 DEF AlertInv
<1>5. ASSUME NEW p \in Pollers, LoadDue(p) \/ ProcessDue(p) \/ PollFails(p) PROVE AlertInv'
  <2>1. UNCHANGED <<refresh, raced>>
    BY <1>5 DEF LoadDue, ProcessDue, SuppressTask, DraftFollowup, MailFollowup, FinishPoll,
                PollFails
  <2>2. \A t \in Tasks : OpenAlert(t)' => OpenAlert(t)
    BY <1>5, PollsOpenNothing
  <2> QED BY <2>1, <2>2 DEF AlertInv
<1>6. CASE UNCHANGED vars
  BY <1>6 DEF vars, AlertInv, OpenAlert
<1> QED BY <1>1, <1>2, <1>3, <1>4, <1>5, <1>6 DEF FollowupsNext

\* A set without two elements has at most one.
LEMMA AtMostOne ==
    ASSUME NEW S, \A x, y \in S : x = y
    PROVE  Cardinality(S) <= 1
<1>1. CASE S = {}
  BY <1>1, FS_EmptySet
<1>2. ASSUME NEW x \in S PROVE Cardinality(S) <= 1
  <2>1. S = {x}
    BY <1>2
  <2> QED BY <2>1, FS_Singleton
<1> QED BY <1>1, <1>2

\* Unless two refreshes looked for it at once, a booking has one delay alert
\* open at a time (app/services/vessel.py:57 _raise_delay_alert).
THEOREM OneAlert == FollowupsSpec => []OneAlertPending
<1>1. FollowupsInit => AlertInv
  BY DEF FollowupsInit, AlertInv, OpenAlert
<1>2. Types /\ AlertInv /\ [FollowupsNext]_vars => AlertInv'
  BY AlertStep
<1>3. AlertInv => OneAlertPending
  BY AtMostOne DEF AlertInv, OneAlertPending, OpenAlert
<1> QED BY <1>1, <1>2, <1>3, KeepsTypes, PTL DEF FollowupsSpec

-----------------------------------------------------------------------------
(* Repeated e-mails *)

\* Poller p may still mail t; p has mailed t and the status is not committed.
Held(p, t)    == IF t \in poll[p].todo \/ poll[p].current = t THEN 1 ELSE 0
Unsaved(p, t) == IF t \in poll[p].completed THEN 1 ELSE 0

\* A poller has a task in one place, and nothing while it is idle.
PollInv(p) ==
    /\ poll[p].at = "idle" => poll[p] = NoPoll
    /\ poll[p].current \notin poll[p].todo \cup poll[p].completed
    /\ poll[p].todo \cap poll[p].completed = {}

\* What an e-mail of t beyond the first is owed to: while the task is pending, to
\* a fault or to a status not committed yet, and afterwards to a poller that had
\* loaded it as well.
Accounted(t) ==
    /\ task[t].status = "absent" =>
           mails[t] = 0 /\ \A p \in Pollers : Held(p, t) = 0 /\ Unsaved(p, t) = 0
    /\ task[t].status = "pending" =>
           mails[t] <= faults + Unsaved("worker", t) + Unsaved("api", t)
    /\ task[t].status \notin {"absent", "pending"} =>
           mails[t] + Held("worker", t) + Held("api", t) <= faults + 2

MailInv == /\ \A p \in Pollers : PollInv(p)
           /\ \A t \in Tasks : Accounted(t)

LEMMA Bits ==
    ASSUME NEW p \in Pollers, NEW t \in Tasks, PollInv(p)
    PROVE  /\ Held(p, t) \in {0, 1} /\ Unsaved(p, t) \in {0, 1}
           /\ Held(p, t) + Unsaved(p, t) <= 1
<1>1. Held(p, t) \in {0, 1} /\ Unsaved(p, t) \in {0, 1}
  BY DEF Held, Unsaved
<1>2. ~(Held(p, t) = 1 /\ Unsaved(p, t) = 1)
  BY DEF PollInv, Held, Unsaved
<1> QED BY <1>1, <1>2

\* The poll of the others stays as it is.
LEMMA OtherPolls ==
    ASSUME Types, NEW p \in Pollers, NEW o \in Pollers, o # p,
           LoadDue(p) \/ ProcessDue(p) \/ PollFails(p)
    PROVE  poll'[o] = poll[o]
<1>1. poll \in [Pollers -> Poll]
  BY DEF Types, FollowupsTypeOK, Poll
<1> QED BY <1>1 DEF LoadDue, ProcessDue, SuppressTask, DraftFollowup, MailFollowup, FinishPoll, PollFails

\* What a commit of p does to the status of t.
LEMMA CommitStatus ==
    ASSUME Types, NEW p \in Pollers, NEW t \in Tasks, task' = Committed(p)
    PROVE  /\ \/ task'[t].status = task[t].status /\ Unsaved(p, t) = 0
              \/ task'[t].status = "completed" \/ task'[t].status = "suppressed"
  BY DEF Committed, Unsaved, Types, FollowupsTypeOK, Task

\* The accounts of t, seen from two pollers.
Balanced(p, o, t) ==
    /\ task[t].status = "absent" =>
          /\ mails[t] = 0
          /\ Held(p, t) = 0 /\ Unsaved(p, t) = 0 /\ Held(o, t) = 0 /\ Unsaved(o, t) = 0
    /\ task[t].status = "pending" => mails[t] <= faults + Unsaved(p, t) + Unsaved(o, t)
    /\ task[t].status \notin {"absent", "pending"} =>
          mails[t] + Held(p, t) + Held(o, t) <= faults + 2

LEMMA Accounts ==
    ASSUME NEW p \in Pollers, NEW o \in Pollers, o # p, NEW t \in Tasks,
           FollowupsTypeOK, FollowupsTypeOK'
    PROVE  /\ Accounted(t) <=> Balanced(p, o, t)
           /\ Accounted(t)' <=> Balanced(p, o, t)'
<1>1. (p = "worker" /\ o = "api") \/ (p = "api" /\ o = "worker")
  BY DEF Pollers
<1>2. \A x \in Pollers : x = p \/ x = o
  BY <1>1 DEF Pollers
<1>3. \A x \in Pollers : /\ Held(x, t) \in {0, 1} /\ Unsaved(x, t) \in {0, 1}
                         /\ Held(x, t)' \in {0, 1} /\ Unsaved(x, t)' \in {0, 1}
  BY DEF Held, Unsaved
<1>4. "worker" \in Pollers /\ "api" \in Pollers
  BY DEF Pollers
<1>5. mails[t] \in Nat /\ mails'[t] \in Nat /\ faults \in Int /\ faults' \in Int
  BY FollowupBounds DEF FollowupsTypeOK
<1>6. Accounted(t) <=> Balanced(p, o, t)
  BY <1>1, <1>2, <1>3, <1>4, <1>5 DEF Accounted, Balanced
<1>7. Accounted(t)' <=> Balanced(p, o, t)'
  BY <1>1, <1>2, <1>3, <1>4, <1>5 DEF Accounted, Balanced
<1> QED BY <1>6, <1>7

LEMMA PollStep ==
    ASSUME Types, Types', MailInv, NEW p \in Pollers, LoadDue(p) \/ ProcessDue(p) \/ PollFails(p)
    PROVE  MailInv'
<1>1. PICK o \in Pollers : o # p /\ Pollers = {p, o}
  BY DEF Pollers
<1>2. poll'[o] = poll[o]
  BY <1>1, OtherPolls
<1>3. poll[p] \in Poll /\ poll \in [Pollers -> Poll]
  BY DEF Types, FollowupsTypeOK, Poll
<1>n. 0 \notin Tasks
  BY DEF Tasks
<1>4. PollInv(p)'
  <2>1. CASE LoadDue(p)
    BY <2>1, <1>3, <1>n DEF LoadDue, NoPoll, PollInv
  <2>2. ASSUME NEW u \in Tasks, SuppressTask(p, u) PROVE PollInv(p)'
    BY <2>2, <1>3 DEF SuppressTask, MailInv, PollInv, Poll
  <2>3. ASSUME NEW u \in Tasks, DraftFollowup(p, u) PROVE PollInv(p)'
    BY <2>3, <1>3 DEF DraftFollowup, NoPoll, PollInv, Poll
  <2>4. CASE MailFollowup(p)
    <3>1. poll'[p] = [poll[p] EXCEPT !.at = "taking", !.current = 0,
                                     !.completed = @ \cup {poll[p].current}]
      BY <2>4, <1>3 DEF MailFollowup
    <3>2. poll[p].todo \subseteq Tasks /\ poll[p].completed \subseteq Tasks /\ poll[p].current \in Tasks
      BY <2>4, <1>3 DEF MailFollowup, Poll, Types, MailsSomething
    <3> QED BY <3>1, <3>2, <1>3, <1>n DEF MailInv, PollInv, Poll
  <2>5. CASE FinishPoll(p) \/ PollFails(p)
    <3>1. poll'[p] = NoPoll
      BY <2>5, <1>3 DEF FinishPoll, PollFails
    <3> QED BY <3>1 DEF NoPoll, PollInv
  <2> QED BY <2>1, <2>2, <2>3, <2>4, <2>5 DEF ProcessDue
<1>5. PollInv(o)'
  BY <1>2 DEF MailInv, PollInv
<1>6. ASSUME NEW t \in Tasks PROVE Accounted(t)'
  <2>o. Held(o, t)' = Held(o, t) /\ Unsaved(o, t)' = Unsaved(o, t)
    BY <1>2 DEF Held, Unsaved
  <2>b. /\ Held(p, t) \in {0, 1} /\ Unsaved(p, t) \in {0, 1} /\ Held(p, t) + Unsaved(p, t) <= 1
        /\ Held(o, t) \in {0, 1} /\ Unsaved(o, t) \in {0, 1} /\ Held(o, t) + Unsaved(o, t) <= 1
    BY Bits DEF MailInv
  <2>c. /\ Held(p, t)' \in {0, 1} /\ Unsaved(p, t)' \in {0, 1}
    BY DEF Held, Unsaved
  <2>n. mails[t] \in Nat /\ faults \in Nat
    BY FollowupBounds DEF Types, FollowupsTypeOK
  <2>s. task[t].status \in {"absent", "pending", "completed", "suppressed"}
    BY DEF Types, FollowupsTypeOK, Task
  <2>a. Balanced(p, o, t)
    BY <1>1, Accounts DEF MailInv, Types
  <2> DEFINE Account == Balanced(p, o, t)
  <2> USE DEF Balanced
  <2>1. ASSUME LoadDue(p) PROVE Account'
    <3>1. Held(p, t) = 0 \/ task[t].status = "pending"
      BY <2>1, <1>n DEF LoadDue, MailInv, PollInv, Held, NoPoll
    <3>2. Unsaved(p, t) = 0
      BY <2>1 DEF LoadDue, MailInv, PollInv, Unsaved, NoPoll
    <3>3. Unsaved(p, t)' = 0 /\ (Held(p, t)' = 0 \/ task[t].status = "pending")
      BY <2>1, <1>3, <1>n DEF LoadDue, Held, Unsaved, NoPoll
    <3>4. UNCHANGED <<task, mails, faults>>
      BY <2>1 DEF LoadDue
    <3> QED BY <3>1, <3>2, <3>3, <3>4, <2>o, <2>b, <2>c, <2>a, <2>n
  <2>2. ASSUME NEW u \in Tasks, SuppressTask(p, u) PROVE Account'
    <3>1. Unsaved(p, t)' = Unsaved(p, t) /\ Held(p, t)' <= Held(p, t)
      BY <2>2, <1>3 DEF SuppressTask, Held, Unsaved, Poll
    <3>2. UNCHANGED <<task, mails, faults>>
      BY <2>2 DEF SuppressTask
    <3> QED BY <3>1, <3>2, <2>o, <2>b, <2>c, <2>a, <2>n
  <2>3. ASSUME NEW u \in Tasks, DraftFollowup(p, u) PROVE Account'
    <3>1. Unsaved(p, t)' = 0 /\ Held(p, t)' <= Held(p, t)
      BY <2>3, <1>3 DEF DraftFollowup, Held, Unsaved, NoPoll, Poll
    <3>2. UNCHANGED <<mails, faults>>
      BY <2>3 DEF DraftFollowup
    <3>3. task' = Committed(p)
      BY <2>3 DEF DraftFollowup
    <3> QED BY <3>1, <3>2, <3>3, CommitStatus, <2>o, <2>b, <2>c, <2>a, <2>n, <2>s
  <2>4. ASSUME MailFollowup(p) PROVE Account'
    <3>1. poll'[p] = [poll[p] EXCEPT !.at = "taking", !.current = 0,
                                     !.completed = @ \cup {poll[p].current}]
      BY <2>4, <1>3 DEF MailFollowup
    <3>2. UNCHANGED <<task, faults>> /\ mails \in [Tasks -> Nat]
      BY <2>4 DEF MailFollowup, Types, FollowupsTypeOK
    <3>3. CASE poll[p].current = t
      <4>1. mails'[t] = mails[t] + 1
        BY <2>4, <3>2, <3>3 DEF MailFollowup
      <4>2. Held(p, t) = 1 /\ Held(p, t)' = 0 /\ Unsaved(p, t)' = 1
        BY <3>1, <3>3, <1>3, <1>n DEF Held, Unsaved, MailInv, PollInv, Poll
      <4> QED BY <3>2, <4>1, <4>2, <2>o, <2>b, <2>a, <2>n
    <3>4. CASE poll[p].current # t
      <4>1. mails'[t] = mails[t]
        BY <2>4, <3>2, <3>4 DEF MailFollowup
      <4>2. Held(p, t)' = Held(p, t) /\ Unsaved(p, t)' = Unsaved(p, t)
        BY <3>1, <3>4, <1>3, <1>n DEF Held, Unsaved, Poll
      <4> QED BY <3>2, <4>1, <4>2, <2>o, <2>a
    <3> QED BY <3>3, <3>4
  <2>5. ASSUME FinishPoll(p) PROVE Account'
    <3>1. Unsaved(p, t)' = 0 /\ Held(p, t)' = 0
      BY <2>5, <1>3, <1>n DEF FinishPoll, Held, Unsaved, NoPoll
    <3>2. UNCHANGED <<mails, faults>> /\ task' = Committed(p)
      BY <2>5 DEF FinishPoll
    <3> QED BY <3>1, <3>2, CommitStatus, <2>o, <2>b, <2>a, <2>n, <2>s
  <2>6. ASSUME PollFails(p) PROVE Account'
    <3>1. Unsaved(p, t)' = 0 /\ Held(p, t)' = 0
      BY <2>6, <1>3, <1>n DEF PollFails, Held, Unsaved, NoPoll
    <3>2. UNCHANGED mails /\ faults' = faults + 1 /\ (task' = task \/ task' = Committed(p))
      BY <2>6 DEF PollFails
    <3>3. CASE task' = task
      BY <3>1, <3>2, <3>3, <2>o, <2>b, <2>a, <2>n, <2>s
    <3>4. CASE task' = Committed(p)
      BY <3>1, <3>2, <3>4, CommitStatus, <2>o, <2>b, <2>a, <2>n, <2>s
    <3> QED BY <3>2, <3>3, <3>4
  <2>7. Account'
    BY <2>1, <2>2, <2>3, <2>4, <2>5, <2>6 DEF ProcessDue
  <2>8. Accounted(t)' <=> Account'
    BY <1>1, Accounts DEF Types
  <2> QED BY <2>7, <2>8
<1> QED BY <1>1, <1>4, <1>5, <1>6 DEF MailInv

LEMMA MailStep == ASSUME Types, Types', MailInv, [FollowupsNext]_vars PROVE MailInv'
<1>t. task \in [Tasks -> Task]
  BY DEF Types, FollowupsTypeOK
<1>1. ASSUME NEW u \in Tasks, task[u].status = "absent", NEW a \in BOOLEAN,
             task' = [task EXCEPT ![u] = [status |-> "pending", alert |-> a]],
             UNCHANGED <<poll, mails, faults>>
      PROVE  MailInv'
  <2>1. \A p \in Pollers : PollInv(p)'
    BY <1>1 DEF MailInv, PollInv
  <2>2. ASSUME NEW t \in Tasks PROVE Accounted(t)'
    <3>1. \A p \in Pollers : Held(p, t)' = Held(p, t) /\ Unsaved(p, t)' = Unsaved(p, t)
      BY <1>1 DEF Held, Unsaved
    <3>2. "worker" \in Pollers /\ "api" \in Pollers
      BY DEF Pollers
    <3>3. mails[t] \in Nat /\ faults \in Nat
      BY FollowupBounds DEF Types, FollowupsTypeOK
    <3>4. Accounted(t)
      BY DEF MailInv
    <3>5. CASE t = u
      <4>1. task'[t].status = "pending"
        BY <1>1, <1>t, <3>5
      <4> QED BY <1>1, <3>1, <3>2, <3>3, <3>4, <3>5, <4>1 DEF Accounted
    <3>6. CASE t # u
      <4>1. task'[t] = task[t]
        BY <1>1, <1>t, <3>6
      <4> QED BY <1>1, <3>1, <3>2, <3>4, <4>1 DEF Accounted
    <3> QED BY <3>5, <3>6
  <2> QED BY <2>1, <2>2 DEF MailInv
<1>2. ASSUME NEW u \in Tasks, CreateTask(u) PROVE MailInv'
  BY <1>1, <1>2 DEF CreateTask, NextTask
<1>3. ASSUME NEW r \in Refreshes, NEW u \in Tasks, RaiseDelayAlert(r, u) PROVE MailInv'
  BY <1>1, <1>3 DEF RaiseDelayAlert, NextTask
<1>4. ASSUME UNCHANGED <<task, poll, mails, faults>> PROVE MailInv'
  BY <1>4 DEF MailInv, PollInv, Accounted, Held, Unsaved
<1>5. ASSUME NEW p \in Pollers, LoadDue(p) \/ ProcessDue(p) \/ PollFails(p) PROVE MailInv'
  BY <1>5, PollStep
<1> QED
  BY <1>2, <1>3, <1>4, <1>5 DEF FollowupsNext, ForbidsContact, LookForAlert, vars

LEMMA TwoPollers == Cardinality(Pollers) = 2
<1>1. Pollers = {"worker"} \cup {"api"}
  BY DEF Pollers
<1>2. IsFiniteSet({"worker"}) /\ Cardinality({"worker"}) = 1
  BY FS_Singleton
<1>3. "api" \notin {"worker"}
  OBVIOUS
<1> QED BY <1>1, <1>2, <1>3, FS_AddElement

\* Every repeated e-mail of a task is owed to the other poller or to a fault, for
\* any number of tasks and faults (app/services/followup.py:22 process_due).
THEOREM MailsAreBounded == FollowupsSpec => []MailsBounded
<1>1. ASSUME FollowupsInit PROVE MailInv
  <2>1. ASSUME NEW p \in Pollers PROVE PollInv(p)
    BY <1>1 DEF FollowupsInit, PollInv, NoPoll
  <2>2. ASSUME NEW t \in Tasks PROVE Accounted(t)
    <3>1. \A p \in Pollers : Held(p, t) = 0 /\ Unsaved(p, t) = 0
      BY <1>1 DEF FollowupsInit, Held, Unsaved, NoPoll, Tasks
    <3> QED BY <1>1, <3>1 DEF FollowupsInit, Accounted
  <2> QED BY <2>1, <2>2 DEF MailInv
<1>2. Types /\ Types' /\ MailInv /\ [FollowupsNext]_vars => MailInv'
  BY MailStep
<1>3. ASSUME Types, MailInv PROVE MailsBounded
  <2> SUFFICES ASSUME NEW t \in Tasks PROVE mails[t] <= 2 + faults
    BY TwoPollers DEF MailsBounded
  <2>1. /\ Held("worker", t) \in {0, 1} /\ Held("api", t) \in {0, 1}
        /\ Unsaved("worker", t) \in {0, 1} /\ Unsaved("api", t) \in {0, 1}
    BY DEF Held, Unsaved
  <2>2. mails[t] \in Nat /\ faults \in Nat
    BY <1>3, FollowupBounds DEF Types, FollowupsTypeOK
  <2> QED BY <1>3, <2>1, <2>2 DEF MailInv, Accounted
<1> QED BY <1>1, <1>2, <1>3, KeepsTypes, PTL DEF FollowupsSpec

==============================================================================
