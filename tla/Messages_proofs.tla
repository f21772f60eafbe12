-------------------------- MODULE Messages_proofs --------------------------
(* Proofs about what reaches a room: the edits of a message (Annotations), *)
(* the rows a backfill sends into it (History), and what a redaction takes *)
(* back out of it (Retraction).                                            *)
EXTENDS Annotations, History, Retraction,
        FiniteSetTheorems, NaturalsInduction, WellFoundedInduction, TLAPS

-----------------------------------------------------------------------------
(* Edits.  A queue that holds edits ends with the newest one; once the     *)
(* pushes hold none, the portal's queue decides, and after it the room.    *)

\* What the queues hold when the contact has written k texts.
PushItems(k) == {x \in [kind : {"tapback", "edit", "delivery", "read"}, n : Nat, stored : BOOLEAN] :
                    x.kind = "edit" => x.n \in 1 .. k}
EventItems(k) == {x \in [kind : {"tapback", "edit", "read"}, n : Nat] :
                    x.kind = "edit" => x.n \in 1 .. k}

HasEdit(q) == \E i \in DOMAIN q : q[i].kind = "edit"
LastEdit(q, n) ==
    \E i \in DOMAIN q : /\ q[i].kind = "edit" /\ q[i].n = n
                        /\ \A k \in DOMAIN q : k > i => q[k].kind # "edit"

ShowsNewest == parts = [i \in 1 .. texts[Len(texts)] |-> Len(texts)]

AnnotationsTypes ==
    /\ running \in BOOLEAN
    /\ texts \in Seq(Nat) /\ texts # <<>> /\ parts \in Seq(Nat)
    /\ tapbacks \in Seq(Reactions \cup {"none"})
    /\ imported \in Nat /\ handed \in Nat /\ completed \in Nat
    /\ push \in Seq(PushItems(Len(texts))) /\ events \in Seq(EventItems(Len(texts)))

EditsInOrder ==
    /\ HasEdit(push) => LastEdit(push, Len(texts))
    /\ ~excused /\ ~HasEdit(push) /\ HasEdit(events) => LastEdit(events, Len(texts))
    /\ ~excused /\ ~HasEdit(push) /\ ~HasEdit(events) => ShowsNewest

\* Appending to a queue keeps its edits in order.
LEMMA EditAppended ==
    ASSUME NEW S, NEW q \in Seq(S), NEW x \in S
    PROVE  /\ HasEdit(Append(q, x)) <=> HasEdit(q) \/ x.kind = "edit"
           /\ x.kind = "edit" => LastEdit(Append(q, x), x.n)
           /\ x.kind # "edit" => \A n : LastEdit(q, n) => LastEdit(Append(q, x), n)
<1> DEFINE a == Append(q, x)
<1>1. /\ Len(a) = Len(q) + 1 /\ Len(q) \in Nat
      /\ a[Len(q) + 1] = x
      /\ \A i \in 1 .. Len(q) : a[i] = q[i]
  OBVIOUS
<1>2. DOMAIN a = 1 .. Len(q) + 1 /\ DOMAIN q = 1 .. Len(q)
  OBVIOUS
<1> HIDE DEF a
<1>3. HasEdit(a) <=> HasEdit(q) \/ x.kind = "edit"
  BY <1>1, <1>2, SMTT(30) DEF HasEdit
<1>4. x.kind = "edit" => LastEdit(a, x.n)
  BY <1>1, <1>2, SMTT(30) DEF LastEdit
<1>5. x.kind # "edit" => \A n : LastEdit(q, n) => LastEdit(a, n)
  BY <1>1, <1>2, SMTT(30) DEF LastEdit
<1> QED BY <1>3, <1>4, <1>5 DEF a

\* Taking the head of a queue keeps the order of the edits behind it.
LEMMA EditTaken ==
    ASSUME NEW S, NEW q \in Seq(S), q # <<>>
    PROVE  /\ HasEdit(q) <=> HasEdit(Tail(q)) \/ Head(q).kind = "edit"
           /\ HasEdit(Tail(q)) => \A n : LastEdit(q, n) => LastEdit(Tail(q), n)
           /\ ~HasEdit(Tail(q)) => \A n : LastEdit(q, n) => Head(q).kind = "edit" /\ Head(q).n = n
<1> DEFINE t == Tail(q)
<1>0. /\ t \in Seq(S) /\ Len(t) = Len(q) - 1
      /\ \A i \in 1 .. Len(q) - 1 : t[i] = q[i + 1]
  OBVIOUS
<1>1. /\ Len(q) \in Nat /\ Len(q) >= 1 /\ Head(q) = q[1]
      /\ DOMAIN q = 1 .. Len(q) /\ DOMAIN t = 1 .. Len(q) - 1
      /\ \A i \in 1 .. Len(q) - 1 : t[i] = q[i + 1]
  BY <1>0
<1> HIDE DEF t
<1>2. HasEdit(q) <=> HasEdit(t) \/ Head(q).kind = "edit"
  <2>1. ASSUME NEW i \in 1 .. Len(q), q[i].kind = "edit"
        PROVE  i = 1 \/ (i - 1 \in 1 .. Len(q) - 1 /\ t[i - 1] = q[i])
    <3>1. i = 1 \/ (i - 1 \in 1 .. Len(q) - 1 /\ (i - 1) + 1 = i)
      BY <1>1
    <3> QED BY <1>1, <3>1
  <2>2. ASSUME NEW i \in 1 .. Len(q) - 1  PROVE  i + 1 \in 1 .. Len(q) /\ t[i] = q[i + 1]
    BY <1>1
  <2>3. ASSUME HasEdit(q)  PROVE  HasEdit(t) \/ Head(q).kind = "edit"
    <3>1. PICK i \in 1 .. Len(q) : q[i].kind = "edit"
      BY <1>1, <2>3 DEF HasEdit
    <3> QED BY <1>1, <2>1, <3>1 DEF HasEdit
  <2>4. ASSUME HasEdit(t)  PROVE  HasEdit(q)
    <3>1. PICK i \in 1 .. Len(q) - 1 : t[i].kind = "edit"
      BY <1>1, <2>4 DEF HasEdit
    <3> QED BY <1>1, <2>2, <3>1 DEF HasEdit
  <2>5. ASSUME Head(q).kind = "edit"  PROVE  HasEdit(q)
    <3>1. 1 \in 1 .. Len(q)
      BY <1>1
    <3> QED BY <1>1, <2>5, <3>1 DEF HasEdit
  <2> QED BY <2>3, <2>4, <2>5
<1>3. ASSUME NEW n, LastEdit(q, n)
      PROVE  /\ HasEdit(t) => LastEdit(t, n)
             /\ ~HasEdit(t) => Head(q).kind = "edit" /\ Head(q).n = n
  <2>1. PICK i \in 1 .. Len(q) : /\ q[i].kind = "edit" /\ q[i].n = n
                                 /\ \A k \in 1 .. Len(q) : k > i => q[k].kind # "edit"
    BY <1>1, <1>3 DEF LastEdit
  <2>2. CASE i = 1
    <3>1. ~HasEdit(t)
      BY <1>1, <2>1, <2>2, SMTT(30) DEF HasEdit
    <3> QED BY <1>1, <2>1, <2>2, <3>1
  <2>3. CASE i # 1
    <3>1. i - 1 \in 1 .. Len(q) - 1 /\ t[i - 1] = q[i]
      BY <1>1, <2>3
    <3>2. \A k \in 1 .. Len(q) - 1 : k > i - 1 => t[k].kind # "edit"
      BY <1>1, <2>1, SMTT(30)
    <3>3. LastEdit(t, n) /\ HasEdit(t)
      BY <1>1, <2>1, <3>1, <3>2 DEF LastEdit, HasEdit
    <3> QED BY <3>3
  <2> QED BY <2>2, <2>3
<1> QED BY <1>2, <1>3 DEF t

\* The room after an edit: as many parts as its text needs, each showing it.
LEMMA EditConverted ==
    ASSUME texts \in Seq(Nat), parts \in Seq(Nat), NEW rev \in DOMAIN texts
    PROVE  ConvertEdit(rev) = [i \in 1 .. texts[rev] |-> rev]
<1> DEFINE n == texts[rev]
           m == IF Len(parts) < n THEN Len(parts) ELSE n
           modified == [i \in 1 .. m |-> rev]
           added == [i \in 1 .. (n - m) |-> rev]
<1>1. n \in Nat /\ m \in Nat /\ m <= n /\ rev \in Nat
  OBVIOUS
<1> HIDE DEF m, n
<1>2. modified \in Seq(Nat) /\ Len(modified) = m
  BY <1>1
<1>3. added \in Seq(Nat) /\ Len(added) = n - m
  BY <1>1
<1>4. ConvertEdit(rev) = modified \o added
  BY <1>2 DEF ConvertEdit, n, m
<1>5. modified \o added = [i \in 1 .. n |-> rev]
  <2>1. modified \o added \in Seq(Nat) /\ Len(modified \o added) = n
    BY <1>1, <1>2, <1>3
  <2>2. \A i \in 1 .. n : (modified \o added)[i] = rev
    BY <1>1, <1>2, <1>3
  <2> DEFINE both == modified \o added
  <2>3. both \in Seq(Nat) /\ Len(both) = n /\ \A i \in 1 .. n : both[i] = rev
    BY <2>1, <2>2
  <2> HIDE DEF modified, added, both
  <2>4. both = [i \in 1 .. n |-> rev]
    BY <2>3, <1>1
  <2> QED BY <2>4 DEF both
<1> QED BY <1>4, <1>5 DEF n

\* A push is added, and nothing else of this changes.
LEMMA PushAdded ==
    ASSUME AnnotationsTypes, EditsInOrder,
           NEW kind \in {"tapback", "edit", "delivery", "read"}, NEW n \in Nat, Push(kind, n),
           UNCHANGED <<running, texts, parts, imported, handed, completed, events, excused>>,
           tapbacks' \in Seq(Reactions \cup {"none"}),
           kind # "edit"
    PROVE  AnnotationsTypes' /\ EditsInOrder'
<1> DEFINE x == [kind |-> kind, n |-> n, stored |-> ~running]
<1>1. push \in Seq(PushItems(Len(texts))) /\ x \in PushItems(Len(texts)) /\ x.kind # "edit" /\ push' = Append(push, x)
  BY DEF AnnotationsTypes, Push, PushItems
<1> HIDE DEF x
<1>2. push' \in Seq(PushItems(Len(texts)))
  BY <1>1
<1>3. AnnotationsTypes'
  BY <1>2 DEF AnnotationsTypes
<1>4. /\ HasEdit(push') <=> HasEdit(push)
      /\ \A m : LastEdit(push, m) => LastEdit(push', m)
  BY <1>1, EditAppended
<1>5. Len(texts)' = Len(texts) /\ ShowsNewest' = ShowsNewest
  BY DEF ShowsNewest
<1>6. EditsInOrder'
  BY <1>4, <1>5, Zenon DEF EditsInOrder
<1> QED BY <1>3, <1>6

\* The head of push is no edit and is taken; events may get another event
\* that is no edit.
LEMMA PushTaken ==
    ASSUME AnnotationsTypes, EditsInOrder, push # <<>>, Head(push).kind # "edit", push' = Tail(push),
           UNCHANGED <<running, tapbacks, texts, parts, imported, handed, completed, excused>>,
           \/ events' = events
           \/ \E x \in EventItems(Len(texts)) : x.kind # "edit" /\ events' = Append(events, x)
    PROVE  AnnotationsTypes' /\ EditsInOrder'
<1>1. push \in Seq(PushItems(Len(texts))) /\ events \in Seq(EventItems(Len(texts)))
  BY DEF AnnotationsTypes
<1>2. push' \in Seq(PushItems(Len(texts)))
  BY <1>1
<1>3. events' \in Seq(EventItems(Len(texts)))
  <2>1. ASSUME NEW x \in EventItems(Len(texts))  PROVE  Append(events, x) \in Seq(EventItems(Len(texts)))
    BY <1>1
  <2> QED BY <1>1, <2>1, Zenon
<1>4. AnnotationsTypes'
  BY <1>2, <1>3 DEF AnnotationsTypes
<1>5. /\ HasEdit(push') <=> HasEdit(push)
      /\ HasEdit(push') => \A m : LastEdit(push, m) => LastEdit(push', m)
  BY <1>1, EditTaken
<1>6. /\ HasEdit(events') <=> HasEdit(events)
      /\ \A m : LastEdit(events, m) => LastEdit(events', m)
  BY <1>1, EditAppended
<1>7. Len(texts)' = Len(texts) /\ ShowsNewest' = ShowsNewest
  BY DEF ShowsNewest
<1>8. EditsInOrder'
  BY <1>5, <1>6, <1>7, Zenon DEF EditsInOrder
<1> QED BY <1>4, <1>8

\* The same without a push.
LEMMA EventAdded ==
    ASSUME AnnotationsTypes, EditsInOrder,
           UNCHANGED <<push, running, tapbacks, texts, parts, imported, excused>>,
           handed' \in Nat, completed' \in Nat,
           \/ events' = events
           \/ \E x \in EventItems(Len(texts)) : x.kind # "edit" /\ events' = Append(events, x)
    PROVE  AnnotationsTypes' /\ EditsInOrder'
<1>1. events \in Seq(EventItems(Len(texts)))
  BY DEF AnnotationsTypes
<1>3. events' \in Seq(EventItems(Len(texts)))
  <2>1. ASSUME NEW x \in EventItems(Len(texts))  PROVE  Append(events, x) \in Seq(EventItems(Len(texts)))
    BY <1>1
  <2> QED BY <1>1, <2>1, Zenon
<1>4. AnnotationsTypes'
  BY <1>3 DEF AnnotationsTypes
<1>6. /\ HasEdit(events') <=> HasEdit(events)
      /\ \A m : LastEdit(events, m) => LastEdit(events', m)
  BY <1>1, EditAppended
<1>7. Len(texts)' = Len(texts) /\ ShowsNewest' = ShowsNewest
  BY DEF ShowsNewest
<1>8. EditsInOrder'
  BY <1>6, <1>7, Zenon DEF EditsInOrder
<1> QED BY <1>4, <1>8

\* The portal takes an event.
LEMMA EventHandled ==
    ASSUME AnnotationsTypes, EditsInOrder, PortalHandles
    PROVE  AnnotationsTypes' /\ EditsInOrder'
<1> DEFINE e == Head(events)
<1>1. events \in Seq(EventItems(Len(texts))) /\ events # <<>> /\ events' = Tail(events)
  BY DEF AnnotationsTypes, PortalHandles
<1>2. /\ parts' = IF e.kind = "edit" THEN ConvertEdit(e.n) ELSE parts
      /\ UNCHANGED <<push, running, tapbacks, texts, imported, handed, completed, excused>>
  BY DEF PortalHandles, contactVarsOf, cloudVars
<1>3. e.kind = "edit" => /\ e.n \in DOMAIN texts
                         /\ parts' = [i \in 1 .. texts[e.n] |-> e.n]
  <2>1. e \in EventItems(Len(texts)) /\ DOMAIN texts = 1 .. Len(texts)
    BY <1>1 DEF AnnotationsTypes
  <2> HIDE DEF e
  <2>2. e.kind = "edit" => e.n \in DOMAIN texts
    BY <2>1 DEF EventItems
  <2>3. e.kind = "edit" => ConvertEdit(e.n) = [i \in 1 .. texts[e.n] |-> e.n]
    BY <2>2, EditConverted, Zenon DEF AnnotationsTypes
  <2> QED BY <1>2, <2>2, <2>3
<1>4. parts' \in Seq(Nat)
  <2>1. CASE e.kind = "edit"
    <3>1. texts[e.n] \in Nat /\ e.n \in Nat
      BY <1>3, <2>1 DEF AnnotationsTypes
    <3>2. [i \in 1 .. texts[e.n] |-> e.n] \in Seq(Nat)
      BY <3>1
    <3> QED BY <1>3, <2>1, <3>2
  <2>2. CASE e.kind # "edit"
    BY <1>2, <2>2 DEF AnnotationsTypes
  <2> QED BY <2>1, <2>2
<1>5. events' \in Seq(EventItems(Len(texts)))
  BY <1>1
<1>6. AnnotationsTypes'
  BY <1>2, <1>4, <1>5 DEF AnnotationsTypes
<1>7. /\ HasEdit(events) <=> HasEdit(events') \/ e.kind = "edit"
      /\ HasEdit(events') => \A m : LastEdit(events, m) => LastEdit(events', m)
      /\ ~HasEdit(events') => \A m : LastEdit(events, m) => e.kind = "edit" /\ e.n = m
  BY <1>1, EditTaken
<1> HIDE DEF e
<1>8. Len(texts)' = Len(texts)
  BY <1>2
<1>9. e.kind = "edit" /\ e.n = Len(texts) => ShowsNewest'
  BY <1>2, <1>3 DEF ShowsNewest
<1>10. e.kind # "edit" => (ShowsNewest' <=> ShowsNewest)
  BY <1>2 DEF ShowsNewest
<1>11. HasEdit(push)' = HasEdit(push) /\ LastEdit(push, Len(texts))' = LastEdit(push, Len(texts))
  BY <1>2 DEF HasEdit, LastEdit
<1>12. EditsInOrder'
  BY <1>2, <1>7, <1>8, <1>9, <1>10, <1>11, Zenon DEF EditsInOrder
<1> QED BY <1>6, <1>12

\* The contact edits: the push of the newest text is the last one.
LEMMA EditPushed ==
    ASSUME AnnotationsTypes, EditsInOrder, AnnotationsAssumption, Edit
    PROVE  AnnotationsTypes' /\ EditsInOrder'
<1> DEFINE k == Len(texts) + 1
           x == [kind |-> "edit", n |-> k, stored |-> ~running]
<1>1. PICK n \in EditSizes : texts' = Append(texts, n)
  BY DEF Edit
<1>2. n \in Nat /\ texts \in Seq(Nat) /\ push \in Seq(PushItems(Len(texts))) /\ running \in BOOLEAN
  BY DEF AnnotationsTypes, AnnotationsAssumption
<1>3. k \in Nat /\ texts' \in Seq(Nat) /\ Len(texts') = k /\ texts' # <<>>
  BY <1>1, <1>2
<1>4. push' = Append(push, x)
  BY DEF Edit, Push
<1>5. /\ UNCHANGED <<running, tapbacks, parts, imported, handed, completed, events, excused>>
  BY DEF Edit, cloudVars, roomVars
<1>6. PushItems(Len(texts)) \subseteq PushItems(k) /\ EventItems(Len(texts)) \subseteq EventItems(k)
  <2>1. \A i \in 1 .. Len(texts) : i \in 1 .. k
    BY <1>2
  <2> HIDE DEF k
  <2> QED BY <2>1 DEF PushItems, EventItems
<1>7. x \in PushItems(k) /\ x.kind = "edit" /\ x.n = k
  <2>1. k \in 1 .. k
    BY <1>2
  <2> HIDE DEF k
  <2> QED BY <1>2, <1>3, <2>1 DEF PushItems
<1> HIDE DEF k, x
<1>8. push \in Seq(PushItems(k)) /\ events' \in Seq(EventItems(k))
  <2>1. events \in Seq(EventItems(Len(texts)))
    BY DEF AnnotationsTypes
  <2> QED BY <1>2, <1>5, <1>6, <2>1
<1>9. push' \in Seq(PushItems(k))
  BY <1>4, <1>7, <1>8
<1>10. AnnotationsTypes'
  BY <1>3, <1>5, <1>8, <1>9 DEF AnnotationsTypes
<1>11. LastEdit(push', k) /\ HasEdit(push')
  BY <1>4, <1>7, <1>8, EditAppended
<1>12. EditsInOrder'
  BY <1>3, <1>11 DEF EditsInOrder
<1> QED BY <1>10, <1>12

\* The bridge starts again: the portal's queue is gone, what APNs kept is marked.
LEMMA EditsAfterStart ==
    ASSUME AnnotationsTypes, EditsInOrder, StartBridge
    PROVE  AnnotationsTypes' /\ EditsInOrder'
<1>1. /\ running' = TRUE /\ events' = <<>> /\ handed' = completed
      /\ UNCHANGED <<tapbacks, texts, parts, imported, completed>>
      /\ ~excused' => ~excused /\ events = <<>>
      /\ push' = [i \in DOMAIN push |-> [push[i] EXCEPT !.stored = TRUE]]
  BY DEF StartBridge, contactVarsOf, roomVars, completedBackfillWriteWatermark
<1>2. push \in Seq(PushItems(Len(texts)))
  BY DEF AnnotationsTypes
<1>3. \A x \in PushItems(Len(texts)) : /\ [x EXCEPT !.stored = TRUE] \in PushItems(Len(texts))
                                       /\ [x EXCEPT !.stored = TRUE].kind = x.kind
                                       /\ [x EXCEPT !.stored = TRUE].n = x.n
  BY DEF PushItems
<1>4. DOMAIN push = 1 .. Len(push) /\ Len(push) \in Nat /\ \A i \in DOMAIN push : push[i] \in PushItems(Len(texts))
  BY <1>2
<1>5. \A i \in DOMAIN push : push'[i] \in PushItems(Len(texts))
                             /\ push'[i].kind = push[i].kind /\ push'[i].n = push[i].n
  BY <1>1, <1>3, <1>4
<1>6. DOMAIN push' = DOMAIN push /\ push' \in Seq(PushItems(Len(texts)))
  <2>1. push' \in [1 .. Len(push) -> PushItems(Len(texts))]
    BY <1>1, <1>3, <1>4
  <2> QED BY <1>1, <1>4, <2>1
<1>7. <<>> \in Seq(EventItems(Len(texts))) /\ DOMAIN <<>> = {}
  OBVIOUS
<1>8. AnnotationsTypes'
  BY <1>1, <1>6, <1>7 DEF AnnotationsTypes
<1>9. (HasEdit(push') <=> HasEdit(push)) /\ \A m : LastEdit(push, m) => LastEdit(push', m)
  BY <1>5, <1>6 DEF HasEdit, LastEdit
<1>10. Len(texts)' = Len(texts) /\ ShowsNewest' = ShowsNewest
  BY <1>1 DEF ShowsNewest
<1>11. ~HasEdit(<<>>) /\ ~HasEdit(events')
  BY <1>1, <1>7 DEF HasEdit
<1>12. EditsInOrder'
  BY <1>1, <1>9, <1>10, <1>11 DEF EditsInOrder
<1> QED BY <1>8, <1>12

\* An edit is handed to the portal's queue.
LEMMA EditHandedOn ==
    ASSUME AnnotationsTypes, EditsInOrder, handleEdit
    PROVE  AnnotationsTypes' /\ EditsInOrder'
<1> DEFINE x == [kind |-> "edit", n |-> Head(push).n]
<1>1. /\ push # <<>> /\ Head(push).kind = "edit" /\ push' = Tail(push) /\ events' = Append(events, x)
      /\ UNCHANGED <<running, tapbacks, texts, parts, imported, handed, completed, excused>>
  BY DEF handleEdit, Taken, Queue, contactVarsOf, cloudVars, roomVars
<1>2. push \in Seq(PushItems(Len(texts))) /\ events \in Seq(EventItems(Len(texts)))
  BY DEF AnnotationsTypes
<1>3. Head(push) \in PushItems(Len(texts)) /\ push' \in Seq(PushItems(Len(texts)))
  BY <1>1, <1>2
<1>4. x \in EventItems(Len(texts)) /\ x.kind = "edit" /\ x.n = Head(push).n
  BY <1>1, <1>3 DEF PushItems, EventItems
<1> HIDE DEF x
<1>5. events' \in Seq(EventItems(Len(texts)))
  BY <1>1, <1>2, <1>4
<1>6. AnnotationsTypes'
  BY <1>1, <1>3, <1>5 DEF AnnotationsTypes
<1>7. /\ HasEdit(push)
      /\ HasEdit(push') => \A m : LastEdit(push, m) => LastEdit(push', m)
      /\ ~HasEdit(push') => \A m : LastEdit(push, m) => Head(push).n = m
  BY <1>1, <1>2, EditTaken
<1>8. HasEdit(events') /\ LastEdit(events', Head(push).n)
  BY <1>1, <1>2, <1>4, EditAppended
<1>9. Len(texts)' = Len(texts)
  BY <1>1
<1>10. EditsInOrder'
  BY <1>7, <1>8, <1>9 DEF EditsInOrder
<1> QED BY <1>6, <1>10

\* The room shows the newest edit when none is under way (handleEdit): every
\* edit is handed on in the order of the pushes, and the last one decides.
THEOREM NewestEditStands == AnnotationsSpec => []EditShowsText
<1> DEFINE Inv == AnnotationsTypes /\ EditsInOrder
<1>1. AnnotationsInit => Inv
  <2> SUFFICES ASSUME AnnotationsInit PROVE Inv
    OBVIOUS
  <2>1. texts = <<1>> /\ parts = <<1>> /\ push = <<>> /\ events = <<>> /\ tapbacks = <<>>
    BY DEF AnnotationsInit
  <2>2. /\ <<1>> \in Seq(Nat) /\ <<1>> # <<>> /\ Len(<<1>>) = 1
        /\ <<1>> = [i \in 1 .. 1 |-> 1] /\ <<1>>[1] = 1
    OBVIOUS
  <2>3. ~HasEdit(<<>>)
    BY DEF HasEdit
  <2>4. AnnotationsTypes
    BY <2>1, <2>2 DEF AnnotationsInit, AnnotationsTypes
  <2>5. ShowsNewest
    BY <2>1, <2>2 DEF ShowsNewest
  <2> QED BY <2>1, <2>3, <2>4, <2>5 DEF EditsInOrder
<1>2. Inv /\ [AnnotationsNext]_annotationVars => Inv'
  <2> SUFFICES ASSUME AnnotationsTypes, EditsInOrder, [AnnotationsNext]_annotationVars  PROVE Inv'
    OBVIOUS
  <2>a. AnnotationsAssumption
    BY AnnotationsAssumption
  <2>t. tapbacks \in Seq(Reactions \cup {"none"}) /\ imported \in Nat /\ handed \in Nat /\ completed \in Nat
    BY DEF AnnotationsTypes
  <2>1. CASE React
    <3>1. /\ Push("tapback", Len(tapbacks) + 1) /\ Len(tapbacks) + 1 \in Nat
          /\ UNCHANGED <<running, texts, parts, imported, handed, completed, events, excused>>
      BY <2>1, <2>t DEF React, cloudVars, roomVars
    <3>2. tapbacks' \in Seq(Reactions \cup {"none"})
      <4>1. PICK r \in Reactions \cup {"none"} : tapbacks' = Append(tapbacks, r)
        BY <2>1 DEF React
      <4> QED BY <2>t, <4>1
    <3> QED BY <3>1, <3>2, PushAdded
  <2>2. CASE Edit
    BY <2>2, <2>a, EditPushed
  <2>3. CASE SendOwn
    <3>1. /\ Push("delivery", 0) /\ tapbacks' = tapbacks
          /\ UNCHANGED <<running, texts, parts, imported, handed, completed, events, excused>>
      BY <2>3 DEF SendOwn, contactVarsOf, cloudVars, roomVars
    <3> QED BY <3>1, <2>t, PushAdded
  <2>4. CASE InsertOwn
    BY <2>4, <2>t, EventAdded DEF InsertOwn, contactVarsOf, cloudVars, roomVars
  <2>5. CASE ReadOwn
    <3>1. /\ Push("read", 0) /\ tapbacks' = tapbacks
          /\ UNCHANGED <<running, texts, parts, imported, handed, completed, events, excused>>
      BY <2>5 DEF ReadOwn, cloudVars, roomVars
    <3> QED BY <3>1, <2>t, PushAdded
  <2>6. CASE StopBridge
    <3>1. /\ running' = FALSE
          /\ UNCHANGED <<push, tapbacks, texts, parts, imported, handed, completed, events, excused>>
      BY <2>6 DEF StopBridge, contactVarsOf, cloudVars, roomVars
    <3> QED BY <3>1 DEF AnnotationsTypes, EditsInOrder, HasEdit, LastEdit, ShowsNewest
  <2>7. CASE StartBridge
    BY <2>7, EditsAfterStart
  <2>8. CASE handleTapback
    <3>1. /\ push # <<>> /\ Head(push).kind = "tapback" /\ push' = Tail(push)
          /\ UNCHANGED <<running, tapbacks, texts, parts, imported, handed, completed, excused>>
          /\ events' = events \/ events' = Append(events, [kind |-> "tapback", n |-> Head(push).n])
      BY <2>8 DEF handleTapback, Taken, Queue, contactVarsOf, cloudVars, roomVars
    <3>2. Head(push).n \in Nat
      <4>1. Head(push) \in PushItems(Len(texts))
        BY <3>1 DEF AnnotationsTypes
      <4> QED BY <4>1 DEF PushItems
    <3> DEFINE x == [kind |-> "tapback", n |-> Head(push).n]
    <3>3. x \in EventItems(Len(texts)) /\ x.kind # "edit"
      BY <3>2 DEF EventItems
    <3> QED BY <3>1, <3>3, PushTaken
  <2>9. CASE handleEdit
    BY <2>9, EditHandedOn
  <2>10. CASE handleDeliveryReceipt
    <3>1. /\ push # <<>> /\ Head(push).kind = "delivery" /\ push' = Tail(push) /\ events' = events
          /\ UNCHANGED <<running, tapbacks, texts, parts, imported, handed, completed, excused>>
      BY <2>10 DEF handleDeliveryReceipt, Taken, contactVarsOf, cloudVars, roomVars
    <3> QED BY <3>1, PushTaken
  <2>11. CASE handleReadReceipt
    <3> DEFINE x == [kind |-> "read", n |-> 0]
    <3>1. /\ push # <<>> /\ Head(push).kind = "read" /\ push' = Tail(push)
          /\ UNCHANGED <<running, tapbacks, texts, parts, imported, handed, completed, excused>>
      BY <2>11 DEF handleReadReceipt, Taken, cloudVars
    <3>2. events' = events \/ events' = Append(events, x)
      BY <2>11 DEF handleReadReceipt, sendGhostReadReceipt, queueGhostReceiptFallback, Queue
    <3>3. x \in EventItems(Len(texts)) /\ x.kind # "edit"
      BY DEF EventItems
    <3> QED BY <3>1, <3>2, <3>3, PushTaken
  <2>12. CASE tryLookup
    BY <2>12, <2>t, EventAdded DEF tryLookup, contactVarsOf, cloudVars
  <2>13. CASE PortalHandles
    BY <2>13, EventHandled
  <2>14. CASE ImportRecords
    <3>1. PICK upTo \in imported .. Len(tapbacks) : imported' = upTo
      BY <2>14 DEF ImportRecords
    <3>2. /\ imported' \in Nat
          /\ UNCHANGED <<push, running, tapbacks, texts, parts, handed, completed, events, excused>>
      BY <2>14, <2>t, <3>1 DEF ImportRecords, contactVarsOf, roomVars
    <3> QED BY <3>2 DEF AnnotationsTypes, EditsInOrder, HasEdit, LastEdit, ShowsNewest
  <2>15. CASE cloudTapbackToBackfill
    <3> DEFINE x == [kind |-> "tapback", n |-> handed + 1]
    <3>1. /\ handed' = handed + 1
          /\ UNCHANGED <<push, running, tapbacks, texts, parts, imported, completed, excused>>
          /\ events' = events \/ events' = Append(events, x)
      BY <2>15 DEF cloudTapbackToBackfill, Queue, contactVarsOf, roomVars
    <3>2. x \in EventItems(Len(texts)) /\ x.kind # "edit" /\ handed + 1 \in Nat
      BY <2>t DEF EventItems
    <3> QED BY <2>t, <3>1, <3>2, EventAdded
  <2>16. CASE TaskCompletes
    BY <2>16, <2>t, EventAdded DEF TaskCompletes, contactVarsOf, roomVars
  <2>17. CASE UNCHANGED annotationVars
    BY <2>17, <2>t, EventAdded DEF annotationVars
  <2> QED BY <2>1, <2>2, <2>3, <2>4, <2>5, <2>6, <2>7, <2>8, <2>9, <2>10, <2>11, <2>12, <2>13,
             <2>14, <2>15, <2>16, <2>17 DEF AnnotationsNext, Pushes
<1>3. Inv => EditShowsText
  <2> SUFFICES ASSUME EditsInOrder PROVE EditShowsText
    OBVIOUS
  <2> QED BY DEF EditsInOrder, EditShowsText, HasEdit, ShowsNewest
<1> QED BY <1>1, <1>2, <1>3, PTL DEF AnnotationsSpec

-----------------------------------------------------------------------------
(* History.  Rows are ordered; a page that is not full holds all there is; *)
(* so a batch with nothing behind it reaches the oldest row.               *)

NewerIn(r, S) == {s \in S : Older(r, s)}

\* The rows are finitely many, and Older orders them.
LEMMA RowsOrdered ==
    /\ \A r \in Rows : r \in Nat /\ Stamp[r] \in Nat /\ ~Older(r, r)
    /\ \A r, s \in Rows : r # s => Older(r, s) \/ Older(s, r)
    /\ \A r, s, t \in Rows : Older(r, s) /\ Older(s, t) => Older(r, t)
<1>1. \A r \in Rows : r \in Nat /\ Stamp[r] \in Nat
  BY HistoryAssumption DEF Rows
<1>2. \A r \in Rows : ~Older(r, r)
  BY <1>1 DEF Older
<1>3. \A r, s \in Rows : r # s => Older(r, s) \/ Older(s, r)
  BY <1>1 DEF Older
<1>4. \A r, s, t \in Rows : Older(r, s) /\ Older(s, t) => Older(r, t)
  BY <1>1 DEF Older
<1> QED BY <1>1, <1>2, <1>3, <1>4

LEMMA RowsFinite == \A S \in SUBSET Rows : IsFiniteSet(S) /\ Cardinality(S) \in Nat
<1>1. Rows = 1 .. Len(Stamp) /\ Len(Stamp) \in Nat
  BY HistoryAssumption DEF Rows
<1>2. IsFiniteSet(Rows)
  BY <1>1, FS_Interval
<1> QED BY <1>2, FS_Subset, FS_CardinalityType

LEMMA LeastNumber ==
    ASSUME NEW S \in SUBSET Nat, S # {}
    PROVE  \E i \in S : \A j \in S : i <= j
<1>1. PICK i \in S : \A j \in S : <<j, i>> \notin OpToRel(<, Nat)
  BY NatLessThanWellFounded, WFMin, Zenon
<1>2. \A j \in S : ~ (j < i)
  BY <1>1, Zenon DEF OpToRel
<1> QED BY <1>2

\* Some row of a set is older than all others of it.
LEMMA OldestExists ==
    ASSUME NEW S \in SUBSET Rows, S # {}
    PROVE  /\ Oldest(S) \in S /\ \A s \in S \ {Oldest(S)} : Older(Oldest(S), s)
           /\ \A r \in S : (\A s \in S : ~Older(s, r)) => r = Oldest(S)
<1> DEFINE stamps == {Stamp[r] : r \in S}
<1>1. \A r \in S : r \in Nat /\ Stamp[r] \in Nat
  BY RowsOrdered
<1>2. stamps \in SUBSET Nat /\ stamps # {}
  BY <1>1
<1>3. PICK m \in stamps : \A n \in stamps : m <= n
  BY <1>2, LeastNumber
<1> DEFINE first == {r \in S : Stamp[r] = m}
<1>4. first \in SUBSET Nat /\ first # {}
  BY <1>1, <1>3
<1>5. PICK r \in first : \A s \in first : r <= s
  BY <1>4, LeastNumber
<1>6. r \in S /\ \A s \in S \ {r} : Older(r, s)
  <2> SUFFICES ASSUME NEW s \in S, s # r  PROVE Older(r, s)
    BY <1>5
  <2>1. Stamp[r] = m /\ m <= Stamp[s] /\ r \in Nat /\ s \in Nat /\ m \in Nat /\ Stamp[s] \in Nat
    BY <1>1, <1>3, <1>5
  <2>2. Stamp[s] = m => r <= s
    BY <1>5
  <2> QED BY <2>1, <2>2 DEF Older
<1>7. Oldest(S) \in S /\ \A s \in S \ {Oldest(S)} : Older(Oldest(S), s)
  BY <1>6, Zenon DEF Oldest
<1>8. \A q \in S : (\A s \in S : ~Older(s, q)) => q = Oldest(S)
  BY <1>7
<1> QED BY <1>7, <1>8

\* Some row of a set is newer than all others of it: the one with the fewest
\* rows behind it.
LEMMA NewestExists ==
    ASSUME NEW S \in SUBSET Rows, S # {}
    PROVE  \E r \in S : NewerIn(r, S) = {}
<1> DEFINE card(r) == Cardinality(NewerIn(r, S))
           cards == {card(r) : r \in S}
<1>1. \A r \in S : NewerIn(r, S) \in SUBSET Rows /\ IsFiniteSet(NewerIn(r, S)) /\ card(r) \in Nat
  <2>1. \A r \in S : NewerIn(r, S) \in SUBSET Rows
    BY DEF NewerIn
  <2> QED BY <2>1, RowsFinite
<1>2. cards \in SUBSET Nat /\ cards # {}
  BY <1>1
<1>3. PICK c \in cards : \A d \in cards : c <= d
  BY <1>2, LeastNumber
<1>4. PICK r \in S : c = card(r)
  OBVIOUS
<1>5. ASSUME NEW s \in NewerIn(r, S)  PROVE FALSE
  <2>1. s \in S /\ Older(r, s)
    BY DEF NewerIn
  <2>2. NewerIn(s, S) \in SUBSET NewerIn(r, S) /\ s \notin NewerIn(s, S)
    BY <2>1, RowsOrdered DEF NewerIn
  <2>3. card(s) <= card(r) /\ card(s) # card(r)
    BY <1>1, <1>5, <2>2, FS_Subset
  <2>4. card(r) <= card(s)
    BY <1>3, <1>4, <2>1
  <2> QED BY <1>1, <2>1, <2>3, <2>4
<1> QED BY <1>5

\* What a page of n rows holds: at most n rows, and all rows when it has fewer
\* than n, or when there are no more than n.
LEMMA PageOf ==
    ASSUME NEW S \in SUBSET Rows, NEW n \in Nat \ {0}
    PROVE  /\ Newest(n, S) \in SUBSET S
           /\ S # {} => Newest(n, S) # {}
           /\ Cardinality(Newest(n, S)) <= n
           /\ Cardinality(Newest(n, S)) < n => Newest(n, S) = S
           /\ Cardinality(S) <= n => Newest(n, S) = S
<1> DEFINE page == Newest(n, S)
<1>1. /\ page = {r \in S : Cardinality(NewerIn(r, S)) < n} /\ page \in SUBSET S
  BY DEF Newest, NewerIn
<1> HIDE DEF page
<1>2. \A r \in S : /\ NewerIn(r, S) \in SUBSET S /\ NewerIn(r, S) \in SUBSET Rows
                   /\ IsFiniteSet(NewerIn(r, S)) /\ Cardinality(NewerIn(r, S)) \in Nat
  <2>1. \A r \in S : NewerIn(r, S) \in SUBSET S
    BY DEF NewerIn
  <2> QED BY <2>1, RowsFinite
<1>3. /\ IsFiniteSet(S) /\ Cardinality(S) \in Nat
      /\ IsFiniteSet(page) /\ Cardinality(page) \in Nat
  BY <1>1, RowsFinite
<1>4. ASSUME S # {}  PROVE page # {}
  <2>1. PICK r \in S : NewerIn(r, S) = {}
    BY <1>4, NewestExists
  <2>2. Cardinality(NewerIn(r, S)) = 0
    BY <2>1, FS_EmptySet
  <2> QED BY <1>1, <2>2
<1>5. Cardinality(page) <= n
  <2>1. CASE page = {}
    BY <1>3, <2>1, FS_EmptySet
  <2>2. CASE page # {}
    <3> DEFINE r == Oldest(page)
    <3>1. r \in page /\ \A s \in page \ {r} : Older(r, s)
      BY <1>1, <2>2, OldestExists
    <3> HIDE DEF r
    <3>2. page \ {r} \in SUBSET NewerIn(r, S)
      BY <1>1, <3>1 DEF NewerIn
    <3>3. Cardinality(page \ {r}) <= Cardinality(NewerIn(r, S))
      BY <1>1, <1>2, <3>1, <3>2, FS_Subset
    <3>4. Cardinality(page \ {r}) = Cardinality(page) - 1
      BY <1>3, <3>1, FS_RemoveElement
    <3>5. Cardinality(NewerIn(r, S)) < n /\ Cardinality(NewerIn(r, S)) \in Nat
      BY <1>1, <1>2, <3>1
    <3> QED BY <1>3, <3>3, <3>4, <3>5
  <2> QED BY <2>1, <2>2
<1>6. ASSUME Cardinality(page) < n  PROVE page = S
  <2> SUFFICES ASSUME S \ page # {}  PROVE FALSE
    BY <1>1
  <2>1. S \ page \in SUBSET Rows
    OBVIOUS
  <2>2. PICK r \in S \ page : NewerIn(r, S \ page) = {}
    BY <2>1, NewestExists
  <2>3. NewerIn(r, S) \in SUBSET page
    BY <2>2 DEF NewerIn
  <2>4. Cardinality(NewerIn(r, S)) <= Cardinality(page)
    BY <1>3, <2>3, FS_Subset
  <2>5. ~(Cardinality(NewerIn(r, S)) < n)
    BY <1>1
  <2> QED BY <1>2, <1>3, <1>6, <2>4, <2>5
<1>7. ASSUME Cardinality(S) <= n  PROVE page = S
  <2> SUFFICES ASSUME NEW r \in S  PROVE Cardinality(NewerIn(r, S)) < n
    BY <1>1
  <2>1. NewerIn(r, S) \in SUBSET S /\ r \notin NewerIn(r, S)
    BY RowsOrdered DEF NewerIn
  <2>2. /\ Cardinality(NewerIn(r, S)) <= Cardinality(S)
        /\ Cardinality(NewerIn(r, S)) # Cardinality(S)
    BY <1>3, <2>1, FS_Subset
  <2> QED BY <1>2, <1>3, <1>7, <2>2
<1> QED BY <1>1, <1>4, <1>5, <1>6, <1>7 DEF page

\* A batch with more behind it starts at its cursor; one with nothing behind it
\* has the oldest row, unless that is in the room already.
BatchKept(b) ==
    /\ b.rows \subseteq stored
    /\ b.cursor # 0 => b.cursor \in bridged \cup b.rows
    /\ ~b.more => stored = {} \/ Oldest(stored) \in bridged \cup b.rows

Batches == [rows : SUBSET Rows, cursor : Nat, more : BOOLEAN, sent : BOOLEAN, recovery : BOOLEAN]
DrainPCs == {"off", "wait", "idle", "send"}
Tasks == [state : {"none", "stranded", "armed", "done"}, cursor : Nat]
ForwardStates ==
    [pc : {"none", "queued", "sending", "done", "failed"}, todo : SUBSET Rows, sent : BOOLEAN]

HistoryTypes ==
    /\ stored \subseteq Rows /\ bridged \subseteq stored
    /\ forward \in ForwardStates /\ forward.todo \subseteq stored
    /\ task \in Tasks
    /\ drain \in [Loops -> [pc : DrainPCs, batch : Batches]]

OneLoopRuns ==
    \A l \in Loops : /\ drain[l].pc # "off" => registered = {l} /\ boot = "up"
                     /\ drain[l].pc # "send" => drain[l].batch = NoBatch

BatchesKept == \A l \in Loops : drain[l].pc = "send" => BatchKept(drain[l].batch)

HistoryInv ==
    /\ HistoryTypes /\ OneLoopRuns /\ BatchesKept
    /\ task.cursor # 0 => task.cursor \in bridged
    /\ DoneMeansReached

LEMMA RowsAreNumbers == Rows \subseteq Nat /\ NoBatch \in Batches
<1>1. \A r \in Rows : r \in Nat
  BY RowsOrdered
<1> QED BY <1>1 DEF NoBatch, Batches

\* A page before a row that is in the room.
LEMMA PageBefore ==
    ASSUME HistoryTypes, NEW before \in bridged
    PROVE  LET found == listBackwardMessages(before, Count + 1)
               b == Batch(Newest(Count, found), Cardinality(found) > Count, FALSE)
           IN  b \in Batches /\ BatchKept(b)
<1> DEFINE older == {r \in stored : Older(r, before)}
           found == Newest(Count + 1, older)
           rows == Newest(Count, found)
           more == Cardinality(found) > Count
           b == Batch(rows, more, FALSE)
<1>0. /\ Count \in Nat \ {0} /\ Count + 1 \in Nat \ {0}
      /\ stored \subseteq Rows /\ before \in stored
  BY HistoryAssumption DEF HistoryTypes
<1>1. older \in SUBSET Rows
  BY <1>0
<1>2. /\ found \in SUBSET older
      /\ Cardinality(found) < Count + 1 => found = older
  BY <1>0, <1>1, PageOf
<1> HIDE DEF found
<1>3. /\ found \in SUBSET Rows /\ IsFiniteSet(found) /\ Cardinality(found) \in Nat
  BY <1>1, <1>2, RowsFinite
<1>4. /\ rows \in SUBSET found
      /\ found # {} => rows # {}
      /\ Cardinality(found) <= Count => rows = found
  BY <1>0, <1>3, PageOf
<1> HIDE DEF rows
<1>5. more => rows # {}
  <2>1. found = {} => Cardinality(found) = 0
    BY FS_EmptySet
  <2> QED BY <1>0, <1>3, <1>4, <2>1
<1>6. rows \in SUBSET Rows /\ rows # {} => Oldest(rows) \in rows
  BY OldestExists
<1>7. b = [rows |-> rows, cursor |-> IF more THEN Oldest(rows) ELSE 0, more |-> more, sent |-> FALSE,
           recovery |-> FALSE]
  BY DEF Batch
<1>8. more \in BOOLEAN /\ rows \in SUBSET Rows
  BY <1>3, <1>4
<1>9. ~more => stored = {} \/ Oldest(stored) \in bridged \cup rows
  <2> SUFFICES ASSUME ~more  PROVE Oldest(stored) \in bridged \cup rows
    OBVIOUS
  <2>1. rows = older
    BY <1>0, <1>2, <1>3, <1>4
  <2>2. stored # {} /\ stored \in SUBSET Rows
    BY <1>0
  <2>3. /\ Oldest(stored) \in stored
        /\ \A r \in stored : (\A s \in stored : ~Older(s, r)) => r = Oldest(stored)
        /\ \A s \in stored \ {Oldest(stored)} : Older(Oldest(stored), s)
    BY <2>2, OldestExists
  <2>4. CASE Oldest(stored) = before
    BY <2>4
  <2>5. CASE Oldest(stored) # before
    <3>1. Older(Oldest(stored), before)
      BY <1>0, <2>3, <2>5
    <3> QED BY <2>1, <2>3, <3>1
  <2> QED BY <2>4, <2>5
<1>12. older \subseteq stored
  OBVIOUS
<1> HIDE DEF more, older, b
<1>10. b \in Batches
  <2>1. more => Oldest(rows) \in Nat
    BY <1>5, <1>6, <1>8, RowsAreNumbers
  <2>2. (IF more THEN Oldest(rows) ELSE 0) \in Nat
    BY <2>1
  <2> QED BY <1>7, <1>8, <2>2 DEF Batches
<1>11. BatchKept(b)
  <2>1. rows \subseteq stored
    BY <1>2, <1>4, <1>12, Zenon
  <2> QED BY <1>5, <1>6, <1>7, <1>8, <1>9, <2>1 DEF BatchKept
<1> QED BY <1>10, <1>11 DEF listBackwardMessages, older, found, rows, more, b

\* The batch that recovers a conversation without an anchor.
LEMMA RecoveryPage ==
    ASSUME HistoryTypes, NEW failed
    PROVE  Recovered(failed) \in Batches /\ BatchKept(Recovered(failed))
<1> DEFINE rows == Newest(Count, stored)
           more == Cardinality(rows) = Count
<1>1. Count \in Nat \ {0} /\ stored \in SUBSET Rows
  BY HistoryAssumption DEF HistoryTypes
<1>2. /\ rows \in SUBSET stored /\ Cardinality(rows) <= Count
      /\ stored # {} => rows # {}
      /\ Cardinality(rows) < Count => rows = stored
  BY <1>1, PageOf
<1>3. Cardinality(rows) \in Nat /\ rows \in SUBSET Rows
  BY <1>1, <1>2, RowsFinite
<1> HIDE DEF rows
<1>4. ~more => rows = stored
  BY <1>1, <1>2, <1>3
<1>5. CASE failed = "recovery"
  <2>1. Recovered(failed) = [rows |-> {}, cursor |-> 0, more |-> TRUE, sent |-> FALSE, recovery |-> FALSE]
    BY <1>5 DEF Recovered, Nothing, NoBatch
  <2> QED BY <2>1 DEF Batches, BatchKept
<1>6. CASE failed # "recovery" /\ stored = {}
  <2>1. Recovered(failed) = [rows |-> {}, cursor |-> 0, more |-> FALSE, sent |-> FALSE, recovery |-> FALSE]
    BY <1>6 DEF Recovered, Nothing, NoBatch
  <2> QED BY <1>6, <2>1 DEF Batches, BatchKept
<1>7. CASE failed # "recovery" /\ stored # {}
  <2>1. Recovered(failed) = [rows |-> rows, cursor |-> IF more THEN Oldest(rows) ELSE 0, more |-> more,
                             sent |-> FALSE, recovery |-> TRUE]
    BY <1>7 DEF Recovered, listLatestMessages, Batch, rows
  <2>2. Oldest(rows) \in rows /\ Oldest(rows) \in Nat
    BY <1>2, <1>3, <1>7, OldestExists, RowsAreNumbers
  <2>3. ~more => Oldest(stored) \in rows
    BY <1>4, <2>2
  <2>4. more \in BOOLEAN
    OBVIOUS
  <2> HIDE DEF more
  <2>5. Recovered(failed) \in Batches
    BY <1>3, <2>1, <2>2, <2>4 DEF Batches
  <2>6. BatchKept(Recovered(failed))
    BY <1>2, <2>1, <2>2, <2>3, <2>4 DEF BatchKept
  <2> QED BY <2>5, <2>6
<1> QED BY <1>5, <1>6, <1>7

\* A batch goes to the loop that asked for it.
LEMMA BatchAnswered ==
    ASSUME HistoryInv, NEW l \in Loops, drain[l].pc = "idle",
           NEW b \in Batches, BatchKept(b), Respond(l, b)
    PROVE  HistoryInv'
<1>1. /\ drain' = [drain EXCEPT ![l] = [pc |-> "send", batch |-> b]]
      /\ UNCHANGED <<stored, bridged, forward, task, fresh, boot, registered>>
  BY DEF Respond
<1>2. [pc |-> "send", batch |-> b] \in [pc : DrainPCs, batch : Batches]
  BY DEF DrainPCs
<1>3. HistoryTypes'
  BY <1>1, <1>2 DEF HistoryInv, HistoryTypes
<1>4. /\ drain'[l].pc = "send" /\ drain'[l].batch = b
      /\ \A m \in Loops : m # l => drain'[m] = drain[m]
  BY <1>1 DEF HistoryInv, HistoryTypes
<1>5. OneLoopRuns'
  BY <1>1, <1>4 DEF HistoryInv, OneLoopRuns
<1>6. BatchesKept'
  BY <1>1, <1>4 DEF HistoryInv, BatchesKept, BatchKept
<1>7. DoneMeansReached' = DoneMeansReached
  BY <1>1 DEF DoneMeansReached
<1> QED BY <1>1, <1>3, <1>5, <1>6, <1>7 DEF HistoryInv

\* Steps that leave the loops, the task and the rows in the room alone.
LEMMA LoopsUntouched ==
    ASSUME HistoryInv, UNCHANGED <<bridged, drain, registered>>,
           stored' = stored \/ (boot # "up" /\ stored \subseteq stored' /\ stored' \subseteq Rows),
           boot' = boot \/ boot # "up",
           forward' \in ForwardStates, forward'.todo \subseteq stored,
           task' \in Tasks, task'.cursor # 0 => task'.cursor = task.cursor,
           DoneMeansReached'
    PROVE  HistoryInv'
<1>1. stored \subseteq stored' /\ stored' \subseteq Rows
  BY DEF HistoryInv, HistoryTypes
<1>2. HistoryTypes'
  BY <1>1 DEF HistoryInv, HistoryTypes
<1>3. OneLoopRuns'
  BY DEF HistoryInv, OneLoopRuns
<1>4. BatchesKept'
  <2> SUFFICES ASSUME NEW l \in Loops, drain[l].pc = "send"  PROVE BatchKept(drain[l].batch)'
    BY DEF BatchesKept
  <2>1. boot = "up" /\ BatchKept(drain[l].batch)
    BY DEF HistoryInv, OneLoopRuns, BatchesKept
  <2> QED BY <2>1 DEF BatchKept
<1> QED BY <1>2, <1>3, <1>4 DEF HistoryInv

\* The start of the bridge.
LEMMA BootSteps ==
    ASSUME HistoryInv, Boots
    PROVE  HistoryInv'
<1>t. /\ stored \subseteq Rows /\ forward.todo \subseteq stored
      /\ forward \in ForwardStates
      /\ task \in Tasks
  BY DEF HistoryInv, HistoryTypes
<1>1. CASE reconcileStrandedBackfills
  <2>1. /\ UNCHANGED <<stored, bridged, forward, fresh, registered, drain>> /\ boot = "reconcile"
        /\ task' = task \/ task' = [task EXCEPT !.state = "armed"]
    BY <1>1 DEF reconcileStrandedBackfills
  <2>2. task' \in Tasks /\ task'.cursor = task.cursor
        /\ (task' = task \/ task'.state = "armed")
    BY <1>t, <2>1 DEF Tasks
  <2>3. DoneMeansReached'
    BY <2>1, <2>2 DEF HistoryInv, DoneMeansReached
  <2> QED BY <1>t, <2>1, <2>2, <2>3, LoopsUntouched
<1>2. CASE IngestLate
  <2>1. /\ UNCHANGED <<bridged, forward, task, registered, drain>> /\ boot = "ingest"
        /\ (stored' = stored /\ fresh' = fresh) \/ (stored' = stored \cup Late /\ fresh' = TRUE)
    BY <1>2 DEF IngestLate
  <2>2. stored \subseteq stored' /\ stored' \subseteq Rows
    BY <1>t, <2>1, HistoryAssumption DEF Rows
  <2>3. DoneMeansReached'
    BY <2>1 DEF HistoryInv, DoneMeansReached
  <2> QED BY <1>t, <2>1, <2>2, <2>3, LoopsUntouched
<1>3. CASE createPortalsFromCloudSync
  <2>1. /\ UNCHANGED <<stored, bridged, fresh, registered, drain>> /\ boot = "portals"
        /\ forward' = forward \/ forward' = [NoForward EXCEPT !.pc = "queued"]
        /\ task' = task \/ task' = [state |-> "armed", cursor |-> 0]
    BY <1>3 DEF createPortalsFromCloudSync
  <2>2. forward' \in ForwardStates /\ forward'.todo \subseteq stored
    BY <1>t, <2>1 DEF NoForward, ForwardStates
  <2>3. /\ task' \in Tasks /\ (task'.cursor # 0 => task'.cursor = task.cursor)
        /\ task' = task \/ task'.state = "armed"
    BY <1>t, <2>1 DEF Tasks
  <2>4. DoneMeansReached'
    BY <2>1, <2>3 DEF HistoryInv, DoneMeansReached
  <2> QED BY <1>t, <2>1, <2>2, <2>3, <2>4, LoopsUntouched
<1> QED BY <1>1, <1>2, <1>3 DEF Boots

\* Rows reach the room: what is under way stays kept.
LEMMA RoomGrows ==
    ASSUME HistoryInv, bridged \subseteq bridged', bridged' \subseteq stored,
           UNCHANGED <<stored, drain, registered, boot, task, fresh>>,
           forward' \in ForwardStates, forward'.todo \subseteq stored
    PROVE  HistoryInv'
<1>1. HistoryTypes'
  BY DEF HistoryInv, HistoryTypes
<1>2. OneLoopRuns'
  BY DEF HistoryInv, OneLoopRuns
<1>3. BatchesKept'
  BY DEF HistoryInv, BatchesKept, BatchKept
<1>4. DoneMeansReached'
  BY DEF HistoryInv, DoneMeansReached
<1> QED BY <1>1, <1>2, <1>3, <1>4 DEF HistoryInv

\* Forward backfill.
LEMMA ForwardSteps ==
    ASSUME HistoryInv, Forwards \/ ForwardFails
    PROVE  HistoryInv'
<1>t. /\ stored \subseteq Rows /\ forward.todo \subseteq stored /\ forward \in ForwardStates
      /\ bridged \subseteq stored
  BY DEF HistoryInv, HistoryTypes
<1>1. CASE ForwardFetches
  <2>1. UNCHANGED <<bridged, stored, drain, registered, boot, task, fresh>>
    BY <1>1 DEF ForwardFetches
  <2>2. forward' \in ForwardStates /\ forward'.todo \subseteq stored
    <3>1. CASE forward' = [forward EXCEPT !.pc = "failed"]
      BY <1>t, <3>1 DEF ForwardStates
    <3>2. CASE \E todo \in IF bridged = {} THEN {listLatestMessages(Len(Stamp))}
                           ELSE {listForwardMessages(a) : a \in LastBridged} :
                 forward' = [forward EXCEPT !.pc = IF todo = {} THEN "done" ELSE "sending",
                                            !.todo = todo]
      <4>1. PICK todo \in IF bridged = {} THEN {listLatestMessages(Len(Stamp))}
                          ELSE {listForwardMessages(a) : a \in LastBridged} :
                 forward' = [forward EXCEPT !.pc = IF todo = {} THEN "done" ELSE "sending",
                                            !.todo = todo]
        BY <3>2
      <4>2. todo \subseteq stored
        <5>1. \A a : listForwardMessages(a) \subseteq stored
          BY DEF listForwardMessages
        <5>2. listLatestMessages(Len(Stamp)) \subseteq stored
          BY DEF listLatestMessages, Newest
        <5> QED BY <5>1, <5>2
      <4> QED BY <1>t, <4>1, <4>2 DEF ForwardStates
    <3> QED BY <1>1, <3>1, <3>2 DEF ForwardFetches
  <2> QED BY <1>t, <2>1, <2>2, RoomGrows
<1>2. CASE ForwardSends
  <2> DEFINE r == Oldest(forward.todo)
  <2>1. /\ bridged' = bridged \cup {r} /\ forward.todo # {}
        /\ forward' = [forward EXCEPT !.todo = @ \ {r}, !.sent = TRUE]
        /\ UNCHANGED <<stored, drain, registered, boot, task, fresh>>
    BY <1>2 DEF ForwardSends
  <2>2. r \in forward.todo
    BY <1>t, <2>1, OldestExists
  <2> HIDE DEF r
  <2>3. forward' \in ForwardStates /\ forward'.todo \subseteq stored
    BY <1>t, <2>1 DEF ForwardStates
  <2> QED BY <1>t, <2>1, <2>2, <2>3, RoomGrows
<1>3. CASE ForwardCompletes
  <2>1. /\ forward' = [NoForward EXCEPT !.pc = "done"]
        /\ UNCHANGED <<bridged, stored, drain, registered, boot, task, fresh>>
    BY <1>3 DEF ForwardCompletes
  <2>2. forward' \in ForwardStates /\ forward'.todo \subseteq stored
    BY <2>1 DEF NoForward, ForwardStates
  <2> QED BY <1>t, <2>1, <2>2, RoomGrows
<1>4. CASE ForwardFails
  <2>1. /\ forward' = [NoForward EXCEPT !.pc = "failed"]
        /\ UNCHANGED <<bridged, stored, drain, registered, boot, task, fresh>>
    BY <1>4 DEF ForwardFails
  <2>2. forward' \in ForwardStates /\ forward'.todo \subseteq stored
    BY <2>1 DEF NoForward, ForwardStates
  <2> QED BY <1>t, <2>1, <2>2, RoomGrows
<1> QED BY <1>1, <1>2, <1>3, <1>4 DEF Forwards

\* A loop changes its state and takes or leaves no batch.
LEMMA LoopTurns ==
    ASSUME HistoryInv, NEW l \in Loops, NEW pc \in {"wait", "idle"}, boot = "up", registered' = {l},
           \A m \in Loops : m # l => drain[m].pc = "off",
           drain' = [drain EXCEPT ![l] = [pc |-> pc, batch |-> NoBatch]],
           UNCHANGED <<stored, bridged, forward, boot>>,
           task' \in Tasks, task'.cursor # 0 => task'.cursor \in bridged, DoneMeansReached'
    PROVE  HistoryInv'
<1>1. [pc |-> pc, batch |-> NoBatch] \in [pc : DrainPCs, batch : Batches]
  BY RowsAreNumbers DEF DrainPCs
<1>2. HistoryTypes'
  BY <1>1 DEF HistoryInv, HistoryTypes
<1>3. /\ drain'[l].pc = pc /\ drain'[l].batch = NoBatch
      /\ \A m \in Loops : m # l => drain'[m] = drain[m]
  BY DEF HistoryInv, HistoryTypes
<1>4. OneLoopRuns'
  BY <1>3 DEF HistoryInv, OneLoopRuns
<1>5. BatchesKept'
  BY <1>3 DEF HistoryInv, BatchesKept
<1> QED BY <1>2, <1>4, <1>5 DEF HistoryInv

\* Only one loop runs.
LEMMA OthersAreOff ==
    ASSUME HistoryInv, NEW l \in Loops, drain[l].pc # "off"
    PROVE  registered = {l} /\ boot = "up" /\ \A m \in Loops : m # l => drain[m].pc = "off"
  BY DEF HistoryInv, OneLoopRuns

\* A row of the batch reaches the room.
LEMMA BatchSent ==
    ASSUME HistoryInv, NEW l \in Loops, SendBatch(l)
    PROVE  HistoryInv'
<1> DEFINE old == drain[l].batch
           r == Oldest(old.rows)
<1>1. /\ drain[l].pc = "send" /\ old.rows # {} /\ bridged' = bridged \cup {r}
      /\ UNCHANGED <<stored, forward, task, fresh, boot, registered>>
  BY DEF SendBatch
<1>2. /\ old \in Batches /\ BatchKept(old)
      /\ drain \in [Loops -> [pc : DrainPCs, batch : Batches]]
      /\ bridged \subseteq stored /\ stored \subseteq Rows
  BY <1>1 DEF HistoryInv, HistoryTypes, BatchesKept
<1>3. r \in old.rows
  BY <1>1, <1>2, OldestExists DEF Batches
<1>4. drain' = [drain EXCEPT ![l].batch = [old EXCEPT !.rows = @ \ {r}, !.sent = TRUE]]
  BY DEF SendBatch
<1> HIDE DEF r
<1>5. /\ drain' \in [Loops -> [pc : DrainPCs, batch : Batches]]
      /\ drain'[l].pc = "send" /\ drain'[l].batch.rows = old.rows \ {r}
      /\ drain'[l].batch.cursor = old.cursor /\ drain'[l].batch.more = old.more
      /\ \A m \in Loops : m # l => drain'[m] = drain[m]
  <2>1. \A m \in Loops : m # l => drain'[m] = drain[m]
    BY <1>2, <1>4
  <2>2. drain'[l].batch = [old EXCEPT !.rows = @ \ {r}, !.sent = TRUE]
    BY <1>2, <1>4
  <2>3. /\ drain'[l].batch \in Batches /\ drain'[l].batch.rows = old.rows \ {r}
        /\ drain'[l].batch.cursor = old.cursor /\ drain'[l].batch.more = old.more
    BY <1>2, <2>2 DEF Batches
  <2>4. drain'[l].pc = "send"
    BY <1>1, <1>2, <1>4
  <2>5. drain'[l] = [pc |-> "send", batch |-> drain'[l].batch]
    BY <1>1, <1>2, <1>4
  <2>6. drain' \in [Loops -> [pc : DrainPCs, batch : Batches]]
    BY <1>2, <1>4, <2>1, <2>3, <2>5 DEF DrainPCs
  <2> QED BY <2>1, <2>3, <2>4, <2>6
<1>6. PICK b : b = drain'[l].batch
  OBVIOUS
<1>7. b.rows = old.rows \ {r} /\ b.cursor = old.cursor /\ b.more = old.more
  BY <1>5, <1>6
<1> HIDE DEF old
<1>8. HistoryTypes'
  <2>1. bridged' \subseteq stored
    BY <1>1, <1>2, <1>3 DEF BatchKept
  <2> QED BY <1>1, <1>5, <2>1 DEF HistoryInv, HistoryTypes
<1>9. BatchKept(b)'
  BY <1>1, <1>2, <1>3, <1>7 DEF BatchKept
<1>10. OneLoopRuns'
  BY <1>1, <1>5 DEF HistoryInv, OneLoopRuns
<1>11. BatchesKept'
  <2>1. \A m \in Loops : m # l => drain'[m].pc = "off"
    <3>1. \A m \in Loops : m # l => drain[m].pc = "off"
      BY <1>1, OthersAreOff
    <3> QED BY <1>5, <3>1
  <2>2. \A m \in Loops : drain'[m].pc = "send" => drain'[m].batch = b
    BY <1>6, <2>1
  <2> QED BY <1>9, <2>2 DEF BatchesKept
<1>12. DoneMeansReached'
  BY <1>1 DEF HistoryInv, DoneMeansReached
<1>13. task'.cursor # 0 => task'.cursor \in bridged'
  BY <1>1 DEF HistoryInv
<1> QED BY <1>8, <1>10, <1>11, <1>12, <1>13 DEF HistoryInv

\* The drain loop.
LEMMA DrainSteps ==
    ASSUME HistoryInv, NEW l \in Loops, Drains(l)
    PROVE  HistoryInv'
<1>t. /\ drain[l] \in [pc : DrainPCs, batch : Batches] /\ task \in Tasks
      /\ drain \in [Loops -> [pc : DrainPCs, batch : Batches]]
      /\ task.cursor # 0 => task.cursor \in bridged
      /\ HistoryTypes /\ DoneMeansReached
  BY DEF HistoryInv, HistoryTypes
<1>1. CASE startSynapseBackfillDrain(l)
  <2>1. /\ boot = "up" /\ drain[l].pc = "off" /\ registered = {} /\ registered' = {l}
        /\ drain' = [drain EXCEPT ![l] = [@ EXCEPT !.pc = "wait"]]
        /\ UNCHANGED <<stored, bridged, forward, boot, task, fresh>>
    BY <1>1 DEF startSynapseBackfillDrain
  <2>2. drain[l].batch = NoBatch /\ \A m \in Loops : drain[m].pc = "off"
    BY <2>1 DEF HistoryInv, OneLoopRuns
  <2>3. drain' = [drain EXCEPT ![l] = [pc |-> "wait", batch |-> NoBatch]]
    <3>1. [drain[l] EXCEPT !.pc = "wait"] = [pc |-> "wait", batch |-> NoBatch]
      BY <1>t, <2>2
    <3> QED BY <2>1, <3>1, Zenon
  <2>4. DoneMeansReached'
    BY <1>t, <2>1 DEF DoneMeansReached
  <2> QED BY <1>t, <2>1, <2>2, <2>3, <2>4, LoopTurns
<1>2. CASE waitForStart(l)
  <2>1. /\ drain[l].pc = "wait" /\ drain' = [drain EXCEPT ![l] = [@ EXCEPT !.pc = "idle"]]
        /\ UNCHANGED <<stored, bridged, forward, boot, task, fresh, registered>>
    BY <1>2 DEF waitForStart
  <2>2. /\ drain[l].batch = NoBatch /\ registered = {l} /\ boot = "up"
        /\ \A m \in Loops : m # l => drain[m].pc = "off"
    BY <2>1, OthersAreOff DEF HistoryInv, OneLoopRuns
  <2>3. drain' = [drain EXCEPT ![l] = [pc |-> "idle", batch |-> NoBatch]]
    <3>1. [drain[l] EXCEPT !.pc = "idle"] = [pc |-> "idle", batch |-> NoBatch]
      BY <1>t, <2>2
    <3> QED BY <2>1, <3>1, Zenon
  <2>4. DoneMeansReached'
    BY <1>t, <2>1 DEF DoneMeansReached
  <2> QED BY <1>t, <2>1, <2>2, <2>3, <2>4, LoopTurns
<1>3. CASE FetchPage(l)
  <2>1. PICK before \in IF task.cursor # 0 THEN {task.cursor} ELSE FirstBridged :
           LET found == listBackwardMessages(before, Count + 1)
           IN  Respond(l, Batch(Newest(Count, found), Cardinality(found) > Count, FALSE))
    BY <1>3 DEF FetchPage
  <2>2. before \in bridged
    BY <1>t, <2>1 DEF FirstBridged
  <2> DEFINE found == listBackwardMessages(before, Count + 1)
             b == Batch(Newest(Count, found), Cardinality(found) > Count, FALSE)
  <2>3. b \in Batches /\ BatchKept(b)
    BY <1>t, <2>2, PageBefore
  <2>4. Respond(l, b) /\ drain[l].pc = "idle"
    BY <1>3, <2>1 DEF FetchPage, Dispatched
  <2> HIDE DEF b
  <2> QED BY <2>3, <2>4, BatchAnswered
<1>4. ASSUME NEW failed \in Failures, FetchWithoutAnchor(l, failed)  PROVE HistoryInv'
  <2>1. drain[l].pc = "idle"
    BY <1>4 DEF FetchWithoutAnchor, Dispatched
  <2>2. \/ Respond(l, Nothing(TRUE))
        \/ Respond(l, Nothing(FALSE)) /\ stored = {}
        \/ Respond(l, Recovered(failed))
    BY <1>4 DEF FetchWithoutAnchor, HasHistory
  <2>3. /\ Nothing(TRUE) \in Batches /\ BatchKept(Nothing(TRUE))
        /\ Nothing(FALSE) \in Batches /\ (stored = {} => BatchKept(Nothing(FALSE)))
    BY DEF Nothing, NoBatch, Batches, BatchKept
  <2>4. Recovered(failed) \in Batches /\ BatchKept(Recovered(failed))
    BY <1>t, RecoveryPage
  <2>5. CASE Respond(l, Nothing(TRUE))
    BY <2>1, <2>3, <2>5, BatchAnswered
  <2>6. CASE Respond(l, Nothing(FALSE)) /\ stored = {}
    BY <2>1, <2>3, <2>6, BatchAnswered
  <2>7. CASE Respond(l, Recovered(failed))
    BY <2>1, <2>4, <2>7, BatchAnswered
  <2> QED BY <2>2, <2>5, <2>6, <2>7
<1>5. CASE SendBatch(l)
  BY <1>5, BatchSent
<1>6. CASE FinishTask(l)
  <2> DEFINE b == drain[l].batch
  <2>1. /\ drain[l].pc = "send" /\ b.rows = {} /\ fresh' = FALSE
        /\ task' = [state |-> IF b.more THEN "armed" ELSE "done", cursor |-> b.cursor]
        /\ drain' = [drain EXCEPT ![l] = [pc |-> "idle", batch |-> NoBatch]]
        /\ UNCHANGED <<stored, bridged, forward, boot, registered>>
    BY <1>6 DEF FinishTask
  <2>2. /\ registered = {l} /\ boot = "up" /\ \A m \in Loops : m # l => drain[m].pc = "off"
    BY <2>1, OthersAreOff
  <2>3. b \in Batches /\ BatchKept(b)
    BY <1>t, <2>1 DEF HistoryInv, BatchesKept
  <2> HIDE DEF b
  <2>4. /\ b.cursor \in Nat /\ b.more \in BOOLEAN
        /\ b.cursor # 0 => b.cursor \in bridged
        /\ ~b.more => stored = {} \/ Oldest(stored) \in bridged
    BY <2>1, <2>3 DEF Batches, BatchKept
  <2>5. task' \in Tasks /\ task'.cursor = b.cursor /\ (task'.state = "done" => ~b.more)
    BY <2>1, <2>4 DEF Tasks
  <2>6. DoneMeansReached'
    BY <2>1, <2>4, <2>5 DEF DoneMeansReached
  <2> QED BY <1>t, <2>1, <2>2, <2>4, <2>5, <2>6, LoopTurns
<1> QED BY <1>1, <1>2, <1>3, <1>4, <1>5, <1>6 DEF Drains, Fetches

\* The backfill's books hold for any conversation, page size and number of
\* starts of the loop: a finished task has reached the oldest row, and two
\* loops never hold a row together (FetchMessages, startSynapseBackfillDrain).
THEOREM BooksHold == HistorySpec => []BackfillBooksHold
<1>1. HistoryInit => HistoryInv
  <2> SUFFICES ASSUME HistoryInit  PROVE HistoryInv
    OBVIOUS
  <2>1. stored \subseteq Rows /\ bridged = {} /\ forward = NoForward
        /\ task \in Tasks /\ task.cursor = 0 /\ task.state # "done"
    BY DEF HistoryInit, Tasks
  <2>2. NoForward \in ForwardStates /\ NoForward.todo = {}
    BY DEF NoForward, ForwardStates
  <2>3. /\ drain \in [Loops -> [pc : DrainPCs, batch : Batches]]
        /\ \A l \in Loops : drain[l].pc = "off" /\ drain[l].batch = NoBatch
    BY RowsAreNumbers DEF HistoryInit, NoLoop, DrainPCs
  <2>4. HistoryTypes
    BY <2>1, <2>2, <2>3 DEF HistoryTypes
  <2>5. OneLoopRuns /\ BatchesKept
    BY <2>3 DEF OneLoopRuns, BatchesKept
  <2> QED BY <2>1, <2>4, <2>5 DEF HistoryInv, DoneMeansReached
<1>2. HistoryInv /\ [HistoryNext]_historyVars => HistoryInv'
  <2> SUFFICES ASSUME HistoryInv, [HistoryNext]_historyVars  PROVE HistoryInv'
    OBVIOUS
  <2>t. /\ HistoryTypes /\ task \in Tasks /\ forward \in ForwardStates /\ forward.todo \subseteq stored
    BY DEF HistoryInv, HistoryTypes
  <2>1. CASE Boots
    BY <2>1, BootSteps
  <2>2. CASE Forwards \/ ForwardFails
    BY <2>2, ForwardSteps
  <2>3. CASE HistoryRestart
    <3>1. /\ forward' = NoForward /\ drain' = [l \in Loops |-> NoLoop]
          /\ UNCHANGED <<stored, bridged, task, fresh>>
      BY <2>3 DEF HistoryRestart
    <3>2. NoForward \in ForwardStates /\ NoForward.todo = {}
      BY DEF NoForward, ForwardStates
    <3>3. /\ drain' \in [Loops -> [pc : DrainPCs, batch : Batches]]
          /\ \A l \in Loops : drain'[l].pc = "off" /\ drain'[l].batch = NoBatch
      BY <3>1, RowsAreNumbers DEF NoLoop, DrainPCs
    <3>4. HistoryTypes'
      BY <3>1, <3>2, <3>3 DEF HistoryInv, HistoryTypes
    <3>5. OneLoopRuns' /\ BatchesKept'
      BY <3>3 DEF OneLoopRuns, BatchesKept
    <3>6. DoneMeansReached'
      BY <3>1 DEF HistoryInv, DoneMeansReached
    <3> QED BY <3>1, <3>4, <3>5, <3>6 DEF HistoryInv
  <2>4. ASSUME NEW l \in Loops, Drains(l)  PROVE HistoryInv'
    BY <2>4, DrainSteps
  <2>5. ASSUME UNCHANGED <<stored, bridged, forward, task, fresh, boot, registered, drain>>
        PROVE  HistoryInv'
    BY <2>5 DEF HistoryInv, HistoryTypes, OneLoopRuns, BatchesKept, BatchKept, DoneMeansReached
  <2>6. ASSUME NEW l \in Loops, FetchFails(l)  PROVE HistoryInv'
    BY <2>5, <2>6 DEF FetchFails
  <2>7. CASE UNCHANGED historyVars
    BY <2>5, <2>7 DEF historyVars
  <2> QED BY <2>1, <2>2, <2>3, <2>4, <2>6, <2>7 DEF HistoryNext
<1>3. HistoryInv => BackfillBooksHold
  <2> SUFFICES ASSUME HistoryInv  PROVE BackfillBooksHold
    OBVIOUS
  <2>1. ASSUME NEW l \in Loops, NEW m \in Loops, l # m
        PROVE  drain[l].batch.rows \cap drain[m].batch.rows = {}
    <3>1. drain[l].pc = "off" \/ drain[m].pc = "off"
      BY <2>1, OthersAreOff
    <3>2. drain[l].batch = NoBatch \/ drain[m].batch = NoBatch
      BY <3>1 DEF HistoryInv, OneLoopRuns
    <3> QED BY <3>2 DEF NoBatch
  <2> QED BY <2>1 DEF HistoryInv, BackfillBooksHold, RowsDispatchedOnce
<1> QED BY <1>1, <1>2, <1>3, PTL DEF HistorySpec

-----------------------------------------------------------------------------
(* Retraction.  What a row names is all that its event sent; a redaction   *)
(* works through it; and the head of an event is bridged once only.        *)

Related(h, u) == u = h \/ (split = "chunks" /\ h = 1) \/ (split = "caption" /\ h = 2)
Excused == refused \cup lost
Covered(h) == \A u \in Own : Related(h, u) /\ onDevice[u] = "shown" => u \in Excused

Devices == [Uuids -> {"no", "shown", "retracted"}]
Stubs == [Uuids -> {"none", "live", "deleted"}]
SentRows == [id : Uuids, others : Seq(Own)]
Removals ==
    [pc : {"idle", "track", "send", "settle", "scrub", "next"}, todo : Seq(Own), row : Nat,
     err : BOOLEAN, scrubErr : BOOLEAN]

RetractionTypes ==
    /\ split \in {"chunks", "caption", "puppet", "inbound"}
    /\ out \in [pc : {"idle", "send", "store", "mark", "save", "done"}, next : Nat]
    /\ onDevice \in Devices /\ stub \in Stubs
    /\ sentRows \subseteq SentRows
    /\ remove \in Removals

\* How far the send is; nothing of it is known before it went out.
SendInOrder ==
    /\ out.pc = "idle" => out.next = 1
    /\ out.pc \in {"idle", "send", "store", "mark"} => out.next \in 1 .. LastPiece
    /\ out.pc = "save" => out.next \in 2 .. LastPiece + 1
    /\ out.pc # "done" => \A u \in Own : onDevice[u] # "no" =>
                             u < out.next \/ (u = out.next /\ out.pc \in {"store", "mark"})

\* A message in a queue is on the device; a removal comes after its tombstone.
Events == {"message", "remove"} \X Uuids
QueuesHold ==
    /\ loop \in Seq(Events) /\ fromApple \subseteq {"message", "unsend"} \X Uuids
    /\ \A u \in Uuids : <<"message", u>> \in fromApple => onDevice[u] # "no"
    /\ \A i \in DOMAIN loop : IF loop[i][1] = "message" THEN onDevice[loop[i][2]] # "no"
                                                        ELSE stub[loop[i][2]] = "deleted"

\* A chunk after the head is marked deleted as soon as it is stored.
TailMarked ==
    split = "chunks" => \A u \in 2 .. Chunks :
        /\ \/ onDevice[u] = "no" \/ stub[u] = "deleted" \/ u \in lost
           \/ u = out.next /\ out.pc \in {"store", "mark"}
        /\ HasRow(u) => u \in lost

\* The row that stands for the whole event, once it was saved.
IsHead(h) == (split = "chunks" /\ h = 1) \/ (split = "caption" /\ h = 2)
HeadSaved ==
    out.pc = "done" => \A h \in Own : IsHead(h) /\ onDevice[h] # "no" =>
        HasRow(h) \/ stub[h] = "deleted" \/ h \in redacted \/ Own \subseteq lost

\* Rows and redactions of the user's messages, after the send.
RowsNameAll ==
    \A r \in sentRows : r.id \in Own =>
        /\ out.pc = "done"
        /\ \A u \in Own : Related(r.id, u) /\ onDevice[u] = "shown" =>
               u = r.id \/ u \in ToSet(r.others) \/ u \in Excused

\* What the redaction under way still has to unsend.
ToUnsend == IF remove.pc \in {"track", "send"} THEN ToSet(remove.todo) ELSE ToSet(Tail(remove.todo))
RemovalGoesOn ==
    remove.pc # "idle" =>
        /\ out.pc = "done" /\ remove.todo # <<>> /\ remove.row \in Own
        /\ \A u \in Own : Related(remove.row, u) /\ onDevice[u] = "shown" =>
               u \in ToUnsend \/ u \in Excused

RedactionsCover ==
    \A h \in redacted : h \in Own /\ out.pc = "done" /\ Covered(h)

RetractionInv ==
    /\ RetractionTypes /\ SendInOrder /\ QueuesHold /\ TailMarked /\ HeadSaved
    /\ RowsNameAll /\ RemovalGoesOn /\ RedactionsCover

\* What no step of the trackers, of Apple or of a redaction takes back.
Sticky ==
    /\ onDevice' \in Devices /\ stub' \in Stubs
    /\ \A u \in Uuids : /\ onDevice'[u] = "no" <=> onDevice[u] = "no"
                        /\ onDevice'[u] = "shown" => onDevice[u] = "shown"
                        /\ stub[u] = "deleted" => stub'[u] = "deleted"
    /\ lost \subseteq lost' /\ refused \subseteq refused'

LEMMA OwnUuids ==
    ASSUME RetractionTypes
    PROVE  /\ Chunks \in Nat /\ Chunks >= 2 /\ Own = 1 .. Chunks /\ Own \subseteq Uuids /\ Own \subseteq Nat
           /\ \A u \in Own : u \notin Peer
           /\ LastPiece \in 2 .. Chunks
           /\ split = "chunks" => LastPiece = Chunks
           /\ split # "chunks" => LastPiece = 2
<1>1. Chunks \in Nat /\ Chunks >= 2 /\ Peer \cap (1 .. Chunks) = {}
  BY RetractionAssumption
<1>2. Own = 1 .. Chunks /\ Own \subseteq Uuids /\ Own \subseteq Nat
  BY <1>1 DEF Own, Uuids
<1>3. \A u \in Own : u \notin Peer
  BY <1>1, <1>2
<1>4. /\ LastPiece \in 2 .. Chunks
      /\ split = "chunks" => LastPiece = Chunks
      /\ split # "chunks" => LastPiece = 2
  BY <1>1 DEF LastPiece
<1> QED BY <1>1, <1>2, <1>3, <1>4

\* Before the send is over nothing of it is bridged or redacted.
LEMMA NothingBefore ==
    ASSUME RetractionInv, out.pc # "done"
    PROVE  remove.pc = "idle" /\ redacted = {} /\ \A r \in sentRows : r.id \notin Own
  BY DEF RetractionInv, RowsNameAll, RemovalGoesOn, RedactionsCover

LEMMA StillCovered ==
    ASSUME RetractionTypes, Sticky, UNCHANGED split, NEW h, Covered(h)
    PROVE  Covered(h)'
  BY OwnUuids DEF Covered, Sticky, Related, Excused

\* The redaction under way loses nothing of its work.
LEMMA RemovalStays ==
    ASSUME RetractionInv, Sticky, UNCHANGED <<split, out, remove>>
    PROVE  RemovalGoesOn' /\ remove' \in Removals
<1>1. RetractionTypes
  BY DEF RetractionInv
<1>2. remove' \in Removals
  BY <1>1 DEF RetractionTypes
<1>3. ToUnsend' = ToUnsend
  BY DEF ToUnsend
<1>4. RemovalGoesOn'
  BY <1>1, <1>3, OwnUuids DEF RetractionInv, RemovalGoesOn, Sticky, Related, Excused
<1> QED BY <1>2, <1>4

\* What a row names, and the head's row, as long as the send is over.
RowNamesAll(r) ==
    r.id \in Own => /\ out.pc = "done"
                    /\ \A u \in Own : Related(r.id, u) /\ onDevice[u] = "shown" =>
                           u = r.id \/ u \in ToSet(r.others) \/ u \in Excused

LEMMA RowStays ==
    ASSUME RetractionInv, Sticky, UNCHANGED <<split, out>>, NEW r \in sentRows
    PROVE  RowNamesAll(r)'
<1>1. RetractionTypes
  BY DEF RetractionInv
<1> QED BY <1>1, OwnUuids DEF RetractionInv, RowsNameAll, RowNamesAll, Sticky, Related, Excused

\* Steps after the send, or before it, by which rows come or go.
LEMMA RowsChange ==
    ASSUME RetractionInv, Sticky, QueuesHold', UNCHANGED <<split, out>>,
           sentRows' \subseteq SentRows, remove' \in Removals, RemovalGoesOn',
           redacted \subseteq redacted', RedactionsCover',
           \A r \in sentRows' : r \in sentRows \/ RowNamesAll(r)',
           \A r \in sentRows' : r \in sentRows \/ ~(split = "chunks" /\ r.id \in 2 .. Chunks) \/ r.id \in lost',
           \A r \in sentRows : r \in sentRows' \/ stub'[r.id] = "deleted" \/ r.id \in redacted'
    PROVE  RetractionInv'
<1>t. RetractionTypes
  BY DEF RetractionInv
<1>u. Own \subseteq Uuids /\ (\A u \in 2 .. Chunks : u \in Uuids) /\ LastPiece' = LastPiece
  <2>1. \A u \in 2 .. Chunks : u \in 1 .. Chunks
    BY <1>t, OwnUuids
  <2> QED BY <1>t, <2>1, OwnUuids DEF LastPiece
<1>1. RetractionTypes'
  BY <1>t DEF RetractionTypes, Sticky
<1>2. SendInOrder'
  BY <1>u DEF RetractionInv, SendInOrder, Sticky
<1>3. TailMarked'
  <2> SUFFICES ASSUME split = "chunks", NEW u \in 2 .. Chunks
               PROVE  /\ \/ onDevice'[u] = "no" \/ stub'[u] = "deleted" \/ u \in lost'
                         \/ u = out.next /\ out.pc \in {"store", "mark"}
                      /\ HasRow(u)' => u \in lost'
    BY DEF TailMarked
  <2>1. \/ onDevice[u] = "no" \/ stub[u] = "deleted" \/ u \in lost
        \/ u = out.next /\ out.pc \in {"store", "mark"}
    BY DEF RetractionInv, TailMarked
  <2>2. \/ onDevice'[u] = "no" \/ stub'[u] = "deleted" \/ u \in lost'
        \/ u = out.next /\ out.pc \in {"store", "mark"}
    BY <1>u, <2>1 DEF Sticky
  <2>3. ASSUME NEW r \in sentRows', r.id = u  PROVE u \in lost'
    <3>1. HasRow(u) => u \in lost'
      BY DEF RetractionInv, TailMarked, Sticky
    <3>2. r \in sentRows => HasRow(u)
      BY <2>3 DEF HasRow
    <3> QED BY <2>3, <3>1, <3>2
  <2> QED BY <2>2, <2>3 DEF HasRow
<1>4. HeadSaved'
  <2> SUFFICES ASSUME out.pc = "done", NEW h \in Own, IsHead(h), onDevice'[h] # "no"
               PROVE  HasRow(h)' \/ stub'[h] = "deleted" \/ h \in redacted' \/ Own \subseteq lost'
    BY DEF HeadSaved, IsHead
  <2>1. HasRow(h) \/ stub[h] = "deleted" \/ h \in redacted \/ Own \subseteq lost
    BY <1>u DEF RetractionInv, HeadSaved, Sticky
  <2>2. ASSUME HasRow(h)  PROVE HasRow(h)' \/ stub'[h] = "deleted" \/ h \in redacted'
    <3>1. PICK r \in sentRows : r.id = h
      BY <2>2 DEF HasRow
    <3> QED BY <3>1 DEF HasRow
  <2> QED BY <1>u, <2>1, <2>2 DEF Sticky
<1>5. RowsNameAll'
  BY RowStays DEF RowsNameAll, RowNamesAll
<1> QED BY <1>1, <1>2, <1>3, <1>4, <1>5 DEF RetractionInv

\* Steps that leave the rows alone.
LEMMA RowsAlone ==
    ASSUME RetractionInv, Sticky, QueuesHold', UNCHANGED <<split, out, sentRows, redacted>>,
           remove' \in Removals, RemovalGoesOn'
    PROVE  RetractionInv'
<1>1. RetractionTypes /\ sentRows' \subseteq SentRows
  BY DEF RetractionInv, RetractionTypes
<1>2. RedactionsCover'
  BY <1>1, StillCovered DEF RetractionInv, RedactionsCover
<1> QED BY <1>1, <1>2, RowsChange

\* An event is added to the portal's queue.
LEMMA EventQueued ==
    ASSUME RetractionInv, Sticky, fromApple' \subseteq fromApple \cup {<<"unsend", u>> : u \in Uuids},
           \/ loop' = loop
           \/ \E e \in Events : /\ loop' = Append(loop, e)
                                /\ IF e[1] = "message" THEN onDevice[e[2]] # "no"
                                                        ELSE stub'[e[2]] = "deleted"
    PROVE  QueuesHold'
<1>1. loop \in Seq(Events) /\ Len(loop) \in Nat /\ DOMAIN loop = 1 .. Len(loop)
  BY DEF RetractionInv, QueuesHold
<1>2. \A e \in Events : e[2] \in Uuids
  BY DEF Events
<1>3. \A i \in DOMAIN loop : loop[i] \in Events
  BY <1>1
<1>4. \A i \in DOMAIN loop : IF loop[i][1] = "message" THEN onDevice'[loop[i][2]] # "no"
                                                        ELSE stub'[loop[i][2]] = "deleted"
  BY <1>2, <1>3 DEF RetractionInv, QueuesHold, Sticky
<1>5. /\ fromApple' \subseteq {"message", "unsend"} \X Uuids
      /\ \A u \in Uuids : <<"message", u>> \in fromApple' => onDevice'[u] # "no"
  BY DEF RetractionInv, QueuesHold, Sticky
<1>6. CASE loop' = loop
  BY <1>1, <1>4, <1>5, <1>6 DEF QueuesHold
<1>7. ASSUME NEW e \in Events, loop' = Append(loop, e),
             IF e[1] = "message" THEN onDevice[e[2]] # "no" ELSE stub'[e[2]] = "deleted"
      PROVE  QueuesHold'
  <2> DEFINE longer == Append(loop, e)
  <2>a. /\ longer \in Seq(Events) /\ Len(longer) = Len(loop) + 1 /\ longer[Len(loop) + 1] = e
        /\ \A i \in 1 .. Len(loop) : longer[i] = loop[i]
    BY <1>1
  <2>b. DOMAIN longer = 1 .. Len(loop) + 1 /\ loop' = longer
    BY <1>7, <2>a
  <2> HIDE DEF longer
  <2>1. loop' \in Seq(Events)
    BY <2>a, <2>b
  <2>2. \A i \in DOMAIN loop' : (i \in DOMAIN loop /\ loop'[i] = loop[i]) \/ loop'[i] = e
    BY <1>1, <2>a, <2>b
  <2>3. IF e[1] = "message" THEN onDevice'[e[2]] # "no" ELSE stub'[e[2]] = "deleted"
    BY <1>2, <1>7 DEF Sticky
  <2>4. \A i \in DOMAIN loop' : IF loop'[i][1] = "message" THEN onDevice'[loop'[i][2]] # "no"
                                                            ELSE stub'[loop'[i][2]] = "deleted"
    BY <1>4, <2>2, <2>3
  <2> QED BY <1>5, <2>1, <2>4 DEF QueuesHold
<1> QED BY <1>6, <1>7

LEMMA EventTakenOff ==
    ASSUME RetractionInv, Sticky, UNCHANGED fromApple, loop # <<>>, loop' = Tail(loop)
    PROVE  QueuesHold'
<1>1. loop \in Seq(Events) /\ Len(loop) \in Nat /\ DOMAIN loop = 1 .. Len(loop)
  BY DEF RetractionInv, QueuesHold
<1>2. \A e \in Events : e[2] \in Uuids
  BY DEF Events
<1>3. \A i \in DOMAIN loop : loop[i] \in Events
  BY <1>1
<1>4. \A i \in DOMAIN loop : IF loop[i][1] = "message" THEN onDevice'[loop[i][2]] # "no"
                                                        ELSE stub'[loop[i][2]] = "deleted"
  BY <1>2, <1>3 DEF RetractionInv, QueuesHold, Sticky
<1>5. /\ fromApple' \subseteq {"message", "unsend"} \X Uuids
      /\ \A u \in Uuids : <<"message", u>> \in fromApple' => onDevice'[u] # "no"
  BY DEF RetractionInv, QueuesHold, Sticky
<1> DEFINE rest == Tail(loop)
<1>6. /\ rest \in Seq(Events) /\ Len(rest) = Len(loop) - 1 /\ Len(loop) >= 1
      /\ \A i \in 1 .. Len(rest) : rest[i] = loop[i + 1]
  BY <1>1
<1>7. DOMAIN rest = 1 .. Len(rest) /\ loop' = rest
  BY <1>6
<1> HIDE DEF rest
<1>8. \A i \in DOMAIN loop' : \E k \in DOMAIN loop : loop'[i] = loop[k]
  <2> SUFFICES ASSUME NEW i \in DOMAIN loop'  PROVE \E k \in DOMAIN loop : loop'[i] = loop[k]
    OBVIOUS
  <2>1. i \in 1 .. Len(rest) /\ i + 1 \in 1 .. Len(loop)
    BY <1>1, <1>6, <1>7
  <2> QED BY <1>1, <1>6, <1>7, <2>1
<1>9. \A i \in DOMAIN loop' : IF loop'[i][1] = "message" THEN onDevice'[loop'[i][2]] # "no"
                                                          ELSE stub'[loop'[i][2]] = "deleted"
  BY <1>4, <1>8
<1> QED BY <1>5, <1>6, <1>7, <1>9 DEF QueuesHold

\* The store: a tombstone stays.
LEMMA StubWritten ==
    ASSUME RetractionTypes, NEW u \in Uuids
    PROVE  /\ PersistMessageUUID(u) \in Stubs /\ [stub EXCEPT ![u] = "deleted"] \in Stubs
           /\ [stub EXCEPT ![u] = "deleted"][u] = "deleted"
           /\ \A v \in Uuids : stub[v] = "deleted" => /\ PersistMessageUUID(u)[v] = "deleted"
                                                      /\ [stub EXCEPT ![u] = "deleted"][v] = "deleted"
<1>1. stub \in Stubs
  BY DEF RetractionTypes
<1> QED BY <1>1 DEF PersistMessageUUID, Stubs

\* What Apple delivers and what the trackers forget.
LEMMA AppleSteps ==
    ASSUME RetractionInv, NEW u \in Uuids,
           HandleMessage(u) \/ SuppressEcho(u) \/ HandleUnsend(u) \/ PeerUnsends(u) \/ ExpireTracking(u)
    PROVE  RetractionInv'
<1>t. RetractionTypes /\ onDevice \in Devices /\ stub \in Stubs
  BY DEF RetractionInv, RetractionTypes
<1>0. UNCHANGED <<split, out, sentRows, remove, redacted>>
  BY DEF HandleMessage, SuppressEcho, HandleUnsend, PeerUnsends, ExpireTracking, outVars, sentVars, faultVars
<1>1. CASE HandleMessage(u)
  <2>1. /\ <<"message", u>> \in fromApple /\ fromApple' = fromApple \ {<<"message", u>>}
        /\ stub' = stub \/ stub' = PersistMessageUUID(u)
        /\ loop' = loop \/ loop' = Append(loop, <<"message", u>>)
        /\ UNCHANGED <<onDevice, refused, lost>>
    BY <1>1 DEF HandleMessage, Arrives, faultVars
  <2>2. Sticky
    BY <1>t, <2>1, StubWritten DEF Sticky
  <2>3. <<"message", u>> \in Events /\ onDevice[u] # "no"
    BY <2>1 DEF Events, RetractionInv, QueuesHold
  <2>4. QueuesHold'
    BY <2>1, <2>2, <2>3, EventQueued
  <2> QED BY <1>0, <2>2, <2>4, RemovalStays, RowsAlone
<1>2. CASE SuppressEcho(u) \/ ExpireTracking(u)
  <2>1. fromApple' \subseteq fromApple /\ UNCHANGED <<loop, onDevice, stub, refused, lost>>
    BY <1>2 DEF SuppressEcho, ExpireTracking, Arrives, sentVars, faultVars
  <2>2. Sticky
    BY <1>t, <2>1 DEF Sticky
  <2>3. QueuesHold'
    BY <2>1, <2>2, EventQueued
  <2> QED BY <1>0, <2>2, <2>3, RemovalStays, RowsAlone
<1>3. CASE HandleUnsend(u)
  <2>1. /\ fromApple' \subseteq fromApple /\ UNCHANGED <<onDevice, refused>> /\ lost \subseteq lost'
        /\ \/ stub' = [stub EXCEPT ![u] = "deleted"] /\ loop' = Append(loop, <<"remove", u>>)
           \/ UNCHANGED <<stub, loop>>
    BY <1>3 DEF HandleUnsend, Arrives
  <2>2. Sticky
    BY <1>t, <2>1, StubWritten DEF Sticky
  <2>3. <<"remove", u>> \in Events /\ (loop' # loop => stub'[u] = "deleted")
    BY <1>t, <2>1, StubWritten DEF Events
  <2>4. QueuesHold'
    BY <2>1, <2>2, <2>3, EventQueued
  <2> QED BY <1>0, <2>2, <2>4, RemovalStays, RowsAlone
<1>4. CASE PeerUnsends(u)
  <2>1. /\ fromApple' = fromApple \cup {<<"unsend", u>>} /\ UNCHANGED <<stub, loop, refused, lost>>
        /\ onDevice' = [onDevice EXCEPT ![u] = "retracted"] /\ onDevice[u] = "shown"
    BY <1>4 DEF PeerUnsends, sentVars, faultVars
  <2>2. Sticky
    BY <1>t, <2>1 DEF Sticky, Devices
  <2>3. QueuesHold'
    BY <2>1, <2>2, EventQueued
  <2> QED BY <1>0, <2>2, <2>3, RemovalStays, RowsAlone
<1> QED BY <1>1, <1>2, <1>3, <1>4

\* A message that has no row gets one: it is no part of an event that has its
\* own, and no message that a redaction of its event still has to cover.
LEMMA RowComes ==
    ASSUME RetractionInv, Sticky, QueuesHold', UNCHANGED <<split, out, remove, redacted>>,
           NEW u \in Uuids, out.pc \in {"idle", "done"}, ~HasRow(u), stub[u] # "deleted", onDevice[u] # "no",
           sentRows' = sentRows \cup {[id |-> u, others |-> <<>>]}
    PROVE  RetractionInv'
<1> DEFINE new == [id |-> u, others |-> <<>>]
<1>t. RetractionTypes /\ sentRows \subseteq SentRows
  BY DEF RetractionInv, RetractionTypes
<1>1. new \in SentRows /\ new.id = u
  <2>1. <<>> \in Seq(Own)
    OBVIOUS
  <2> QED BY <2>1 DEF SentRows
<1> HIDE DEF new
<1>2. RowNamesAll(new)'
  <2> SUFFICES ASSUME u \in Own
               PROVE  /\ out.pc = "done"
                      /\ \A v \in Own : Related(u, v) /\ onDevice'[v] = "shown" => v = u \/ v \in Excused'
    BY <1>1 DEF RowNamesAll, Related
  <2>1. out.pc = "done"
    <3>1. CASE out.pc = "idle"
      <4>1. out.next = 1 /\ u < out.next /\ u \in Nat /\ u >= 1
        BY <1>t, <3>1, OwnUuids DEF RetractionInv, SendInOrder
      <4> QED BY <4>1
    <3> QED BY <3>1
  <2>2. ASSUME NEW v \in Own, Related(u, v), onDevice'[v] = "shown", v # u  PROVE v \in Excused'
    <3>1. IsHead(u)
      BY <2>2 DEF Related, IsHead
    <3>2. u \in redacted \/ Own \subseteq lost
      BY <2>1, <3>1 DEF RetractionInv, HeadSaved
    <3>3. onDevice[v] = "shown"
      BY <1>t, <2>2, OwnUuids DEF Sticky
    <3>4. v \in Excused
      BY <2>2, <3>2, <3>3 DEF RetractionInv, RedactionsCover, Covered, Excused
    <3> QED BY <3>4 DEF Excused, Sticky
  <2> QED BY <2>1, <2>2
<1>3. split = "chunks" /\ u \in 2 .. Chunks => u \in lost'
  <2>1. out.pc \notin {"store", "mark"}
    OBVIOUS
  <2> QED BY <2>1 DEF RetractionInv, TailMarked, Sticky
<1>4. RedactionsCover'
  BY <1>t, StillCovered DEF RetractionInv, RedactionsCover
<1>5. sentRows' \subseteq SentRows
  BY <1>t, <1>1 DEF new
<1>6. \A r \in sentRows' : r \in sentRows \/ r = new
  BY DEF new
<1>7. \A r \in sentRows' : r \in sentRows \/ RowNamesAll(r)'
  BY <1>2, <1>6
<1>8. \A r \in sentRows' : r \in sentRows \/ ~(split = "chunks" /\ r.id \in 2 .. Chunks) \/ r.id \in lost'
  BY <1>1, <1>3, <1>6
<1> QED BY <1>4, <1>5, <1>7, <1>8, RemovalStays, RowsChange

\* The portal's queue and CloudKit.
LEMMA QueueSteps ==
    ASSUME RetractionInv, HandleQueuedMessage \/ HandleQueuedRemove \/ \E u \in Uuids : CloudBackfill(u)
    PROVE  RetractionInv'
<1>t. RetractionTypes /\ onDevice \in Devices /\ stub \in Stubs /\ sentRows \subseteq SentRows
  BY DEF RetractionInv, RetractionTypes
<1>q. \A e \in Events : e[2] \in Uuids
  BY DEF Events
<1>h. loop # <<>> => /\ Head(loop) \in Events /\ Head(loop) = loop[1] /\ 1 \in DOMAIN loop
  <2>1. loop \in Seq(Events)
    BY DEF RetractionInv, QueuesHold
  <2> QED BY <2>1
<1>1. CASE HandleQueuedMessage
  <2>1. PICK u : u = Head(loop)[2]
    OBVIOUS
  <2>2. /\ out.pc \in {"idle", "done"} /\ loop # <<>> /\ Head(loop)[1] = "message" /\ loop' = Tail(loop)
        /\ sentRows' = IF HasRow(u) \/ stub[u] = "deleted" THEN sentRows
                       ELSE sentRows \cup {[id |-> u, others |-> <<>>]}
        /\ UNCHANGED <<split, out, onDevice, stub, fromApple, remove, redacted, refused, lost>>
    BY <1>1, <2>1 DEF HandleQueuedMessage, LoopFree, outVars, faultVars
  <2>3. u \in Uuids /\ onDevice[u] # "no"
    BY <1>q, <1>h, <2>1, <2>2 DEF RetractionInv, QueuesHold
  <2>4. Sticky
    BY <1>t, <2>2 DEF Sticky
  <2>5. QueuesHold'
    BY <2>2, <2>4, EventTakenOff
  <2>6. CASE HasRow(u) \/ stub[u] = "deleted"
    BY <2>2, <2>4, <2>5, <2>6, RemovalStays, RowsAlone
  <2>7. CASE ~HasRow(u) /\ stub[u] # "deleted"
    BY <2>2, <2>3, <2>4, <2>5, <2>7, RowComes
  <2> QED BY <2>6, <2>7
<1>2. CASE HandleQueuedRemove
  <2>1. PICK x : x = Head(loop)[2]
    OBVIOUS
  <2>2. /\ loop # <<>> /\ Head(loop)[1] = "remove" /\ loop' = Tail(loop)
        /\ sentRows' = {r \in sentRows : r.id # x}
        /\ UNCHANGED <<split, out, onDevice, stub, fromApple, remove, redacted, refused, lost>>
    BY <1>2, <2>1 DEF HandleQueuedRemove, outVars, faultVars
  <2>3. stub[x] = "deleted"
    BY <1>h, <2>1, <2>2 DEF RetractionInv, QueuesHold
  <2>4. Sticky
    BY <1>t, <2>2 DEF Sticky
  <2>5. QueuesHold'
    BY <2>2, <2>4, EventTakenOff
  <2>6. RedactionsCover'
    BY <1>t, <2>2, <2>4, StillCovered DEF RetractionInv, RedactionsCover
  <2>7. \A r \in sentRows : r \in sentRows' \/ stub'[r.id] = "deleted"
    BY <2>2, <2>3
  <2>8. sentRows' \subseteq SentRows /\ \A r \in sentRows' : r \in sentRows
    BY <1>t, <2>2
  <2> QED BY <2>2, <2>4, <2>5, <2>6, <2>7, <2>8, RemovalStays, RowsChange
<1>3. ASSUME NEW u \in Uuids, CloudBackfill(u)  PROVE RetractionInv'
  <2>1. /\ out.pc \in {"idle", "done"} /\ onDevice[u] # "no" /\ ~HasRow(u) /\ stub[u] # "deleted"
        /\ stub' = [stub EXCEPT ![u] = "live"]
        /\ sentRows' = sentRows \cup {[id |-> u, others |-> <<>>]}
        /\ UNCHANGED <<split, out, onDevice, fromApple, loop, remove, redacted, refused, lost>>
    BY <1>3 DEF CloudBackfill, LoopFree, outVars, faultVars
  <2>2. Sticky
    BY <1>t, <2>1 DEF Sticky, Stubs
  <2>3. QueuesHold'
    BY <2>1, <2>2, EventQueued
  <2> QED BY <2>1, <2>2, <2>3, RowComes
<1> QED BY <1>1, <1>2, <1>3

\* The list of a redaction: all UUIDs the row names, and its own.
LEMMA TodoOfRow ==
    ASSUME NEW S, NEW s \in Seq(S), NEW x \in S
    PROVE  LET todo == Append(Reverse(s), x)
           IN  /\ todo \in Seq(S) /\ todo # <<>>
               /\ \A u : u = x \/ u \in ToSet(s) => u \in ToSet(todo)
<1> DEFINE rev == Reverse(s)
           todo == Append(rev, x)
<1>1. Len(s) \in Nat /\ DOMAIN s = 1 .. Len(s) /\ \A i \in 1 .. Len(s) : s[i] \in S
  OBVIOUS
<1>2. rev = [i \in 1 .. Len(s) |-> s[(Len(s) - i) + 1]]
  BY DEF Reverse
<1> HIDE DEF rev
<1>3. \A i \in 1 .. Len(s) : (Len(s) - i) + 1 \in 1 .. Len(s)
  BY <1>1
<1>4. rev \in Seq(S) /\ Len(rev) = Len(s)
  <2>1. rev \in [1 .. Len(s) -> S]
    BY <1>1, <1>2, <1>3
  <2> QED BY <1>1, <2>1
<1>5. /\ todo \in Seq(S) /\ Len(todo) = Len(s) + 1 /\ todo[Len(s) + 1] = x
      /\ \A i \in 1 .. Len(s) : todo[i] = rev[i]
  BY <1>1, <1>4
<1>6. DOMAIN todo = 1 .. Len(s) + 1 /\ todo # <<>>
  BY <1>1, <1>5
<1> HIDE DEF todo
<1>7. x \in ToSet(todo)
  BY <1>1, <1>5, <1>6 DEF ToSet
<1>8. ASSUME NEW i \in 1 .. Len(s)  PROVE s[i] \in ToSet(todo)
  <2>1. PICK k : k = (Len(s) - i) + 1
    OBVIOUS
  <2>2. k \in 1 .. Len(s) /\ k \in 1 .. Len(s) + 1 /\ (Len(s) - k) + 1 = i
    BY <1>1, <2>1
  <2>3. todo[k] = s[i]
    BY <1>2, <1>5, <2>2
  <2> QED BY <1>6, <2>2, <2>3 DEF ToSet
<1>9. \A u \in ToSet(s) : u \in ToSet(todo)
  BY <1>1, <1>8 DEF ToSet
<1> QED BY <1>5, <1>6, <1>7, <1>9 DEF todo, rev

\* The head of the list is what is unsent now; the tail is what is left.
LEMMA TodoSplit ==
    ASSUME NEW S, NEW s \in Seq(S), s # <<>>
    PROVE  /\ Head(s) \in S /\ Tail(s) \in Seq(S)
           /\ \A u \in ToSet(s) : u = Head(s) \/ u \in ToSet(Tail(s))
           /\ Len(s) > 1 => Tail(s) # <<>>
           /\ Len(s) = 1 => ToSet(Tail(s)) = {}
<1> DEFINE t == Tail(s)
<1>1. /\ Len(s) \in Nat /\ Len(s) >= 1 /\ DOMAIN s = 1 .. Len(s) /\ Head(s) = s[1] /\ Head(s) \in S
      /\ t \in Seq(S) /\ Len(t) = Len(s) - 1
      /\ \A i \in 1 .. Len(t) : t[i] = s[i + 1]
  OBVIOUS
<1>2. DOMAIN t = 1 .. Len(t)
  BY <1>1
<1>3. Len(s) > 1 => t # <<>>
  BY <1>1
<1> HIDE DEF t
<1>4. ASSUME NEW i \in 1 .. Len(s), i # 1  PROVE s[i] \in ToSet(t)
  <2>1. PICK k : k = i - 1
    OBVIOUS
  <2>2. k \in 1 .. Len(t) /\ k + 1 = i
    BY <1>1, <1>4, <2>1
  <2>3. t[k] = s[i]
    BY <1>1, <2>2
  <2> QED BY <1>2, <2>2, <2>3 DEF ToSet
<1>5. \A u \in ToSet(s) : u = Head(s) \/ u \in ToSet(t)
  BY <1>1, <1>4 DEF ToSet
<1>6. Len(s) = 1 => ToSet(t) = {}
  BY <1>1, <1>2 DEF ToSet
<1> QED BY <1>1, <1>3, <1>5, <1>6 DEF t

\* A redaction under way takes a step.
LEMMA RemovalStep ==
    ASSUME RetractionInv, Sticky, fromApple' \subseteq fromApple \cup {<<"unsend", u>> : u \in Uuids},
           UNCHANGED <<split, out, sentRows, redacted, loop>>,
           remove.pc # "idle", remove' \in Removals, remove'.row = remove.row, remove'.todo # <<>>,
           \A u \in Own : onDevice'[u] = "shown" /\ u \in ToUnsend => u \in ToUnsend' \/ u \in Excused'
    PROVE  RetractionInv'
<1>t. RetractionTypes
  BY DEF RetractionInv
<1>1. RemovalGoesOn'
  <2> SUFFICES ASSUME NEW u \in Own, Related(remove.row, u), onDevice'[u] = "shown"
               PROVE  u \in ToUnsend' \/ u \in Excused'
    BY DEF RetractionInv, RemovalGoesOn, Related
  <2>1. onDevice[u] = "shown"
    BY <1>t, OwnUuids DEF Sticky
  <2>2. u \in ToUnsend \/ u \in Excused
    BY <2>1 DEF RetractionInv, RemovalGoesOn
  <2> QED BY <2>2 DEF Excused, Sticky
<1> QED BY <1>1, EventQueued, RowsAlone

\* Redactions.
LEMMA RemoveSteps ==
    ASSUME RetractionInv,
           \/ \E r \in sentRows : RemoveStart(r)
           \/ TrackOutboundUnsend \/ AppleAccepts \/ SendUnsendReturns \/ SettleOutboundUnsend
           \/ ScrubUnsent \/ RemoveNext \/ RemoveReturns
    PROVE  RetractionInv'
<1>t. /\ RetractionTypes /\ onDevice \in Devices /\ stub \in Stubs /\ sentRows \subseteq SentRows
      /\ remove \in Removals
  BY DEF RetractionInv, RetractionTypes
<1>1. ASSUME NEW r \in sentRows, RemoveStart(r)  PROVE RetractionInv'
  <2> DEFINE todo == Append(Reverse(r.others), r.id)
  <2>1. /\ LoopFree /\ r.id \in Own
        /\ remove' = [Idle EXCEPT !.pc = "track", !.row = r.id, !.todo = todo]
        /\ UNCHANGED <<split, out, onDevice, stub, sentRows, fromApple, loop, redacted, refused, lost>>
    BY <1>1 DEF RemoveStart, outVars, sentVars, faultVars
  <2>2. r.others \in Seq(Own)
    BY <1>t DEF SentRows
  <2>3. /\ todo \in Seq(Own) /\ todo # <<>>
        /\ \A u : u = r.id \/ u \in ToSet(r.others) => u \in ToSet(todo)
    BY <2>1, <2>2, TodoOfRow
  <2> HIDE DEF todo
  <2>4. /\ remove' \in Removals /\ remove'.pc = "track" /\ remove'.row = r.id /\ remove'.todo = todo
    BY <1>t, <2>1, <2>3, OwnUuids DEF Idle, Removals
  <2>5. Sticky
    BY <1>t, <2>1 DEF Sticky
  <2>6. ToUnsend' = ToSet(todo)
    BY <2>4 DEF ToUnsend
  <2>7. /\ out.pc = "done"
        /\ \A u \in Own : Related(r.id, u) /\ onDevice[u] = "shown" =>
               u = r.id \/ u \in ToSet(r.others) \/ u \in Excused
    BY <2>1 DEF RetractionInv, RowsNameAll
  <2>8. RemovalGoesOn'
    BY <2>1, <2>3, <2>4, <2>6, <2>7 DEF RemovalGoesOn, Related, Excused
  <2>9. QueuesHold'
    BY <2>1, <2>5, EventQueued
  <2> QED BY <2>1, <2>4, <2>5, <2>8, <2>9, RowsAlone
<1> DEFINE todo == remove.todo
<1>s. remove.pc # "idle" => /\ todo \in Seq(Own) /\ todo # <<>> /\ Current \in Own /\ Current \in Uuids
                            /\ Tail(todo) \in Seq(Own)
                            /\ \A u \in ToSet(todo) : u = Current \/ u \in ToSet(Tail(todo))
                            /\ Len(todo) > 1 => Tail(todo) # <<>>
                            /\ Len(todo) = 1 => ToSet(Tail(todo)) = {}
  <2> SUFFICES ASSUME remove.pc # "idle"
               PROVE  /\ todo \in Seq(Own) /\ todo # <<>> /\ Current \in Own /\ Current \in Uuids
                      /\ Tail(todo) \in Seq(Own)
                      /\ \A u \in ToSet(todo) : u = Current \/ u \in ToSet(Tail(todo))
                      /\ Len(todo) > 1 => Tail(todo) # <<>>
                      /\ Len(todo) = 1 => ToSet(Tail(todo)) = {}
    OBVIOUS
  <2>1. todo \in Seq(Own) /\ todo # <<>>
    BY <1>t DEF RetractionInv, RemovalGoesOn, Removals
  <2> QED BY <1>t, <2>1, TodoSplit, OwnUuids DEF Current
<1> HIDE DEF todo
<1>2. CASE TrackOutboundUnsend
  <2>1. /\ remove.pc = "track" /\ remove' = [remove EXCEPT !.pc = "send", !.err = FALSE]
        /\ UNCHANGED <<split, out, onDevice, stub, sentRows, fromApple, loop, redacted, refused, lost>>
    BY <1>2 DEF TrackOutboundUnsend, outVars, sentVars, faultVars
  <2>2. /\ remove' \in Removals /\ remove'.pc = "send" /\ remove'.row = remove.row /\ remove'.todo = todo
    BY <1>t, <2>1 DEF Removals, todo
  <2>3. Sticky
    BY <1>t, <2>1 DEF Sticky
  <2>4. ToUnsend' = ToUnsend
    BY <2>1, <2>2 DEF ToUnsend, todo
  <2> QED BY <1>s, <2>1, <2>2, <2>3, <2>4, RemovalStep
<1>3. CASE AppleAccepts
  <2>1. /\ remove.pc = "send" /\ remove' = remove /\ onDevice[Current] = "shown"
        /\ onDevice' = [onDevice EXCEPT ![Current] = "retracted"]
        /\ fromApple' = fromApple \cup {<<"unsend", Current>>}
        /\ UNCHANGED <<split, out, stub, sentRows, loop, redacted, refused, lost>>
    BY <1>3 DEF AppleAccepts, outVars, sentVars, faultVars
  <2>2. Sticky
    BY <1>t, <1>s, <2>1 DEF Sticky, Devices
  <2>3. ToUnsend' = ToUnsend
    BY <2>1 DEF ToUnsend
  <2>4. fromApple' \subseteq fromApple \cup {<<"unsend", u>> : u \in Uuids}
    BY <1>s, <2>1
  <2> QED BY <1>t, <1>s, <2>1, <2>2, <2>3, <2>4, RemovalStep DEF todo
<1>4. CASE SendUnsendReturns
  <2>1. /\ remove.pc = "send"
        /\ \/ onDevice[Current] = "retracted" /\ remove' = [remove EXCEPT !.pc = "settle"] /\ refused' = refused
           \/ remove' = [remove EXCEPT !.pc = "settle", !.err = TRUE] /\ refused' = refused \cup {Current}
        /\ UNCHANGED <<split, out, onDevice, stub, sentRows, fromApple, loop, redacted, lost>>
    BY <1>4 DEF SendUnsendReturns, outVars, sentVars, faultVars
  <2>2. /\ remove' \in Removals /\ remove'.pc = "settle" /\ remove'.row = remove.row /\ remove'.todo = todo
    BY <1>t, <2>1 DEF Removals, todo
  <2>3. Sticky
    BY <1>t, <2>1 DEF Sticky
  <2>4. ToUnsend = ToSet(todo) /\ ToUnsend' = ToSet(Tail(todo))
    BY <2>1, <2>2 DEF ToUnsend, todo
  <2>5. \A u \in Own : onDevice'[u] = "shown" /\ u \in ToUnsend => u \in ToUnsend' \/ u \in Excused'
    BY <1>s, <2>1, <2>4 DEF Excused
  <2> QED BY <1>s, <2>1, <2>2, <2>3, <2>5, RemovalStep
<1>5. CASE SettleOutboundUnsend
  <2>1. PICK accepted \in BOOLEAN : accepted = (track[Current] = "echoed" \/ ~remove.err)
    OBVIOUS
  <2>2. /\ remove.pc = "settle"
        /\ remove' = [remove EXCEPT !.pc = IF accepted THEN "scrub" ELSE "next", !.err = ~accepted]
        /\ UNCHANGED <<split, out, onDevice, stub, sentRows, fromApple, loop, redacted, refused, lost>>
    BY <1>5, <2>1 DEF SettleOutboundUnsend, outVars, sentVars, faultVars
  <2>3. /\ remove' \in Removals /\ remove'.pc \in {"scrub", "next"} /\ remove'.row = remove.row
        /\ remove'.todo = todo
    BY <1>t, <2>1, <2>2 DEF Removals, todo
  <2>4. Sticky
    BY <1>t, <2>2 DEF Sticky
  <2>5. ToUnsend' = ToUnsend
    BY <2>2, <2>3 DEF ToUnsend, todo
  <2> QED BY <1>s, <2>2, <2>3, <2>4, <2>5, RemovalStep
<1>6. CASE ScrubUnsent
  <2>1. /\ remove.pc = "scrub" /\ lost \subseteq lost'
        /\ stub' = stub \/ stub' = [stub EXCEPT ![Current] = "deleted"]
        /\ \/ remove' = [remove EXCEPT !.pc = "next"]
           \/ remove' = [remove EXCEPT !.pc = "next", !.scrubErr = TRUE]
        /\ UNCHANGED <<split, out, onDevice, sentRows, fromApple, loop, redacted, refused>>
    BY <1>6 DEF ScrubUnsent, outVars, sentVars
  <2>2. /\ remove' \in Removals /\ remove'.pc = "next" /\ remove'.row = remove.row /\ remove'.todo = todo
    BY <1>t, <2>1 DEF Removals, todo
  <2>3. Sticky
    <3>1. PICK c \in Uuids : c = Current
      BY <1>s, <2>1
    <3>2. stub' = stub \/ stub' = [stub EXCEPT ![c] = "deleted"]
      BY <2>1, <3>1
    <3>3. stub' \in Stubs /\ \A v \in Uuids : stub[v] = "deleted" => stub'[v] = "deleted"
      BY <1>t, <3>2, StubWritten
    <3> QED BY <1>t, <2>1, <3>3 DEF Sticky
  <2>4. ToUnsend' = ToUnsend
    BY <2>1, <2>2 DEF ToUnsend, todo
  <2> QED BY <1>s, <2>1, <2>2, <2>3, <2>4, RemovalStep
<1>7. CASE RemoveNext
  <2>1. /\ remove.pc = "next" /\ Len(todo) > 1
        /\ remove' = [remove EXCEPT !.pc = "track", !.todo = Tail(todo)]
        /\ UNCHANGED <<split, out, onDevice, stub, sentRows, fromApple, loop, redacted, refused, lost>>
    BY <1>7 DEF RemoveNext, outVars, sentVars, faultVars, todo
  <2>2. /\ remove' \in Removals /\ remove'.pc = "track" /\ remove'.row = remove.row
        /\ remove'.todo = Tail(todo) /\ Tail(todo) # <<>>
    BY <1>t, <1>s, <2>1 DEF Removals
  <2>3. Sticky
    BY <1>t, <2>1 DEF Sticky
  <2>4. ToUnsend = ToSet(Tail(todo)) /\ ToUnsend' = ToSet(Tail(todo))
    BY <2>1, <2>2 DEF ToUnsend, todo
  <2> QED BY <2>1, <2>2, <2>3, <2>4, RemovalStep
<1>8. CASE RemoveReturns
  <2>1. /\ remove.pc = "next" /\ Len(todo) = 1 /\ remove' = Idle
        /\ UNCHANGED <<split, out, onDevice, stub, fromApple, loop, refused, lost>>
        /\ \/ UNCHANGED <<sentRows, redacted>>
           \/ /\ sentRows' = {r \in sentRows : r.id # remove.row}
              /\ redacted' = redacted \cup {remove.row}
    BY <1>8 DEF RemoveReturns, outVars, todo
  <2>2. remove' \in Removals /\ RemovalGoesOn'
    BY <2>1 DEF Idle, Removals, RemovalGoesOn
  <2>3. Sticky
    BY <1>t, <2>1 DEF Sticky
  <2>4. QueuesHold'
    BY <2>1, <2>3, EventQueued
  <2>5. ToUnsend = {}
    BY <1>s, <2>1 DEF ToUnsend, todo
  <2>6. remove.row \in Own /\ out.pc = "done" /\ Covered(remove.row)
    BY <2>1, <2>5 DEF RetractionInv, RemovalGoesOn, Covered
  <2>7. RedactionsCover'
    <3>1. \A h \in redacted : h \in Own /\ out.pc = "done" /\ Covered(h)
      BY DEF RetractionInv, RedactionsCover
    <3>2. \A h \in redacted' : h \in Own /\ out.pc = "done" /\ Covered(h)
      BY <2>1, <2>6, <3>1
    <3> QED BY <1>t, <2>1, <2>3, <3>2, StillCovered DEF RedactionsCover
  <2>8. /\ sentRows' \subseteq SentRows /\ redacted \subseteq redacted'
        /\ \A r \in sentRows' : r \in sentRows
        /\ \A r \in sentRows : r \in sentRows' \/ r.id \in redacted'
    BY <1>t, <2>1
  <2> QED BY <2>1, <2>2, <2>3, <2>4, <2>7, <2>8, RowsChange
<1> QED BY <1>1, <1>2, <1>3, <1>4, <1>5, <1>6, <1>7, <1>8

\* A step of the send by which no row is saved.
SendStages == [pc : {"idle", "send", "store", "mark", "save", "done"}, next : Nat]
LEMMA SendMoves ==
    ASSUME RetractionInv, out.pc # "done", UNCHANGED <<split, sentRows, loop, remove, redacted>>,
           onDevice' \in Devices, stub' \in Stubs, out' \in SendStages, SendInOrder', lost \subseteq lost',
           \A u \in Uuids : /\ onDevice[u] # "no" => onDevice'[u] # "no"
                            /\ stub[u] = "deleted" => stub'[u] = "deleted",
           \A e \in fromApple' : \/ e \in fromApple
                                 \/ \E u \in Uuids : e = <<"message", u>> /\ onDevice'[u] # "no",
           split = "chunks" => \A u \in 2 .. Chunks :
               \/ onDevice'[u] = "no" \/ stub'[u] = "deleted" \/ u \in lost'
               \/ u = out'.next /\ out'.pc \in {"store", "mark"},
           out'.pc = "done" => \A u \in Own : onDevice'[u] = "no"
    PROVE  RetractionInv'
<1>1. RetractionTypes' /\ TailMarked' /\ HeadSaved'
  BY DEF RetractionInv, RetractionTypes, SendStages, TailMarked, HeadSaved, HasRow
<1>2. RowsNameAll' /\ RemovalGoesOn' /\ RedactionsCover'
  BY NothingBefore DEF RowsNameAll, RemovalGoesOn, RedactionsCover
<1>3. QueuesHold'
  <2>1. loop \in Seq(Events) /\ \A i \in DOMAIN loop : loop[i][2] \in Uuids
    <3>1. loop \in Seq(Events)
      BY DEF RetractionInv, QueuesHold
    <3>2. \A i \in DOMAIN loop : loop[i] \in Events
      BY <3>1
    <3> QED BY <3>1, <3>2 DEF Events
  <2>2. /\ fromApple' \subseteq {"message", "unsend"} \X Uuids
        /\ \A u \in Uuids : <<"message", u>> \in fromApple' => onDevice'[u] # "no"
    BY DEF RetractionInv, QueuesHold
  <2>3. \A i \in DOMAIN loop' : IF loop'[i][1] = "message" THEN onDevice'[loop'[i][2]] # "no"
                                                            ELSE stub'[loop'[i][2]] = "deleted"
    BY <2>1 DEF RetractionInv, QueuesHold
  <2> QED BY <2>1, <2>2, <2>3 DEF QueuesHold
<1> QED BY <1>1, <1>2, <1>3 DEF RetractionInv

LEMMA PiecesGoOut ==
    ASSUME RetractionInv, SendPiece \/ StorePiece \/ MarkContinuationChunk
    PROVE  RetractionInv'
<1>t. RetractionTypes /\ out \in SendStages /\ onDevice \in Devices /\ stub \in Stubs
  BY DEF RetractionInv, RetractionTypes, SendStages
<1>p. UNCHANGED <<split, sentRows, loop, remove, redacted>>
  BY DEF SendPiece, StorePiece, MarkContinuationChunk, sentVars
<1>l. LastPiece' = LastPiece /\ LastPiece \in 2 .. Chunks /\ Own = 1 .. Chunks /\ Own \subseteq Uuids /\ Chunks \in Nat
  BY <1>t, <1>p, OwnUuids DEF LastPiece
<1>k. ASSUME NEW u \in 2 .. Chunks  PROVE u \in Own /\ u \in Uuids
  BY <1>l
<1>1. PICK n : n = out.next
  OBVIOUS
<1>n. n \in Nat /\ (out.pc \in {"idle", "send", "store", "mark"} => n \in 1 .. LastPiece /\ n \in Own /\ n \in Uuids)
  <2>1. out.pc \in {"idle", "send", "store", "mark"} => n \in 1 .. LastPiece
    BY <1>1 DEF RetractionInv, SendInOrder
  <2>2. n \in 1 .. LastPiece => n \in 1 .. Chunks
    BY <1>l
  <2> QED BY <1>1, <1>t, <1>l, <2>1, <2>2 DEF SendStages
<1>b. out.pc # "done" => \A u \in Own : onDevice[u] # "no" =>
                            u < n \/ (u = n /\ out.pc \in {"store", "mark"})
  BY <1>1 DEF RetractionInv, SendInOrder
<1>m. split = "chunks" => \A u \in 2 .. Chunks :
          \/ onDevice[u] = "no" \/ stub[u] = "deleted" \/ u \in lost
          \/ u = n /\ out.pc \in {"store", "mark"}
  BY <1>1 DEF RetractionInv, TailMarked
<1>2. CASE SendPiece
  <2>1. out.pc \in {"idle", "send"} /\ stub' = stub /\ lost' = lost
    BY <1>2 DEF SendPiece
  <2>2. ASSUME out' = [out EXCEPT !.pc = "store"], onDevice' = [onDevice EXCEPT ![n] = "shown"],
               fromApple' = fromApple \cup {<<"message", n>>}
        PROVE  RetractionInv'
    <3>1. out' \in SendStages /\ out'.pc = "store" /\ out'.next = n
      BY <1>1, <1>t, <2>2 DEF SendStages
    <3>2. /\ onDevice' \in Devices /\ onDevice'[n] = "shown"
          /\ \A u \in Uuids : u # n => onDevice'[u] = onDevice[u]
      BY <1>t, <1>n, <2>1, <2>2 DEF Devices
    <3>3. SendInOrder'
      BY <1>l, <1>n, <1>b, <2>1, <3>1, <3>2 DEF SendInOrder
    <3>4. split = "chunks" => \A u \in 2 .. Chunks :
              \/ onDevice'[u] = "no" \/ stub'[u] = "deleted" \/ u \in lost'
              \/ u = out'.next /\ out'.pc \in {"store", "mark"}
      BY <1>k, <1>m, <2>1, <3>1, <3>2
    <3>5. \A e \in fromApple' : \/ e \in fromApple
                                \/ \E u \in Uuids : e = <<"message", u>> /\ onDevice'[u] # "no"
      BY <1>n, <2>1, <2>2, <3>2
    <3>6. \A u \in Uuids : onDevice[u] # "no" => onDevice'[u] # "no"
      BY <3>2
    <3> QED BY <1>t, <1>p, <2>1, <3>1, <3>2, <3>3, <3>4, <3>5, <3>6, SendMoves
  <2>3. ASSUME out' = [pc |-> IF n = 1 THEN "done" ELSE "save", next |-> n],
               UNCHANGED <<onDevice, fromApple>>
        PROVE  RetractionInv'
    <3>1. out' \in SendStages /\ out'.pc = (IF n = 1 THEN "done" ELSE "save") /\ out'.next = n
      BY <1>n, <2>3 DEF SendStages
    <3>2. SendInOrder'
      BY <1>l, <1>n, <1>b, <2>1, <2>3, <3>1 DEF SendInOrder
    <3>3. out'.pc = "done" => \A u \in Own : onDevice'[u] = "no"
      BY <1>l, <1>b, <2>1, <2>3, <3>1
    <3>4. split = "chunks" => \A u \in 2 .. Chunks :
              \/ onDevice'[u] = "no" \/ stub'[u] = "deleted" \/ u \in lost'
              \/ u = out'.next /\ out'.pc \in {"store", "mark"}
      BY <1>m, <2>1, <2>3
    <3> QED BY <1>t, <1>p, <2>1, <2>3, <3>1, <3>2, <3>3, <3>4, SendMoves
  <2> QED BY <1>1, <1>2, <2>2, <2>3 DEF SendPiece
<1>a. out.pc \in {"store", "mark"} /\ out' = Advance =>
          /\ out' \in SendStages /\ out'.next = n + 1 /\ out'.pc = IF n = LastPiece THEN "save" ELSE "send"
          /\ UNCHANGED onDevice => SendInOrder'
  <2> SUFFICES ASSUME out.pc \in {"store", "mark"}, out' = Advance
               PROVE  /\ out' \in SendStages /\ out'.next = n + 1
                      /\ out'.pc = IF n = LastPiece THEN "save" ELSE "send"
                      /\ UNCHANGED onDevice => SendInOrder'
    OBVIOUS
  <2>1. /\ out' \in SendStages /\ out'.next = n + 1
        /\ out'.pc = IF n = LastPiece THEN "save" ELSE "send"
    BY <1>1, <1>n DEF Advance, SendStages
  <2>2. /\ n = LastPiece => n + 1 \in 2 .. LastPiece + 1
        /\ n # LastPiece => n + 1 \in 1 .. LastPiece
    BY <1>l, <1>n
  <2>3. \A u \in Own : onDevice[u] # "no" => u < n + 1
    BY <1>l, <1>n, <1>b
  <2> QED BY <1>l, <2>1, <2>2, <2>3 DEF SendInOrder
<1>3. CASE StorePiece
  <2>1. /\ out.pc = "store" /\ lost \subseteq lost' /\ UNCHANGED <<onDevice, fromApple>>
        /\ stub' = stub \/ stub' = PersistMessageUUID(n)
        /\ out' = IF split = "chunks" /\ n > 1 THEN [out EXCEPT !.pc = "mark"] ELSE Advance
    BY <1>1, <1>3 DEF StorePiece
  <2>2. stub' \in Stubs /\ \A u \in Uuids : stub[u] = "deleted" => stub'[u] = "deleted"
    BY <1>t, <1>n, <2>1, StubWritten
  <2>3. CASE split = "chunks" /\ n > 1
    <3>1. out' \in SendStages /\ out'.pc = "mark" /\ out'.next = n
      BY <1>1, <1>t, <2>1, <2>3 DEF SendStages
    <3>2. SendInOrder'
      BY <1>l, <1>n, <1>b, <2>1, <3>1 DEF SendInOrder
    <3>3. split = "chunks" => \A u \in 2 .. Chunks :
              \/ onDevice'[u] = "no" \/ stub'[u] = "deleted" \/ u \in lost'
              \/ u = out'.next /\ out'.pc \in {"store", "mark"}
      BY <1>k, <1>m, <2>1, <2>2, <3>1
    <3> QED BY <1>t, <1>p, <2>1, <2>2, <3>1, <3>2, <3>3, SendMoves
  <2>4. CASE ~(split = "chunks" /\ n > 1)
    <3>1. out' \in SendStages /\ SendInOrder' /\ out'.pc # "done"
      BY <1>a, <2>1, <2>4
    <3>2. split = "chunks" => \A u \in 2 .. Chunks : u # n
      BY <1>l, <1>n, <2>4
    <3>3. split = "chunks" => \A u \in 2 .. Chunks :
              onDevice'[u] = "no" \/ stub'[u] = "deleted" \/ u \in lost'
      BY <1>k, <1>m, <2>1, <2>2, <3>2
    <3> QED BY <1>t, <1>p, <2>1, <2>2, <3>1, <3>3, SendMoves
  <2> QED BY <2>3, <2>4
<1>4. CASE MarkContinuationChunk
  <2>1. /\ out.pc = "mark" /\ lost \subseteq lost' /\ UNCHANGED <<onDevice, fromApple>>
        /\ out' = Advance
        /\ \/ stub' = [stub EXCEPT ![n] = "deleted"]
           \/ stub' = stub /\ n \in lost'
    BY <1>1, <1>4 DEF MarkContinuationChunk
  <2>2. /\ stub' \in Stubs /\ \A u \in Uuids : stub[u] = "deleted" => stub'[u] = "deleted"
        /\ stub'[n] = "deleted" \/ n \in lost'
    <3>1. n \in Uuids
      BY <1>n, <2>1
    <3>2. CASE stub' = [stub EXCEPT ![n] = "deleted"]
      BY <1>t, <3>1, <3>2, StubWritten
    <3>3. CASE stub' = stub /\ n \in lost'
      BY <1>t, <3>3
    <3> QED BY <2>1, <3>2, <3>3
  <2>3. out' \in SendStages /\ SendInOrder' /\ out'.pc # "done"
    BY <1>a, <2>1
  <2>4. split = "chunks" => \A u \in 2 .. Chunks :
            onDevice'[u] = "no" \/ stub'[u] = "deleted" \/ u \in lost'
    BY <1>k, <1>m, <2>1, <2>2
  <2> QED BY <1>t, <1>p, <2>1, <2>2, <2>3, <2>4, SendMoves
<1> QED BY <1>2, <1>3, <1>4

\* The rows of a response name every message that went out.
LEMMA RowsOfResponse ==
    ASSUME RetractionTypes, NEW k \in 1 .. LastPiece
    PROVE  /\ ResponseRows(k) \subseteq SentRows
           /\ \A r \in ResponseRows(k) :
                  /\ split = "chunks" => r.id = 1
                  /\ \A u \in Own : Related(r.id, u) /\ u <= k => u = r.id \/ u \in ToSet(r.others)
           /\ \A h \in Own : IsHead(h) /\ h <= k => \E r \in ResponseRows(k) : r.id = h
<1>0. /\ Chunks \in Nat /\ Chunks >= 2 /\ Own = 1 .. Chunks /\ Own \subseteq Uuids /\ Own \subseteq Nat
      /\ LastPiece \in 2 .. Chunks /\ k \in Nat /\ 1 \in Own /\ 2 \in Own /\ k - 1 \in Nat
      /\ k <= Chunks /\ (split # "chunks" => k = 1 \/ k = 2)
  BY OwnUuids
<1>1. CASE split = "chunks"
  <2> DEFINE rest == [i \in 1 .. (k - 1) |-> i + 1]
             row == [id |-> 1, others |-> rest]
  <2>1. ResponseRows(k) = {row}
    BY <1>1 DEF ResponseRows
  <2>2. rest \in Seq(Own) /\ DOMAIN rest = 1 .. (k - 1)
    <3>1. \A i \in 1 .. (k - 1) : i + 1 \in Own
      BY <1>0
    <3>2. rest \in [1 .. (k - 1) -> Own]
      BY <3>1
    <3> QED BY <1>0, <3>2
  <2>3. ASSUME NEW u \in Own, u <= k, u # 1  PROVE u \in ToSet(rest)
    <3>1. PICK i : i = u - 1
      OBVIOUS
    <3>2. i \in 1 .. (k - 1) /\ i + 1 = u
      BY <1>0, <2>3, <3>1
    <3> QED BY <2>2, <3>2 DEF ToSet
  <2> HIDE DEF rest
  <2>4. row \in SentRows /\ row.id = 1 /\ row.others = rest
    BY <1>0, <2>2 DEF SentRows
  <2> HIDE DEF row
  <2> QED BY <1>1, <2>1, <2>3, <2>4 DEF IsHead
<1>2. CASE split # "chunks" /\ k = 1
  <2> DEFINE row == [id |-> 1, others |-> <<>>]
  <2>1. ResponseRows(k) = {row}
    BY <1>2 DEF ResponseRows
  <2>2. row \in SentRows /\ row.id = 1
    <3>1. <<>> \in Seq(Own)
      OBVIOUS
    <3> QED BY <1>0, <3>1 DEF SentRows
  <2> HIDE DEF row
  <2>3. \A u \in Own : u <= k => u = 1
    BY <1>0, <1>2
  <2> QED BY <1>2, <2>1, <2>2, <2>3
<1>3. CASE split = "caption" /\ k # 1
  <2> DEFINE one == <<1>>
             row == [id |-> 2, others |-> one]
  <2>1. ResponseRows(k) = {row}
    BY <1>3 DEF ResponseRows
  <2>2. one \in Seq(Own) /\ 1 \in ToSet(one)
    BY <1>0 DEF ToSet
  <2> HIDE DEF one
  <2>3. row \in SentRows /\ row.id = 2 /\ row.others = one
    BY <1>0, <2>2 DEF SentRows
  <2> HIDE DEF row
  <2>4. \A u \in Own : u <= k => u = 1 \/ u = 2
    BY <1>0, <1>3
  <2> QED BY <1>3, <2>1, <2>2, <2>3, <2>4 DEF IsHead
<1>4. CASE split \notin {"chunks", "caption"} /\ k # 1
  <2>1. ResponseRows(k) = {[id |-> 1, others |-> <<>>], [id |-> 2, others |-> <<>>]}
    BY <1>4 DEF ResponseRows
  <2>2. ResponseRows(k) \subseteq SentRows
    <3>1. <<>> \in Seq(Own)
      OBVIOUS
    <3> QED BY <1>0, <2>1, <3>1 DEF SentRows
  <2> QED BY <1>4, <2>2 DEF Related, IsHead
<1> QED BY <1>1, <1>2, <1>3, <1>4

LEMMA RowsAreSaved ==
    ASSUME RetractionInv, SaveRows
    PROVE  RetractionInv'
<1>t. /\ RetractionTypes /\ sentRows \subseteq SentRows /\ out \in SendStages
  BY DEF RetractionInv, RetractionTypes, SendStages
<1> DEFINE k == out.next - 1
<1>1. /\ out.pc = "save" /\ out' = [out EXCEPT !.pc = "done"]
      /\ sentRows' = sentRows \cup ResponseRows(k)
      /\ UNCHANGED <<split, onDevice, stub, fromApple, loop, remove, redacted, refused, lost>>
  BY DEF SaveRows, faultVars
<1>2. out' \in SendStages /\ out'.pc = "done"
  BY <1>t, <1>1 DEF SendStages
<1>3. k \in 1 .. LastPiece /\ \A u \in Own : onDevice[u] # "no" => u <= k
  <2>1. out.next \in 2 .. LastPiece + 1 /\ \A u \in Own : onDevice[u] # "no" => u < out.next
    BY <1>1 DEF RetractionInv, SendInOrder
  <2> QED BY <1>t, <2>1, OwnUuids
<1> HIDE DEF k
<1>4. remove.pc = "idle" /\ redacted = {} /\ \A r \in sentRows : r.id \notin Own
  BY <1>1, NothingBefore
<1>5. /\ ResponseRows(k) \subseteq SentRows
      /\ \A r \in ResponseRows(k) :
             /\ split = "chunks" => r.id = 1
             /\ \A u \in Own : Related(r.id, u) /\ u <= k => u = r.id \/ u \in ToSet(r.others)
      /\ \A h \in Own : IsHead(h) /\ h <= k => \E r \in ResponseRows(k) : r.id = h
  BY <1>t, <1>3, RowsOfResponse
<1>6. RetractionTypes'
  BY <1>t, <1>1, <1>2, <1>5 DEF RetractionTypes, SendStages
<1>7. SendInOrder' /\ QueuesHold'
  BY <1>1, <1>2 DEF RetractionInv, SendInOrder, QueuesHold
<1>8. TailMarked'
  <2> SUFFICES ASSUME split = "chunks", NEW u \in 2 .. Chunks
               PROVE  /\ onDevice[u] = "no" \/ stub[u] = "deleted" \/ u \in lost
                      /\ HasRow(u)' => u \in lost
    BY <1>1 DEF TailMarked
  <2>1. onDevice[u] = "no" \/ stub[u] = "deleted" \/ u \in lost
    BY <1>1 DEF RetractionInv, TailMarked
  <2>2. HasRow(u)' => HasRow(u)
    BY <1>1, <1>5 DEF HasRow
  <2>3. HasRow(u) => u \in lost
    BY DEF RetractionInv, TailMarked
  <2> QED BY <2>1, <2>2, <2>3
<1>9. HeadSaved'
  <2>1. \A h \in Own : IsHead(h) /\ onDevice[h] # "no" => \E r \in sentRows' : r.id = h
    BY <1>1, <1>3, <1>5
  <2> QED BY <1>1, <2>1 DEF HeadSaved, HasRow, IsHead
<1>10. RowsNameAll'
  <2> SUFFICES ASSUME NEW r \in sentRows', r.id \in Own, NEW u \in Own, Related(r.id, u), onDevice[u] = "shown"
               PROVE  u = r.id \/ u \in ToSet(r.others)
    BY <1>1, <1>2 DEF RowsNameAll, Related
  <2>1. r \in ResponseRows(k)
    BY <1>1, <1>4
  <2> QED BY <1>3, <1>5, <2>1
<1>11. RemovalGoesOn' /\ RedactionsCover'
  BY <1>1, <1>4 DEF RemovalGoesOn, RedactionsCover
<1> QED BY <1>6, <1>7, <1>8, <1>9, <1>10, <1>11 DEF RetractionInv

\* A restart cuts off a send that is under way, and a redaction.
LEMMA RestartCutsOff ==
    ASSUME RetractionInv, RetractionRestart
    PROVE  RetractionInv'
<1>t. /\ RetractionTypes /\ sentRows \subseteq SentRows /\ out \in SendStages
  BY DEF RetractionInv, RetractionTypes, SendStages
<1>1. /\ out' = IF out.pc = "idle" THEN out ELSE [out EXCEPT !.pc = "done"]
      /\ remove' = Idle /\ loop' = <<>> /\ lost \subseteq lost'
      /\ out.pc \notin {"idle", "done"} => Own \subseteq lost'
      /\ UNCHANGED <<split, onDevice, stub, sentRows, fromApple, redacted, refused>>
  BY DEF RetractionRestart
<1>2. /\ out' \in SendStages /\ out'.pc \in {"idle", "done"}
      /\ out'.pc = "idle" => out' = out
      /\ out'.pc = "done" => out.pc # "idle"
      /\ out.pc = "done" => out'.pc = "done"
  BY <1>t, <1>1 DEF SendStages
<1>3. RetractionTypes'
  BY <1>t, <1>1, <1>2 DEF RetractionTypes, SendStages, Idle, Removals
<1>4. SendInOrder'
  <2>1. CASE out'.pc = "idle"
    <3>1. out' = out /\ LastPiece' = LastPiece
      BY <1>1, <1>2, <2>1 DEF LastPiece
    <3> QED BY <1>1, <3>1 DEF RetractionInv, SendInOrder
  <2>2. CASE out'.pc = "done"
    BY <2>2 DEF SendInOrder
  <2> QED BY <1>2, <2>1, <2>2
<1>5. QueuesHold'
  <2>1. <<>> \in Seq(Events) /\ DOMAIN <<>> = {}
    OBVIOUS
  <2> QED BY <1>1, <2>1 DEF RetractionInv, QueuesHold
<1>6. TailMarked'
  <2> SUFFICES ASSUME split = "chunks", NEW u \in 2 .. Chunks
               PROVE  /\ onDevice[u] = "no" \/ stub[u] = "deleted" \/ u \in lost'
                      /\ HasRow(u) => u \in lost'
    BY <1>1 DEF TailMarked, HasRow
  <2>1. out.pc \in {"store", "mark"} => u \in lost'
    BY <1>t, <1>1, OwnUuids
  <2> QED BY <1>1, <2>1 DEF RetractionInv, TailMarked
<1>7. HeadSaved'
  <2>1. CASE out.pc = "done"
    BY <1>1, <2>1 DEF RetractionInv, HeadSaved, HasRow, IsHead
  <2>2. CASE out.pc # "done" /\ out'.pc = "done"
    BY <1>1, <1>2, <2>2 DEF HeadSaved
  <2> QED BY <1>2, <2>1, <2>2 DEF HeadSaved
<1>8. RowsNameAll'
  BY <1>1, <1>2 DEF RetractionInv, RowsNameAll, Related, Excused
<1>9. RemovalGoesOn'
  BY <1>1 DEF RemovalGoesOn, Idle
<1>10. RedactionsCover'
  BY <1>1, <1>2 DEF RetractionInv, RedactionsCover, Covered, Related, Excused
<1> QED BY <1>3, <1>4, <1>5, <1>6, <1>7, <1>8, <1>9, <1>10 DEF RetractionInv

LEMMA RetractionStart ==
    ASSUME RetractionInit
    PROVE  RetractionInv
<1>1. /\ split \in {"chunks", "caption", "puppet", "inbound"} /\ out = [pc |-> "idle", next |-> 1]
      /\ onDevice = [u \in Uuids |-> IF u \in Peer /\ split = "inbound" THEN "shown" ELSE "no"]
      /\ stub = [u \in Uuids |-> "none"] /\ sentRows = {} /\ loop = <<>>
      /\ fromApple = {<<"message", u>> : u \in {p \in Peer : split = "inbound"}}
      /\ remove = Idle /\ redacted = {}
  BY RetractionAssumption DEF RetractionInit
<1>2. RetractionTypes
  BY <1>1 DEF RetractionTypes, Devices, Stubs, Idle, Removals
<1>3. \A u \in Own : onDevice[u] = "no"
  BY <1>1, <1>2, OwnUuids
<1>4. SendInOrder
  BY <1>1, <1>2, <1>3, OwnUuids DEF SendInOrder
<1>5. QueuesHold
  <2>1. <<>> \in Seq(Events) /\ DOMAIN <<>> = {}
    OBVIOUS
  <2>2. \A e \in fromApple : \E u \in Uuids : e = <<"message", u>> /\ onDevice[u] # "no"
    BY <1>1 DEF Uuids
  <2> QED BY <1>1, <2>1, <2>2 DEF QueuesHold
<1>6. TailMarked
  BY <1>1, <1>2, <1>3, OwnUuids DEF TailMarked, HasRow
<1>7. HeadSaved /\ RowsNameAll /\ RemovalGoesOn /\ RedactionsCover
  BY <1>1 DEF HeadSaved, RowsNameAll, RemovalGoesOn, RedactionsCover, Idle
<1> QED BY <1>2, <1>4, <1>5, <1>6, <1>7 DEF RetractionInv

\* What one Matrix event became stays tied to it: a redaction that succeeded
\* reached every iMessage of it, and the tail of an oversized message is never
\* bridged back (ContinuationUUIDs, SiblingUUID, markContinuationChunk,
\* HandleMatrixMessageRemove, deletedMessagePostHandle).
THEOREM SendsStayTied == RetractionSpec => []SplitSendsTracked
<1>1. RetractionInit => RetractionInv
  BY RetractionStart
<1>2. RetractionInv /\ [RetractionNext]_retractionVars => RetractionInv'
  <2> SUFFICES ASSUME RetractionInv, [RetractionNext]_retractionVars
               PROVE  RetractionInv'
    OBVIOUS
  <2>1. CASE SendPiece \/ StorePiece \/ MarkContinuationChunk
    BY <2>1, PiecesGoOut
  <2>2. CASE SaveRows
    BY <2>2, RowsAreSaved
  <2>3. CASE HandleQueuedMessage \/ HandleQueuedRemove
    BY <2>3, QueueSteps
  <2>4. ASSUME NEW u \in Uuids,
               \/ HandleMessage(u) \/ SuppressEcho(u) \/ HandleUnsend(u)
               \/ CloudBackfill(u) \/ PeerUnsends(u) \/ ExpireTracking(u)
        PROVE  RetractionInv'
    BY <2>4, AppleSteps, QueueSteps
  <2>5. CASE \/ \E r \in sentRows : RemoveStart(r)
             \/ TrackOutboundUnsend \/ AppleAccepts \/ SendUnsendReturns \/ SettleOutboundUnsend
             \/ ScrubUnsent \/ RemoveNext \/ RemoveReturns
    BY <2>5, RemoveSteps
  <2>6. CASE RetractionRestart
    BY <2>6, RestartCutsOff
  <2>7. CASE UNCHANGED retractionVars
    <3>1. UNCHANGED <<split, out, onDevice, stub, sentRows, fromApple, loop, remove, redacted, refused, lost>>
      BY <2>7 DEF retractionVars
    <3>2. Sticky
      BY <3>1 DEF Sticky, RetractionInv, RetractionTypes
    <3> QED BY <3>1, <3>2, EventQueued, RemovalStays, RowsAlone
  <2> QED BY <2>1, <2>2, <2>3, <2>4, <2>5, <2>6, <2>7 DEF RetractionNext
<1>3. RetractionInv => SplitSendsTracked
  <2> SUFFICES ASSUME RetractionInv  PROVE SplitSendsTracked
    OBVIOUS
  <2>1. RedactionReachesAll
    BY DEF RetractionInv, RedactionsCover, Covered, Related, Excused, RedactionReachesAll
  <2>2. TailNotRepeated
    BY DEF RetractionInv, TailMarked, TailNotRepeated
  <2> QED BY <2>1, <2>2 DEF SplitSendsTracked
<1> QED BY <1>1, <1>2, <1>3, PTL DEF RetractionSpec

=============================================================================
