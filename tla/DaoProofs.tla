----------------------------- MODULE DaoProofs -----------------------------
(***************************************************************************)
(* Proofs about Dao for any requests and messages, whatever keys, FK       *)
(* children and numbers of items they have: the calls are atomic (Dao      *)
(* implements AtomicStore), rows stay whole, events follow commits and an   *)
(* undisturbed read() is whole.                                            *)
(***************************************************************************)
EXTENDS Dao, SequenceTheorems, TLAPS

Owners == Ids \cup {RefOf[m] : m \in Messages}

\* What the code puts into a statement.
Good(s) ==
    /\ s.kind \in {"insert", "update"} => Row(s.table, s.owner, s.ord, s.msg) \in Rows
    /\ s.kind \in {"update", "delete"} => s.table # "items"
    /\ s.kind = "wipe" => s.table = "items"
    /\ s.kind = "fire" => <<s.table, s.msg>> \in Events
    /\ s.table # "items" => s.ord = 0
Statements ==
    {s \in [kind : {"insert", "update", "delete", "wipe", "fire"},
            table : {"ref", "main", "items"}, owner : Owners \cup {None},
            ord : Nat, msg : Messages \cup {None}] : Good(s)}

StmtsOf(P) == {P[i] : i \in 1..Len(P)}

RowOf(s) == Row(s.table, s.owner, s.ord, s.msg)

\* Row x is overwritten or deleted by statement s.
Kills(s, x) ==
    \/ /\ s.kind \in {"update", "delete"}
       /\ x.table = s.table /\ x.owner = s.owner /\ x.ord = s.ord
    \/ /\ s.kind = "wipe"
       /\ x.table = "items" /\ x.owner = s.owner

\* What the statements of D make of the rows R, all at once.
After(R, D) ==
    {x \in R : \A s \in D : ~Kills(s, x)}
       \cup {RowOf(s) : s \in {d \in D : d.kind = "insert"}}
       \cup {RowOf(s) : s \in {d \in D : d.kind = "update" /\ Hits(R, d) # {}}}

\* A statement that overwrites or deletes comes before any other that touches
\* its table, so that the order of the statements of a plan does not matter.
Clears(s, D) ==
    s.kind \in {"update", "delete", "wipe"} =>
        \A d \in D : d.kind \in {"insert", "update", "delete"} => d.table # s.table
Ordered(P) == \A i \in 1..Len(P) : Clears(P[i], {P[h] : h \in 1..(i - 1)})

\* E is the publications that plan P defers, the i-th of them at F[i].
FiresAt(F, P, E) ==
    /\ F \in [1..Len(E) -> 1..Len(P)]
    /\ \A i, j \in 1..Len(E) : i < j => F[i] < F[j]
    /\ \A i \in 1..Len(E) :
          P[F[i]].kind = "fire" /\ E[i] = <<P[F[i]].table, P[F[i]].msg>>
    /\ \A j \in 1..Len(P) : P[j].kind = "fire" => \E i \in 1..Len(E) : F[i] = j
Fires(P, E) == \E F \in [1..Len(E) -> 1..Len(P)] : FiresAt(F, P, E)
FirePos(k) == CHOOSE F \in [1..Len(EventsOf(k)) -> 1..Len(Plan(k))] :
                  FiresAt(F, Plan(k), EventsOf(k))

-----------------------------------------------------------------------------
(* The invariant. *)

\* How many statements of its call c has executed, and which.
At(c)   == Len(Plan(call[c])) - Len(todo[c])
Done(c) == {Plan(call[c])[i] : i \in 1..At(c)}

GotType == [main : Messages \cup {None}, ref : BOOLEAN, items : SUBSET (Nat \X Messages)]

Types ==
    /\ TypeOK
    /\ todo \in [Clients -> Seq(Statements)]
    /\ got \in [Clients -> GotType]
    /\ \A x \in db \cup work : x.table # "items" => x.ord = 0

\* Where a call is says what there is of it; what is left of it is the rest of
\* its plan, and its list is the events of what it has executed.
Place(c) ==
    /\ pc[c] = "idle" => pend[c] = <<>>
    /\ pc[c] # "idle" => call[c] \in Calls
    /\ pc[c] = "exec" => call[c].op # "read"
    /\ pc[c] \in {"row", "ref", "items"} => call[c].op = "read" /\ pend[c] = <<>>
    /\ pc[c] # "fire" => sent[c] = <<>>
    /\ pc[c] \in {"idle", "exec", "row"} => got[c] = Nothing
Progress(c) ==
    pc[c] = "exec" =>
        /\ Len(todo[c]) <= Len(Plan(call[c]))
        /\ \A i \in 1..Len(todo[c]) : todo[c][i] = Plan(call[c])[At(c) + i]
Listed(c) ==
    /\ pc[c] = "exec" =>
          /\ Len(pend[c]) <= Len(EventsOf(call[c]))
          /\ \A i \in 1..Len(pend[c]) : pend[c][i] = EventsOf(call[c])[i]
          /\ \A i \in 1..Len(EventsOf(call[c])) :
                i <= Len(pend[c]) <=> FirePos(call[c])[i] <= At(c)
    /\ pc[c] = "fire" => sent[c] \o pend[c] = EventsOf(call[c])

\* Only the holder of the lock, in its call or left behind by a commit() that
\* failed, has executed anything, and its working copy is the committed rows
\* after that.
Holder ==
    /\ lock # None => pc[lock] \in {"exec", "left"} /\ work = After(db, Done(lock))
    /\ \A c \in Clients : pc[c] = "exec" /\ lock # c => At(c) = 0

\* A create() or import that has got this far met no key twice.
Fresh ==
    lock # None /\ call[lock].op \in {"create", "import"} =>
        \A i \in 1..At(lock) : Plan(call[lock])[i].kind = "insert" =>
            /\ Hits(db, Plan(call[lock])[i]) = {}
            /\ \A h \in 1..(i - 1) : Plan(call[lock])[h].kind = "insert" =>
                  Hits({RowOf(Plan(call[lock])[h])}, Plan(call[lock])[i]) = {}

\* What a read() has loaded so far is as the rows are, if no commit fell in.
Reading(c) ==
    ~raced[c] /\ ~missed =>
        /\ pc[c] \in {"ref", "items"} =>
              \E x \in db : /\ x.table = "main" /\ x.owner = call[c].id
                            /\ x.msg = got[c].main
        /\ pc[c] = "items" => (RefOf[got[c].main] # None => got[c].ref)
        /\ pc[c] = "fire" => Whole(got[c])

IInv ==
    /\ Types /\ Holder /\ Fresh
    /\ \A c \in Clients : Place(c) /\ Progress(c) /\ Listed(c)

-----------------------------------------------------------------------------
(* Plans are put together from pieces. *)

\* Plan P consists of the statements D, in an order in which they do not
\* disturb each other, and defers the publications E.
Piece(P, D, E) ==
    /\ P \in Seq(Statements) /\ StmtsOf(P) = D /\ Ordered(P)
    /\ E \in Seq(Events) /\ Fires(P, E)

\* The elements of a concatenation.
LEMMA ConcatElements ==
    ASSUME NEW S, NEW P \in Seq(S), NEW Q \in Seq(S)
    PROVE  /\ P \o Q \in Seq(S)
           /\ Len(P) \in Nat /\ Len(Q) \in Nat /\ Len(P \o Q) = Len(P) + Len(Q)
           /\ \A i \in 1..Len(P) : i \in 1..Len(P \o Q) /\ (P \o Q)[i] = P[i]
           /\ \A i \in 1..Len(Q) : /\ Len(P) + i \in 1..Len(P \o Q)
                                   /\ (P \o Q)[Len(P) + i] = Q[i]
           /\ \A i \in 1..Len(P \o Q) : \/ i \in 1..Len(P)
                                        \/ \E h \in 1..Len(Q) : i = Len(P) + h
           /\ StmtsOf(P \o Q) = StmtsOf(P) \cup StmtsOf(Q)
  <1>1. /\ P \o Q \in Seq(S)
        /\ Len(P \o Q) = Len(P) + Len(Q)
        /\ \A i \in 1..(Len(P) + Len(Q)) :
              (P \o Q)[i] = IF i <= Len(P) THEN P[i] ELSE Q[i - Len(P)]
    BY ConcatProperties
  <1>2. Len(P) \in Nat /\ Len(Q) \in Nat
    OBVIOUS
  <1> DEFINE R == P \o Q
             a == Len(P)
             b == Len(Q)
  <1> HIDE DEF R, a, b
  <1>3. /\ R \in Seq(S) /\ Len(R) = a + b /\ a \in Nat /\ b \in Nat
        /\ \A i \in 1..(a + b) : R[i] = IF i <= a THEN P[i] ELSE Q[i - a]
    BY <1>1, <1>2 DEF R, a, b
  <1>4. \A i \in 1..a : i \in 1..Len(R) /\ R[i] = P[i]
    BY <1>3
  <1>5. ASSUME NEW i \in 1..b PROVE a + i \in 1..Len(R) /\ R[a + i] = Q[i]
    <2>1. a + i \in 1..(a + b) /\ ~(a + i <= a) /\ (a + i) - a = i
      BY <1>3
    <2> QED BY <1>3, <2>1
  <1>6. ASSUME NEW i \in 1..Len(R) PROVE i \in 1..a \/ \E h \in 1..b : i = a + h
    <2>1. i \in 1..a \/ (i - a \in 1..b /\ i = a + (i - a))
      BY <1>3
    <2> QED BY <2>1
  <1>7. StmtsOf(R) = StmtsOf(P) \cup StmtsOf(Q)
    <2>1. ASSUME NEW x \in StmtsOf(R) PROVE x \in StmtsOf(P) \cup StmtsOf(Q)
      <3>1. PICK i \in 1..Len(R) : x = R[i]
        BY <2>1 DEF StmtsOf
      <3>2. CASE i \in 1..a
        BY <1>4, <3>1, <3>2 DEF StmtsOf, a
      <3>3. ASSUME NEW h \in 1..b, i = a + h PROVE x \in StmtsOf(Q)
        BY <1>5, <3>1, <3>3 DEF StmtsOf, b
      <3> QED BY <1>6, <3>2, <3>3
    <2>2. ASSUME NEW x \in StmtsOf(P) PROVE x \in StmtsOf(R)
      BY <1>4, <2>2 DEF StmtsOf, a
    <2>3. ASSUME NEW x \in StmtsOf(Q) PROVE x \in StmtsOf(R)
      BY <1>5, <2>3 DEF StmtsOf, b
    <2> QED BY <2>1, <2>2, <2>3
  <1> QED BY <1>3, <1>4, <1>5, <1>6, <1>7 DEF R, a, b

\* The second part does not clear what the first has written.
LEMMA OrderedConcat ==
    ASSUME NEW P \in Seq(Statements), NEW Q \in Seq(Statements), Ordered(P), Ordered(Q),
           \A s \in StmtsOf(Q) : Clears(s, StmtsOf(P))
    PROVE  Ordered(P \o Q)
  <1> DEFINE R == P \o Q
             a == Len(P)
  <1>1. /\ R \in Seq(Statements) /\ a \in Nat /\ Len(Q) \in Nat /\ Len(R) = a + Len(Q)
        /\ \A i \in 1..a : i \in 1..Len(R) /\ R[i] = P[i]
        /\ \A i \in 1..Len(Q) : a + i \in 1..Len(R) /\ R[a + i] = Q[i]
        /\ \A i \in 1..Len(R) : i \in 1..a \/ \E h \in 1..Len(Q) : i = a + h
    BY ConcatElements
  <1> HIDE DEF R
  <1> SUFFICES ASSUME NEW i \in 1..Len(R) PROVE Clears(R[i], {R[h] : h \in 1..(i - 1)})
    BY DEF Ordered, R
  <1>2. CASE i \in 1..a
    <2>1. \A h \in 1..(i - 1) : h \in 1..a /\ R[h] = P[h]
      BY <1>1, <1>2
    <2>2. {R[h] : h \in 1..(i - 1)} = {P[h] : h \in 1..(i - 1)}
      BY <2>1
    <2>3. R[i] = P[i]
      BY <1>1, <1>2
    <2> QED BY <1>2, <2>2, <2>3 DEF Ordered, a
  <1>3. ASSUME NEW g \in 1..Len(Q), i = a + g PROVE Clears(R[i], {R[h] : h \in 1..(i - 1)})
    <2>1. R[i] = Q[g] /\ Q[g] \in StmtsOf(Q)
      BY <1>1, <1>3 DEF StmtsOf
    <2>2. ASSUME NEW h \in 1..(i - 1)
          PROVE  R[h] \in StmtsOf(P) \/ R[h] \in {Q[f] : f \in 1..(g - 1)}
      <3>1. CASE h \in 1..a
        BY <1>1, <3>1 DEF StmtsOf, a
      <3>2. CASE h \notin 1..a
        <4>1. h \in 1..Len(R)
          BY <1>1, <1>3
        <4>2. PICK f \in 1..Len(Q) : h = a + f
          BY <1>1, <3>2, <4>1
        <4>3. f \in 1..(g - 1)
          BY <1>1, <1>3, <4>2
        <4>4. R[h] = Q[f]
          BY <1>1, <4>2
        <4> QED BY <4>3, <4>4
      <3> QED BY <3>1, <3>2
    <2>3. Clears(Q[g], StmtsOf(P)) /\ Clears(Q[g], {Q[f] : f \in 1..(g - 1)})
      BY <2>1 DEF Ordered
    <2> QED BY <2>1, <2>2, <2>3 DEF Clears
  <1> QED BY <1>1, <1>2, <1>3

\* The publications of two parts follow one another.
LEMMA FiresConcat ==
    ASSUME NEW P \in Seq(Statements), NEW Q \in Seq(Statements),
           NEW E \in Seq(Events), NEW G \in Seq(Events), Fires(P, E), Fires(Q, G)
    PROVE  Fires(P \o Q, E \o G)
  <1> DEFINE R == P \o Q
             H == E \o G
             a == Len(P)
             e == Len(E)
  <1>1. /\ R \in Seq(Statements) /\ a \in Nat /\ Len(Q) \in Nat /\ Len(R) = a + Len(Q)
        /\ \A i \in 1..a : i \in 1..Len(R) /\ R[i] = P[i]
        /\ \A i \in 1..Len(Q) : a + i \in 1..Len(R) /\ R[a + i] = Q[i]
        /\ \A i \in 1..Len(R) : i \in 1..a \/ \E h \in 1..Len(Q) : i = a + h
    BY ConcatElements
  <1>2. /\ H \in Seq(Events) /\ e \in Nat /\ Len(G) \in Nat /\ Len(H) = e + Len(G)
        /\ \A i \in 1..e : i \in 1..Len(H) /\ H[i] = E[i]
        /\ \A i \in 1..Len(G) : e + i \in 1..Len(H) /\ H[e + i] = G[i]
        /\ \A i \in 1..Len(H) : i \in 1..e \/ \E h \in 1..Len(G) : i = e + h
    BY ConcatElements
  <1> HIDE DEF R, H
  <1>3. PICK F \in [1..Len(E) -> 1..Len(P)] : FiresAt(F, P, E)
    BY DEF Fires
  <1>4. PICK K \in [1..Len(G) -> 1..Len(Q)] : FiresAt(K, Q, G)
    BY DEF Fires
  <1> HIDE DEF a, e
  <1>5. /\ F \in [1..e -> 1..a]
        /\ \A i, j \in 1..e : i < j => F[i] < F[j]
        /\ \A i \in 1..e : P[F[i]].kind = "fire" /\ E[i] = <<P[F[i]].table, P[F[i]].msg>>
        /\ \A j \in 1..a : P[j].kind = "fire" => \E i \in 1..e : F[i] = j
    BY <1>3 DEF FiresAt, a, e
  <1>6. /\ K \in [1..Len(G) -> 1..Len(Q)]
        /\ \A i, j \in 1..Len(G) : i < j => K[i] < K[j]
        /\ \A i \in 1..Len(G) : Q[K[i]].kind = "fire" /\ G[i] = <<Q[K[i]].table, Q[K[i]].msg>>
        /\ \A j \in 1..Len(Q) : Q[j].kind = "fire" => \E i \in 1..Len(G) : K[i] = j
    BY <1>4 DEF FiresAt
  <1> DEFINE J == [i \in 1..Len(H) |-> IF i \in 1..e THEN F[i] ELSE a + K[i - e]]
  <1>7. \A i \in 1..e : J[i] = F[i] /\ J[i] \in 1..a
    BY <1>2, <1>5
  <1>8. ASSUME NEW i \in 1..Len(G) PROVE J[e + i] = a + K[i] /\ K[i] \in 1..Len(Q)
    <2>1. e + i \notin 1..e /\ (e + i) - e = i /\ e + i \in 1..Len(H)
      BY <1>2
    <2> QED BY <1>6, <2>1
  <1>9. DOMAIN J = 1..Len(H)
    OBVIOUS
  <1>0. J = [i \in DOMAIN J |-> J[i]]
    OBVIOUS
  <1> HIDE DEF J
  <1>10. J \in [1..Len(H) -> 1..Len(R)]
    <2>1. ASSUME NEW i \in 1..Len(H) PROVE J[i] \in 1..Len(R)
      <3>1. CASE i \in 1..e
        BY <1>1, <1>7, <3>1
      <3>2. ASSUME NEW h \in 1..Len(G), i = e + h PROVE J[i] \in 1..Len(R)
        BY <1>1, <1>8, <3>2
      <3> QED BY <1>2, <3>1, <3>2
    <2> QED BY <1>0, <1>9, <2>1
  <1>11. ASSUME NEW i \in 1..Len(H), NEW j \in 1..Len(H), i < j PROVE J[i] < J[j]
    <2>1. CASE j \in 1..e
      <3>1. i \in 1..e
        BY <1>2, <1>11, <2>1
      <3> QED BY <1>5, <1>7, <1>11, <2>1, <3>1
    <2>2. ASSUME NEW h \in 1..Len(G), j = e + h PROVE J[i] < J[j]
      <3>1. J[j] = a + K[h] /\ K[h] \in 1..Len(Q)
        BY <1>8, <2>2
      <3>2. CASE i \in 1..e
        <4>1. J[i] \in 1..a
          BY <1>7, <3>2
        <4> QED BY <1>1, <3>1, <4>1
      <3>3. ASSUME NEW g \in 1..Len(G), i = e + g PROVE J[i] < J[j]
        <4>1. g < h
          BY <1>2, <1>11, <2>2, <3>3
        <4>2. K[g] < K[h] /\ J[i] = a + K[g] /\ K[g] \in 1..Len(Q)
          BY <1>6, <1>8, <3>3, <4>1
        <4> QED BY <1>1, <3>1, <4>2
      <3> QED BY <1>2, <3>2, <3>3
    <2> QED BY <1>2, <2>1, <2>2
  <1>12. ASSUME NEW i \in 1..Len(H)
         PROVE  R[J[i]].kind = "fire" /\ H[i] = <<R[J[i]].table, R[J[i]].msg>>
    <2>1. CASE i \in 1..e
      <3>1. J[i] = F[i] /\ R[J[i]] = P[F[i]] /\ H[i] = E[i]
        BY <1>1, <1>2, <1>7, <2>1
      <3> QED BY <1>5, <2>1, <3>1
    <2>2. ASSUME NEW h \in 1..Len(G), i = e + h
          PROVE  R[J[i]].kind = "fire" /\ H[i] = <<R[J[i]].table, R[J[i]].msg>>
      <3>1. J[i] = a + K[h] /\ R[J[i]] = Q[K[h]] /\ H[i] = G[h]
        BY <1>1, <1>2, <1>8, <2>2
      <3> QED BY <1>6, <3>1
    <2> QED BY <1>2, <2>1, <2>2
  <1>13. ASSUME NEW j \in 1..Len(R), R[j].kind = "fire" PROVE \E i \in 1..Len(H) : J[i] = j
    <2>1. CASE j \in 1..a
      <3>1. PICK i \in 1..e : F[i] = j
        BY <1>1, <1>5, <1>13, <2>1
      <3> QED BY <1>2, <1>7, <3>1
    <2>2. ASSUME NEW h \in 1..Len(Q), j = a + h PROVE \E i \in 1..Len(H) : J[i] = j
      <3>1. PICK i \in 1..Len(G) : K[i] = h
        BY <1>1, <1>6, <1>13, <2>2
      <3> QED BY <1>2, <1>8, <2>2, <3>1
    <2> QED BY <1>1, <2>1, <2>2
  <1>14. FiresAt(J, R, H)
    BY <1>10, <1>11, <1>12, <1>13 DEF FiresAt
  <1> QED BY <1>10, <1>14 DEF Fires, R, H

\* Two pieces make a piece.
LEMMA PieceConcat ==
    ASSUME NEW P, NEW D, NEW E, NEW Q, NEW B, NEW G, Piece(P, D, E), Piece(Q, B, G),
           \A s \in B : Clears(s, D)
    PROVE  Piece(P \o Q, D \cup B, E \o G)
  <1>1. P \in Seq(Statements) /\ Q \in Seq(Statements) /\ E \in Seq(Events) /\ G \in Seq(Events)
        /\ Ordered(P) /\ Ordered(Q) /\ Fires(P, E) /\ Fires(Q, G)
        /\ StmtsOf(P) = D /\ StmtsOf(Q) = B
    BY DEF Piece
  <1>2. P \o Q \in Seq(Statements) /\ StmtsOf(P \o Q) = D \cup B
    BY <1>1, ConcatElements
  <1>3. E \o G \in Seq(Events)
    BY <1>1, ConcatElements
  <1>4. Ordered(P \o Q)
    BY <1>1, OrderedConcat
  <1>5. Fires(P \o Q, E \o G)
    BY <1>1, FiresConcat
  <1> QED BY <1>2, <1>3, <1>4, <1>5 DEF Piece

\* A part without publications.
LEMMA QuietPiece ==
    ASSUME NEW P \in Seq(Statements), Ordered(P), \A s \in StmtsOf(P) : s.kind # "fire"
    PROVE  Piece(P, StmtsOf(P), <<>>)
  <1>1. <<>> \in Seq(Events) /\ Len(<<>>) = 0 /\ 1..0 = {}
    OBVIOUS
  <1> DEFINE F == [i \in 1..0 |-> 1]
  <1>2. F \in [1..Len(<<>>) -> 1..Len(P)]
    BY <1>1
  <1>3. \A j \in 1..Len(P) : P[j].kind # "fire"
    BY DEF StmtsOf
  <1>4. FiresAt(F, P, <<>>)
    BY <1>1, <1>2, <1>3 DEF FiresAt
  <1> QED BY <1>1, <1>2, <1>4 DEF Piece, Fires

\* The statements of a plan, and the publications of a message.
Main(kind, m)  == Stmt(kind, "main", IdOf[m], 0, m)
Wipe(m)        == Stmt("wipe", "items", IdOf[m], 0, m)
Item(m, n)     == Stmt("insert", "items", IdOf[m], n, m)
FireS(t, m)    == Stmt("fire", t, None, 0, m)
RefStmts(kind, m) ==
    IF RefOf[m] = None THEN {} ELSE {Stmt(kind, "ref", RefOf[m], 0, m), FireS("ref", m)}
ItemStmts(m)   == {Item(m, n) : n \in 1..SizeOf[m]}
CreateStmts(m) ==
    RefStmts("insert", m) \cup {Main("insert", m)} \cup ItemStmts(m) \cup {FireS("main", m)}
UpdateStmts(m) ==
    RefStmts("update", m) \cup {Main("update", m), Wipe(m)} \cup ItemStmts(m)
       \cup {FireS("main", m)}
RefEvents(m)   == IF RefOf[m] = None THEN <<>> ELSE << <<"ref", m>> >>
EventsOfMsg(m) == RefEvents(m) \o << <<"main", m>> >>

\* The fields of a statement and of a row.
LEMMA Fields ==
    /\ \A kind, t, o, n, m :
          /\ Stmt(kind, t, o, n, m).kind = kind /\ Stmt(kind, t, o, n, m).table = t
          /\ Stmt(kind, t, o, n, m).owner = o /\ Stmt(kind, t, o, n, m).ord = n
          /\ Stmt(kind, t, o, n, m).msg = m
    /\ \A t, o, n, m :
          /\ Row(t, o, n, m).table = t /\ Row(t, o, n, m).owner = o
          /\ Row(t, o, n, m).ord = n /\ Row(t, o, n, m).msg = m
  BY DEF Stmt, Row

\* The statements the code makes are good ones.
LEMMA GoodStatements ==
    ASSUME NEW m \in Messages
    PROVE  /\ \A kind \in {"insert", "update"} : Main(kind, m) \in Statements
           /\ \A kind \in {"insert", "update"} : Stmt(kind, "ref", RefOf[m], 0, m) \in Statements
           /\ Wipe(m) \in Statements /\ ItemStmts(m) \subseteq Statements
           /\ \A t \in {"ref", "main"} : FireS(t, m) \in Statements
           /\ Stmt("delete", "main", IdOf[m], 0, None) \in Statements
           /\ Stmt("wipe", "items", IdOf[m], 0, None) \in Statements
  <1> DEFINE T == [kind : {"insert", "update", "delete", "wipe", "fire"},
                   table : {"ref", "main", "items"}, owner : Owners \cup {None},
                   ord : Nat, msg : Messages \cup {None}]
             N == UNION {0..SizeOf[q] : q \in Messages}
  <1>0. SizeOf[m] \in Nat
    BY SizeAssumption
  <1>1. IdOf[m] \in Owners /\ RefOf[m] \in Owners
    BY DEF Owners, Ids
  <1>2. 0 \in N /\ \A n \in 1..SizeOf[m] : n \in N /\ n \in Nat
    <2>1. 0 \in 0..SizeOf[m] /\ \A n \in 1..SizeOf[m] : n \in 0..SizeOf[m] /\ n \in Nat
      BY <1>0
    <2> QED BY <2>1
  <1> HIDE DEF N
  <1>3. \A t \in {"ref", "main", "items"}, o \in Owners, n \in N : Row(t, o, n, m) \in Rows
    BY SMTT(30) DEF Rows, Owners, N
  <1>4. \A t \in {"ref", "main"} : <<t, m>> \in Events
    BY DEF Events
  <1>5. \A kind \in {"insert", "update", "delete", "wipe", "fire"},
           t \in {"ref", "main", "items"}, o \in Owners \cup {None}, n \in Nat,
           q \in Messages \cup {None} : Stmt(kind, t, o, n, q) \in T
    BY DEF Stmt
  <1>6. \A s \in T : Good(s) => s \in Statements
    BY DEF Statements
  <1> HIDE DEF T
  <1>7. ASSUME NEW kind \in {"insert", "update"}, NEW t \in {"ref", "main"}, NEW o \in Owners
        PROVE  Stmt(kind, t, o, 0, m) \in Statements
    <2>1. Good(Stmt(kind, t, o, 0, m))
      BY <1>2, <1>3, Fields DEF Good
    <2> QED BY <1>5, <1>6, <2>1
  <1>8. ASSUME NEW q \in Messages \cup {None}
        PROVE  /\ Stmt("wipe", "items", IdOf[m], 0, q) \in Statements
               /\ Stmt("delete", "main", IdOf[m], 0, q) \in Statements
    <2>1. Good(Stmt("wipe", "items", IdOf[m], 0, q)) /\ Good(Stmt("delete", "main", IdOf[m], 0, q))
      BY Fields DEF Good
    <2> QED BY <1>1, <1>5, <1>6, <2>1
  <1>9. ASSUME NEW n \in 1..SizeOf[m] PROVE Item(m, n) \in Statements
    <2>1. Good(Stmt("insert", "items", IdOf[m], n, m))
      BY <1>1, <1>2, <1>3, Fields DEF Good
    <2> QED BY <1>1, <1>2, <1>5, <1>6, <2>1 DEF Item
  <1>10. ASSUME NEW t \in {"ref", "main"} PROVE FireS(t, m) \in Statements
    <2>1. Good(Stmt("fire", t, None, 0, m))
      BY <1>4, Fields DEF Good
    <2> QED BY <1>5, <1>6, <2>1 DEF FireS
  <1> QED BY <1>1, <1>7, <1>8, <1>9, <1>10 DEF Main, Wipe, ItemStmts

\* One statement.
LEMMA OnePiece ==
    ASSUME NEW s \in Statements
    PROVE  /\ <<s>> \in Seq(Statements) /\ StmtsOf(<<s>>) = {s} /\ Ordered(<<s>>)
           /\ s.kind # "fire" => Piece(<<s>>, {s}, <<>>)
           /\ s.kind = "fire" => Piece(<<s>>, {s}, << <<s.table, s.msg>> >>)
  <1>1. <<s>> \in Seq(Statements) /\ Len(<<s>>) = 1 /\ <<s>>[1] = s /\ 1..1 = {1} /\ 1..0 = {}
    OBVIOUS
  <1>2. StmtsOf(<<s>>) = {s}
    BY <1>1 DEF StmtsOf
  <1>3. Ordered(<<s>>)
    BY <1>1 DEF Ordered, Clears
  <1>4. s.kind # "fire" => Piece(<<s>>, {s}, <<>>)
    BY <1>1, <1>2, <1>3, QuietPiece
  <1>5. ASSUME s.kind = "fire" PROVE Piece(<<s>>, {s}, << <<s.table, s.msg>> >>)
    <2> DEFINE E == << <<s.table, s.msg>> >>
               F == [i \in 1..1 |-> 1]
    <2>1. <<s.table, s.msg>> \in Events
      BY <1>5 DEF Statements, Good
    <2>2. E \in Seq(Events) /\ Len(E) = 1 /\ E[1] = <<s.table, s.msg>>
      BY <2>1
    <2>3. F \in [1..1 -> 1..1] /\ F[1] = 1
      BY <1>1
    <2> HIDE DEF E, F
    <2>4. FiresAt(F, <<s>>, E)
      <3>1. \A i, j \in 1..1 : ~(i < j)
        BY <1>1
      <3> QED BY <1>1, <1>5, <2>2, <2>3, <3>1 DEF FiresAt
    <2>5. Fires(<<s>>, E)
      BY <1>1, <2>2, <2>3, <2>4 DEF Fires
    <2> QED BY <1>1, <1>2, <1>3, <2>2, <2>5 DEF Piece, E
  <1> QED BY <1>1, <1>2, <1>3, <1>4, <1>5

\* The FK child's part of a plan.
LEMMA RefPiece ==
    ASSUME NEW m \in Messages, NEW kind \in {"insert", "update"}
    PROVE  Piece(RefPlan(kind, m), RefStmts(kind, m), RefEvents(m))
  <1>1. CASE RefOf[m] = None
    <2>1. <<>> \in Seq(Statements) /\ Len(<<>>) = 0 /\ 1..0 = {}
      OBVIOUS
    <2>2. StmtsOf(<<>>) = {} /\ Ordered(<<>>)
      BY <2>1 DEF StmtsOf, Ordered
    <2>3. Piece(<<>>, {}, <<>>)
      BY <2>1, <2>2, QuietPiece
    <2> QED BY <1>1, <2>3 DEF RefPlan, RefStmts, RefEvents
  <1>2. CASE RefOf[m] # None
    <2> DEFINE s == Stmt(kind, "ref", RefOf[m], 0, m)
               f == FireS("ref", m)
    <2>1. s \in Statements /\ s.kind = kind /\ f \in Statements
          /\ f.kind = "fire" /\ f.table = "ref" /\ f.msg = m
      BY GoodStatements, Fields DEF FireS
    <2> HIDE DEF s, f
    <2>2. Piece(<<s>>, {s}, <<>>)
      BY <2>1, OnePiece
    <2>3. Piece(<<f>>, {f}, << <<"ref", m>> >>)
      BY <2>1, OnePiece
    <2>4. Clears(f, {s})
      BY <2>1 DEF Clears
    <2>5. Piece(<<s>> \o <<f>>, {s} \cup {f}, <<>> \o << <<"ref", m>> >>)
      BY <2>2, <2>3, <2>4, PieceConcat
    <2>6. <<>> \o << <<"ref", m>> >> = << <<"ref", m>> >>
      <3>1. << <<"ref", m>> >> \in Seq(Events)
        BY <2>3 DEF Piece
      <3> QED BY <3>1, ConcatEmptySeq
    <2>7. {s} \cup {f} = {s, f}
      OBVIOUS
    <2> QED BY <1>2, <2>5, <2>6, <2>7 DEF RefPlan, RefStmts, RefEvents, Fire, FireS, s, f
  <1> QED BY <1>1, <1>2

\* _write_child()'s part.
LEMMA ItemPiece ==
    ASSUME NEW m \in Messages
    PROVE  Piece(ItemPlan(m), ItemStmts(m), <<>>)
  <1> DEFINE n == SizeOf[m]
             P == ItemPlan(m)
  <1>1. n \in Nat
    BY SizeAssumption
  <1>2. P = [i \in 1..n |-> Item(m, i)]
    BY DEF ItemPlan, Item
  <1>3. \A i \in 1..n : Item(m, i) \in Statements /\ Item(m, i).kind = "insert"
    BY GoodStatements, Fields DEF ItemStmts, Item
  <1> HIDE DEF n, P
  <1>4. P \in [1..n -> Statements] /\ \A i \in 1..n : P[i] = Item(m, i)
    BY <1>2, <1>3
  <1>5. P \in Seq(Statements) /\ Len(P) = n
    BY <1>1, <1>4
  <1>6. StmtsOf(P) = ItemStmts(m) /\ \A s \in StmtsOf(P) : s.kind = "insert"
    BY <1>3, <1>4, <1>5 DEF StmtsOf, ItemStmts, n
  <1>7. Ordered(P)
    BY <1>3, <1>4, <1>5 DEF Ordered, Clears
  <1>8. Piece(P, StmtsOf(P), <<>>)
    BY <1>5, <1>6, <1>7, QuietPiece
  <1> QED BY <1>6, <1>8 DEF P

\* A plan begins with a write, not a publication.
Starts(P) == Len(P) > 0 /\ P[1].kind # "fire"

LEMMA StartsConcat ==
    ASSUME NEW P \in Seq(Statements), NEW Q \in Seq(Statements)
    PROVE  /\ Starts(P) => Starts(P \o Q)
           /\ P = <<>> /\ Starts(Q) => Starts(P \o Q)
  <1>1. /\ Len(P) \in Nat /\ Len(Q) \in Nat /\ Len(P \o Q) = Len(P) + Len(Q)
        /\ \A i \in 1..Len(P) : (P \o Q)[i] = P[i]
    BY ConcatElements
  <1>2. ASSUME Starts(P) PROVE Starts(P \o Q)
    <2>1. 1 \in 1..Len(P) /\ Len(P) + Len(Q) > 0
      BY <1>1, <1>2 DEF Starts
    <2> QED BY <1>1, <1>2, <2>1 DEF Starts
  <1>3. P = <<>> => P \o Q = Q
    BY ConcatEmptySeq
  <1> QED BY <1>2, <1>3

\* The FK child's part and the row, which begin a _create() or _update().
LEMMA HeadPiece ==
    ASSUME NEW m \in Messages, NEW kind \in {"insert", "update"},
           NEW Q, NEW B, Piece(Q, B, <<>>), Starts(Q),
           \A s \in B : Clears(s, RefStmts(kind, m))
    PROVE  /\ Piece(RefPlan(kind, m) \o Q, RefStmts(kind, m) \cup B, RefEvents(m))
           /\ Starts(RefPlan(kind, m) \o Q)
  <1>1. Piece(RefPlan(kind, m), RefStmts(kind, m), RefEvents(m))
    BY RefPiece
  <1>2. Piece(RefPlan(kind, m) \o Q, RefStmts(kind, m) \cup B, RefEvents(m) \o <<>>)
    BY <1>1, PieceConcat
  <1>3. RefEvents(m) \o <<>> = RefEvents(m)
    BY <1>1, ConcatEmptySeq DEF Piece
  <1>4. RefPlan(kind, m) = <<>> \/ Starts(RefPlan(kind, m))
    <2> DEFINE s == Stmt(kind, "ref", RefOf[m], 0, m)
               f == FireS("ref", m)
    <2>1. s.kind = kind /\ s \in Statements /\ f \in Statements
      BY GoodStatements, Fields
    <2>2. RefPlan(kind, m) = <<>> \/ RefPlan(kind, m) = <<s>> \o <<f>>
      BY DEF RefPlan, Fire, FireS
    <2> HIDE DEF s, f
    <2>3. Len(<<s>>) = 1 /\ <<s>>[1] = s /\ <<s>> \in Seq(Statements) /\ <<f>> \in Seq(Statements)
      BY <2>1
    <2>4. Starts(<<s>>)
      BY <2>1, <2>3 DEF Starts
    <2>5. Starts(<<s>> \o <<f>>)
      BY <2>3, <2>4, StartsConcat
    <2> QED BY <2>2, <2>5
  <1>5. RefPlan(kind, m) \in Seq(Statements) /\ Q \in Seq(Statements)
    BY <1>1 DEF Piece
  <1>6. Starts(RefPlan(kind, m) \o Q)
    BY <1>4, <1>5, StartsConcat
  <1> QED BY <1>2, <1>3, <1>6

\* The items and the publication, which end it.
LEMMA TailPiece ==
    ASSUME NEW m \in Messages, NEW P, NEW D, Piece(P, D, RefEvents(m)), Starts(P)
    PROVE  /\ Piece(P \o ItemPlan(m) \o Fire("main", m),
                    D \cup ItemStmts(m) \cup {FireS("main", m)}, EventsOfMsg(m))
           /\ Starts(P \o ItemPlan(m) \o Fire("main", m))
  <1> DEFINE f == FireS("main", m)
  <1>1. f \in Statements /\ f.kind = "fire" /\ f.table = "main" /\ f.msg = m
    BY GoodStatements, Fields DEF FireS
  <1>2. Piece(ItemPlan(m), ItemStmts(m), <<>>)
    BY ItemPiece
  <1>3. Fire("main", m) = <<f>>
    BY DEF Fire, FireS
  <1>4. \A s \in ItemStmts(m) : s.kind = "insert"
    BY Fields DEF ItemStmts, Item
  <1> HIDE DEF f
  <1>5. Piece(<<f>>, {f}, << <<"main", m>> >>)
    BY <1>1, OnePiece
  <1>6. (\A s \in ItemStmts(m) : Clears(s, D)) /\ Clears(f, D \cup ItemStmts(m))
    BY <1>1, <1>4 DEF Clears
  <1>7. Piece(P \o ItemPlan(m), D \cup ItemStmts(m), RefEvents(m) \o <<>>)
    BY <1>2, <1>6, PieceConcat
  <1>8. RefEvents(m) \o <<>> = RefEvents(m)
    BY ConcatEmptySeq DEF Piece
  <1>9. Piece(P \o ItemPlan(m) \o <<f>>, D \cup ItemStmts(m) \cup {f}, EventsOfMsg(m))
    BY <1>5, <1>6, <1>7, <1>8, PieceConcat DEF EventsOfMsg
  <1>10. P \in Seq(Statements) /\ ItemPlan(m) \in Seq(Statements) /\ <<f>> \in Seq(Statements)
         /\ P \o ItemPlan(m) \in Seq(Statements)
    BY <1>2, <1>5, <1>7 DEF Piece
  <1>11. Starts(P \o ItemPlan(m))
    BY <1>10, StartsConcat
  <1>12. Starts(P \o ItemPlan(m) \o <<f>>)
    BY <1>10, <1>11, StartsConcat
  <1> QED BY <1>3, <1>9, <1>12 DEF f

\* What the tables of the FK child's statements are.
LEMMA RefTables ==
    ASSUME NEW m, NEW kind, NEW s \in RefStmts(kind, m)
    PROVE  s.table = "ref" /\ s.kind \in {kind, "fire"}
  BY Fields DEF RefStmts, FireS

\* _create().
LEMMA CreatePiece ==
    ASSUME NEW m \in Messages
    PROVE  Piece(CreatePlan(m), CreateStmts(m), EventsOfMsg(m)) /\ Starts(CreatePlan(m))
  <1> DEFINE s == Main("insert", m)
             P == RefPlan("insert", m) \o <<s>>
  <1>1. s \in Statements /\ s.kind = "insert"
    BY GoodStatements, Fields DEF Main
  <1>2. CreatePlan(m) = P \o ItemPlan(m) \o Fire("main", m)
    BY DEF CreatePlan, Main
  <1>3. CreateStmts(m) = (RefStmts("insert", m) \cup {s}) \cup ItemStmts(m) \cup {FireS("main", m)}
    BY DEF CreateStmts
  <1> HIDE DEF s
  <1>4. Piece(<<s>>, {s}, <<>>)
    BY <1>1, OnePiece
  <1>5. Starts(<<s>>)
    BY <1>1 DEF Starts
  <1>6. \A d \in {s} : Clears(d, RefStmts("insert", m))
    BY <1>1 DEF Clears
  <1>7. Piece(P, RefStmts("insert", m) \cup {s}, RefEvents(m)) /\ Starts(P)
    BY <1>4, <1>5, <1>6, HeadPiece
  <1> HIDE DEF P
  <1> QED BY <1>2, <1>3, <1>7, TailPiece

\* A row written or deleted, then the items deleted.
LEMMA PairPiece ==
    ASSUME NEW s \in Statements, NEW w \in Statements, s.kind \in {"update", "delete"},
           w.kind = "wipe", s.table # w.table
    PROVE  Piece(<<s, w>>, {s, w}, <<>>) /\ Starts(<<s, w>>)
  <1> DEFINE P == <<s, w>>
  <1>1. P \in Seq(Statements) /\ Len(P) = 2 /\ P[1] = s /\ P[2] = w
    OBVIOUS
  <1> HIDE DEF P
  <1>2. 1..2 = {1, 2} /\ 1..1 = {1} /\ 1..0 = {} /\ 1 - 1 = 0 /\ 2 - 1 = 1
    OBVIOUS
  <1>3. StmtsOf(P) = {s, w} /\ \A d \in StmtsOf(P) : d.kind # "fire"
    BY <1>1, <1>2 DEF StmtsOf
  <1>4. Ordered(P)
    <2>1. Clears(P[1], {P[h] : h \in 1..0}) /\ Clears(P[2], {P[h] : h \in 1..1})
      BY <1>1, <1>2 DEF Clears
    <2> QED BY <1>1, <1>2, <2>1 DEF Ordered
  <1>5. Piece(P, StmtsOf(P), <<>>)
    BY <1>1, <1>3, <1>4, QuietPiece
  <1>6. Starts(P)
    BY <1>1 DEF Starts
  <1> QED BY <1>3, <1>5, <1>6 DEF P

\* _update().
LEMMA UpdatePiece ==
    ASSUME NEW m \in Messages
    PROVE  Piece(UpdatePlan(m), UpdateStmts(m), EventsOfMsg(m)) /\ Starts(UpdatePlan(m))
  <1> DEFINE s == Main("update", m)
             w == Wipe(m)
             P == RefPlan("update", m) \o <<s, w>>
  <1>1. /\ s \in Statements /\ s.kind = "update" /\ s.table = "main"
        /\ w \in Statements /\ w.kind = "wipe" /\ w.table = "items"
    BY GoodStatements, Fields DEF Main, Wipe
  <1>2. UpdatePlan(m) = P \o ItemPlan(m) \o Fire("main", m)
    BY DEF UpdatePlan, Main, Wipe
  <1>3. UpdateStmts(m) = (RefStmts("update", m) \cup {s, w}) \cup ItemStmts(m) \cup {FireS("main", m)}
    BY DEF UpdateStmts
  <1> HIDE DEF s, w
  <1>4. Piece(<<s, w>>, {s, w}, <<>>) /\ Starts(<<s, w>>)
    BY <1>1, PairPiece
  <1>5. \A d \in {s, w} : Clears(d, RefStmts("update", m))
    BY <1>1, RefTables DEF Clears
  <1>6. Piece(P, RefStmts("update", m) \cup {s, w}, RefEvents(m)) /\ Starts(P)
    BY <1>4, <1>5, HeadPiece
  <1> HIDE DEF P
  <1> QED BY <1>2, <1>3, <1>6, TailPiece

RemoveStmts(id) == {Stmt("delete", "main", id, 0, None), Stmt("wipe", "items", id, 0, None)}

\* remove().
LEMMA RemovePiece ==
    ASSUME NEW id \in Ids
    PROVE  Piece(RemovePlan(id), RemoveStmts(id), <<>>) /\ Starts(RemovePlan(id))
  <1> DEFINE s == Stmt("delete", "main", id, 0, None)
             w == Stmt("wipe", "items", id, 0, None)
  <1>1. /\ s \in Statements /\ s.kind = "delete" /\ s.table = "main"
        /\ w \in Statements /\ w.kind = "wipe" /\ w.table = "items"
    BY GoodStatements, Fields DEF Ids
  <1>2. RemovePlan(id) = <<s, w>> /\ RemoveStmts(id) = {s, w}
    BY DEF RemovePlan, RemoveStmts
  <1> HIDE DEF s, w
  <1> QED BY <1>1, <1>2, PairPiece

\* create() inserts, and nothing else.
LEMMA CreateInserts ==
    ASSUME NEW m \in Messages, NEW s \in CreateStmts(m)
    PROVE  s.kind \in {"insert", "fire"}
  BY Fields, RefTables DEF CreateStmts, Main, ItemStmts, Item, FireS

\* _create_all() of two rows.
LEMMA ImportPiece ==
    ASSUME NEW m \in Messages, NEW n \in Messages
    PROVE  /\ Piece(ImportPlan(m, n), CreateStmts(m) \cup CreateStmts(n),
                    EventsOfMsg(m) \o EventsOfMsg(n))
           /\ Starts(ImportPlan(m, n))
  <1>1. Piece(CreatePlan(m), CreateStmts(m), EventsOfMsg(m)) /\ Starts(CreatePlan(m))
    BY CreatePiece
  <1>2. Piece(CreatePlan(n), CreateStmts(n), EventsOfMsg(n))
    BY CreatePiece
  <1>3. \A s \in CreateStmts(n) : Clears(s, CreateStmts(m))
    BY CreateInserts DEF Clears
  <1>4. Piece(CreatePlan(m) \o CreatePlan(n), CreateStmts(m) \cup CreateStmts(n),
              EventsOfMsg(m) \o EventsOfMsg(n))
    BY <1>1, <1>2, <1>3, PieceConcat
  <1>5. Starts(CreatePlan(m) \o CreatePlan(n))
    BY <1>1, <1>2, StartsConcat DEF Piece
  <1> QED BY <1>4, <1>5 DEF ImportPlan

\* The calls that write.
LEMMA CallKinds ==
    ASSUME NEW k \in Calls, k.op # "read"
    PROVE  \/ k.op = "create" /\ k.msg \in Messages /\ Plan(k) = CreatePlan(k.msg)
                 /\ EventsOf(k) = EventsOfMsg(k.msg)
           \/ k.op = "update" /\ k.msg \in Messages /\ Plan(k) = UpdatePlan(k.msg)
                 /\ EventsOf(k) = EventsOfMsg(k.msg)
           \/ k.op = "remove" /\ k.id \in Ids /\ Plan(k) = RemovePlan(k.id)
                 /\ EventsOf(k) = <<>>
           \/ k.op = "import" /\ k.msg \in Messages /\ k.next \in Messages
                 /\ Plan(k) = ImportPlan(k.msg, k.next)
                 /\ EventsOf(k) = EventsOfMsg(k.msg) \o EventsOfMsg(k.next)
  <1>1. \/ k.op \in {"create", "update"} /\ k.msg \in Messages
        \/ k.op = "remove" /\ k.id \in Ids
        \/ k.op = "import" /\ k.msg \in Messages /\ k.next \in Messages
    BY DEF Calls
  <1>2. /\ k.op = "create" => Plan(k) = CreatePlan(k.msg) /\ EventsOf(k) = EventsOfMsg(k.msg)
        /\ k.op = "update" => Plan(k) = UpdatePlan(k.msg) /\ EventsOf(k) = EventsOfMsg(k.msg)
        /\ k.op = "remove" => Plan(k) = RemovePlan(k.id) /\ EventsOf(k) = <<>>
        /\ k.op = "import" => /\ Plan(k) = ImportPlan(k.msg, k.next)
                              /\ EventsOf(k) = EventsOfMsg(k.msg) \o EventsOfMsg(k.next)
    BY DEF Plan, EventsOf, EventsOfMsg, RefEvents
  <1> QED BY <1>1, <1>2

\* Every plan is a piece, with the events of its call.
LEMMA PlanPiece ==
    ASSUME NEW k \in Calls, k.op # "read"
    PROVE  Piece(Plan(k), StmtsOf(Plan(k)), EventsOf(k)) /\ Starts(Plan(k))
  <1>1. \A P, D, E : Piece(P, D, E) => D = StmtsOf(P)
    BY DEF Piece
  <1>2. \E D : Piece(Plan(k), D, EventsOf(k)) /\ Starts(Plan(k))
    <2>1. CASE k.op = "create"
      BY <2>1, CallKinds, CreatePiece
    <2>2. CASE k.op = "update"
      BY <2>2, CallKinds, UpdatePiece
    <2>3. CASE k.op = "remove"
      BY <2>3, CallKinds, RemovePiece
    <2>4. CASE k.op = "import"
      BY <2>4, CallKinds, ImportPiece
    <2> QED BY <2>1, <2>2, <2>3, <2>4, CallKinds
  <1> QED BY <1>1, <1>2

-----------------------------------------------------------------------------
(* What statements do to the rows. *)

\* The fields of a good statement.
LEMMA StatementFields ==
    ASSUME NEW s \in Statements
    PROVE  /\ s.kind \in {"insert", "update", "delete", "wipe", "fire"} /\ s.ord \in Nat
           /\ Good(s)
  BY DEF Statements

\* Before the first statement, and over a publication.
LEMMA AfterNothing ==
    ASSUME NEW R, NEW D, NEW s, s.kind = "fire"
    PROVE  After(R, {}) = R /\ After(R, D \cup {s}) = After(R, D)
  BY DEF After, Kills

\* Executing one statement more.
LEMMA AfterStep ==
    ASSUME NEW R, NEW D \in SUBSET Statements, NEW s \in Statements, s.kind # "fire", Clears(s, D)
    PROVE  Exec(After(R, D), s) = After(R, D \cup {s})
  <1> DEFINE A == After(R, D)
             keep == {x \in R : \A d \in D : ~Kills(d, x)}
             ins == {RowOf(d) : d \in {d \in D : d.kind = "insert"}}
             upd == {RowOf(d) : d \in {d \in D : d.kind = "update" /\ Hits(R, d) # {}}}
             new == RowOf(s)
  <1>1. A = keep \cup ins \cup upd
    BY DEF After
  <1>2. \A d : RowOf(d).table = d.table /\ RowOf(d).owner = d.owner /\ RowOf(d).ord = d.ord
    BY Fields DEF RowOf
  <1>3. s.kind \in {"insert", "update", "delete", "wipe"} /\ Good(s)
    BY StatementFields
  <1>4. CASE s.kind = "insert"
    <2>1. Exec(A, s) = A \cup {new}
      BY <1>4 DEF Exec, RowOf
    <2>2. \A x : ~Kills(s, x)
      BY <1>4 DEF Kills
    <2>3. After(R, D \cup {s}) = A \cup {new}
      BY <1>4, <2>2 DEF After
    <2> QED BY <2>1, <2>3
  <1>5. ASSUME s.kind \in {"update", "delete"}
        PROVE  /\ Hits(A, s) = Hits(R, s) /\ Hits(R, s) \subseteq keep
               /\ \A x \in ins \cup upd : ~Kills(s, x)
               /\ \A x : Kills(s, x) <=> x.table = s.table /\ x.owner = s.owner /\ x.ord = s.ord
    <2>1. \A d \in D : d.kind \in {"insert", "update", "delete"} => d.table # s.table
      BY <1>5 DEF Clears
    <2>2. s.table # "items"
      BY <1>3, <1>5 DEF Good
    <2>3. \A x : Kills(s, x) <=> x.table = s.table /\ x.owner = s.owner /\ x.ord = s.ord
      BY <1>5 DEF Kills
    <2>4. \A x \in ins \cup upd : x.table # s.table
      BY <1>2, <2>1
    <2>5. Hits(R, s) \subseteq keep
      BY <2>1, <2>2 DEF Hits, Kills
    <2>6. Hits(A, s) = Hits(R, s)
      BY <1>1, <2>4, <2>5 DEF Hits
    <2> QED BY <2>3, <2>4, <2>5, <2>6
  <1>6. CASE s.kind = "update"
    <2>1. Exec(A, s) = IF Hits(A, s) = {} THEN A ELSE (A \ Hits(A, s)) \cup {new}
      BY <1>6 DEF Exec, RowOf
    <2>2. \A x \in A : x \in Hits(A, s) <=> Kills(s, x)
      BY <1>5, <1>6 DEF Hits
    <2>3. A \ Hits(A, s) = {x \in keep : ~Kills(s, x)} \cup ins \cup upd
      BY <1>1, <1>5, <1>6, <2>2
    <2>4. {x \in R : \A d \in D \cup {s} : ~Kills(d, x)} = {x \in keep : ~Kills(s, x)}
      OBVIOUS
    <2>5. {RowOf(d) : d \in {d \in D \cup {s} : d.kind = "insert"}} = ins
      BY <1>6
    <2>6. {RowOf(d) : d \in {d \in D \cup {s} : d.kind = "update" /\ Hits(R, d) # {}}}
            = upd \cup (IF Hits(R, s) = {} THEN {} ELSE {new})
      BY <1>6
    <2>7. After(R, D \cup {s})
            = (A \ Hits(A, s)) \cup (IF Hits(R, s) = {} THEN {} ELSE {new})
      BY <2>3, <2>4, <2>5, <2>6 DEF After
    <2>8. Hits(A, s) = Hits(R, s)
      BY <1>5, <1>6
    <2> HIDE DEF A, new
    <2> QED BY <2>1, <2>7, <2>8 DEF A
  <1>7. CASE s.kind = "delete"
    <2>1. Exec(A, s) = A \ Hits(A, s)
      BY <1>7 DEF Exec
    <2>2. \A x \in A : x \in Hits(A, s) <=> Kills(s, x)
      BY <1>5, <1>7 DEF Hits
    <2>3. A \ Hits(A, s) = {x \in keep : ~Kills(s, x)} \cup ins \cup upd
      BY <1>1, <1>5, <1>7, <2>2
    <2>4. After(R, D \cup {s}) = {x \in keep : ~Kills(s, x)} \cup ins \cup upd
      BY <1>7 DEF After
    <2> QED BY <2>1, <2>3, <2>4
  <1>8. CASE s.kind = "wipe"
    <2>1. Exec(A, s) = {x \in A : ~(x.table = "items" /\ x.owner = s.owner)}
      BY <1>8 DEF Exec
    <2>2. \A x : Kills(s, x) <=> x.table = "items" /\ x.owner = s.owner
      BY <1>8 DEF Kills
    <2>3. \A x \in ins \cup upd : x.table # "items"
      BY <1>2, <1>3, <1>8 DEF Good, Clears
    <2>4. Exec(A, s) = {x \in keep : ~Kills(s, x)} \cup ins \cup upd
      BY <1>1, <2>1, <2>2, <2>3
    <2>5. After(R, D \cup {s}) = {x \in keep : ~Kills(s, x)} \cup ins \cup upd
      BY <1>8 DEF After
    <2> QED BY <2>4, <2>5
  <1> QED BY <1>3, <1>4, <1>6, <1>7, <1>8

\* The rows a create() inserts, statement by statement.
LEMMA CreateRows ==
    ASSUME NEW m \in Messages
    PROVE  {RowOf(s) : s \in {d \in CreateStmts(m) : d.kind = "insert"}} = Atomic!RowsOf(m)
  <1> DEFINE I == {d \in CreateStmts(m) : d.kind = "insert"}
             r == Stmt("insert", "ref", RefOf[m], 0, m)
  <1>1. I = (IF RefOf[m] = None THEN {} ELSE {r}) \cup {Main("insert", m)} \cup ItemStmts(m)
    BY Fields DEF CreateStmts, RefStmts, Main, ItemStmts, Item, FireS
  <1>2. RowOf(r) = Atomic!Row("ref", RefOf[m], 0, m)
    BY Fields DEF RowOf, Row, Atomic!Row
  <1>3. RowOf(Main("insert", m)) = Atomic!Row("main", IdOf[m], 0, m)
    BY Fields DEF RowOf, Row, Atomic!Row, Main
  <1>4. \A n \in 1..SizeOf[m] : RowOf(Item(m, n)) = Atomic!Row("items", IdOf[m], n, m)
    BY Fields DEF RowOf, Row, Atomic!Row, Item
  <1> HIDE DEF I, r
  <1>5. {RowOf(s) : s \in ItemStmts(m)} = Atomic!ItemRows(m)
    BY <1>4 DEF ItemStmts, Atomic!ItemRows
  <1>6. {RowOf(s) : s \in I} = (IF RefOf[m] = None THEN {} ELSE {RowOf(r)})
            \cup {RowOf(Main("insert", m))} \cup {RowOf(s) : s \in ItemStmts(m)}
    BY <1>1
  <1>7. Atomic!RowsOf(m) = (IF RefOf[m] = None THEN {} ELSE {RowOf(r)})
            \cup {RowOf(Main("insert", m))} \cup {RowOf(s) : s \in ItemStmts(m)}
    BY <1>2, <1>3, <1>5 DEF Atomic!RowsOf, Atomic!RefRows, Atomic!MainRows
  <1> QED BY <1>6, <1>7 DEF I

\* create() and the import of two rows.
LEMMA CreateEffect ==
    ASSUME NEW S, NEW m \in Messages, NEW n \in Messages
    PROVE  /\ After(S, CreateStmts(m)) = Atomic!Created(S, m)
           /\ After(S, CreateStmts(m) \cup CreateStmts(n))
                 = Atomic!Created(Atomic!Created(S, m), n)
  <1>1. \A q \in Messages : \A s \in CreateStmts(q) :
            s.kind # "update" /\ \A x : ~Kills(s, x)
    BY CreateInserts DEF Kills
  <1>2. {RowOf(s) : s \in {d \in CreateStmts(m) \cup CreateStmts(n) : d.kind = "insert"}}
           = Atomic!RowsOf(m) \cup Atomic!RowsOf(n)
    BY CreateRows
  <1>3. After(S, CreateStmts(m)) = S \cup Atomic!RowsOf(m)
    BY <1>1, CreateRows DEF After
  <1>4. After(S, CreateStmts(m) \cup CreateStmts(n))
           = S \cup (Atomic!RowsOf(m) \cup Atomic!RowsOf(n))
    BY <1>1, <1>2 DEF After
  <1> QED BY <1>3, <1>4 DEF Atomic!Created

\* remove().
LEMMA RemoveEffect ==
    ASSUME NEW S, NEW id, \A x \in S : x.table # "items" => x.ord = 0
    PROVE  After(S, RemoveStmts(id)) = Atomic!Removed(S, id)
  <1> DEFINE s == Stmt("delete", "main", id, 0, None)
             w == Stmt("wipe", "items", id, 0, None)
  <1>1. /\ s.kind = "delete" /\ s.table = "main" /\ s.owner = id /\ s.ord = 0
        /\ w.kind = "wipe" /\ w.owner = id
    BY Fields
  <1>2. RemoveStmts(id) = {s, w}
    BY DEF RemoveStmts
  <1> HIDE DEF s, w
  <1>3. \A x \in S : Kills(s, x) <=> x.table = "main" /\ x.owner = id
    BY <1>1 DEF Kills
  <1>4. \A x \in S : Kills(w, x) <=> x.table = "items" /\ x.owner = id
    BY <1>1 DEF Kills
  <1>5. After(S, {s, w}) = {x \in S : ~Kills(s, x) /\ ~Kills(w, x)}
    BY <1>1 DEF After
  <1> QED BY <1>2, <1>3, <1>4, <1>5 DEF Atomic!Removed, Atomic!IsItemOf

\* update().
LEMMA UpdateEffect ==
    ASSUME NEW S, NEW m \in Messages
    PROVE  After(S, UpdateStmts(m)) = Atomic!Updated(S, m)
  <1> DEFINE r == Stmt("update", "ref", RefOf[m], 0, m)
             s == Main("update", m)
             w == Wipe(m)
             U == IF RefOf[m] = None THEN {s} ELSE {r, s}
             hit == Atomic!Matching(Atomic!RefRows(m) \cup Atomic!MainRows(m), S)
             upd == {RowOf(d) : d \in {d \in UpdateStmts(m) : d.kind = "update" /\ Hits(S, d) # {}}}
             keep == {x \in S : \A d \in UpdateStmts(m) : ~Kills(d, x)}
  <1>1. /\ r.kind = "update" /\ s.kind = "update" /\ w.kind = "wipe" /\ w.owner = IdOf[m]
        /\ \A n : Item(m, n).kind = "insert" /\ \A t : FireS(t, m).kind = "fire"
    BY Fields DEF Main, Wipe, Item, FireS
  <1>2. /\ {d \in UpdateStmts(m) : d.kind = "update"} = U
        /\ {d \in UpdateStmts(m) : d.kind = "insert"} = ItemStmts(m)
        /\ w \in UpdateStmts(m)
        /\ \A d \in UpdateStmts(m) : d \in U \/ d = w \/ d.kind \in {"insert", "fire"}
    BY <1>1 DEF UpdateStmts, RefStmts, ItemStmts
  <1>3. Atomic!RefRows(m) \cup Atomic!MainRows(m) = {RowOf(d) : d \in U}
    <2>1. RowOf(r) = Atomic!Row("ref", RefOf[m], 0, m) /\ RowOf(s) = Atomic!Row("main", IdOf[m], 0, m)
      BY Fields DEF RowOf, Row, Atomic!Row, Main
    <2> HIDE DEF r, s
    <2> QED BY <2>1 DEF Atomic!RefRows, Atomic!MainRows
  <1>4. {RowOf(d) : d \in ItemStmts(m)} = Atomic!ItemRows(m)
    <2>1. \A n \in 1..SizeOf[m] : RowOf(Item(m, n)) = Atomic!Row("items", IdOf[m], n, m)
      BY Fields DEF RowOf, Row, Atomic!Row, Item
    <2> QED BY <2>1 DEF ItemStmts, Atomic!ItemRows
  <1>5. \A d \in U : d.kind = "update" /\ d \in UpdateStmts(m)
    BY <1>2
  <1> HIDE DEF r, s, w, U
  <1>6. \A d \in U : \A x : /\ Kills(d, x) <=> Atomic!SameKey(x, RowOf(d))
                            /\ Atomic!SameKey(RowOf(d), x) <=> Atomic!SameKey(x, RowOf(d))
    BY <1>5, Fields DEF Kills, Atomic!SameKey, RowOf
  <1>7. \A d \in U : Hits(S, d) # {} <=> \E x \in S : Atomic!SameKey(RowOf(d), x)
    BY Fields DEF Hits, Atomic!SameKey, RowOf
  <1>8. hit = upd
    <2>1. hit = {RowOf(d) : d \in {d \in U : \E x \in S : Atomic!SameKey(RowOf(d), x)}}
      BY <1>3 DEF Atomic!Matching
    <2>2. upd = {RowOf(d) : d \in {d \in U : Hits(S, d) # {}}}
      BY <1>2
    <2> QED BY <1>7, <2>1, <2>2
  <1>9. keep = {x \in S \ Atomic!Matching(S, hit) : ~Atomic!IsItemOf(x, IdOf[m])}
    <2>1. \A x : Kills(w, x) <=> Atomic!IsItemOf(x, IdOf[m])
      BY <1>1 DEF Kills, Atomic!IsItemOf
    <2>2. \A x : \A d : d.kind \in {"insert", "fire"} => ~Kills(d, x)
      BY DEF Kills
    <2>3. \A x \in S : (\E d \in U : Kills(d, x)) <=> x \in Atomic!Matching(S, hit)
      <3> SUFFICES ASSUME NEW x \in S
                   PROVE  (\E d \in U : Kills(d, x)) <=> \E y \in hit : Atomic!SameKey(x, y)
        BY DEF Atomic!Matching
      <3>1. ASSUME NEW d \in U, Kills(d, x) PROVE \E y \in hit : Atomic!SameKey(x, y)
        <4>1. Atomic!SameKey(x, RowOf(d)) /\ Atomic!SameKey(RowOf(d), x)
          BY <1>6, <3>1
        <4>2. RowOf(d) \in hit
          BY <1>3, <4>1 DEF Atomic!Matching
        <4> QED BY <4>1, <4>2
      <3>2. ASSUME NEW y \in hit, Atomic!SameKey(x, y) PROVE \E d \in U : Kills(d, x)
        <4>1. PICK d \in U : y = RowOf(d)
          BY <1>3, <3>2 DEF Atomic!Matching
        <4> QED BY <1>6, <3>2, <4>1
      <3> QED BY <3>1, <3>2
    <2> HIDE DEF hit
    <2>4. \A x \in S : (\A d \in UpdateStmts(m) : ~Kills(d, x))
                          <=> x \notin Atomic!Matching(S, hit) /\ ~Atomic!IsItemOf(x, IdOf[m])
      BY <1>2, <1>5, <2>1, <2>2, <2>3
    <2> QED BY <2>4
  <1>10. After(S, UpdateStmts(m)) = keep \cup Atomic!ItemRows(m) \cup upd
    BY <1>2, <1>4 DEF After
  <1>11. Atomic!Updated(S, m) = {x \in S \ Atomic!Matching(S, hit) : ~Atomic!IsItemOf(x, IdOf[m])}
                                  \cup hit \cup Atomic!ItemRows(m)
    BY DEF Atomic!Updated
  <1> HIDE DEF keep, upd, hit
  <1> QED BY <1>8, <1>9, <1>10, <1>11

-----------------------------------------------------------------------------
(* One statement of a call. *)

\* The publications of a call are where FirePos says.
LEMMA FirePosRight ==
    ASSUME NEW k \in Calls, k.op # "read"
    PROVE  /\ FiresAt(FirePos(k), Plan(k), EventsOf(k))
           /\ EventsOf(k) \in Seq(Events) /\ Len(EventsOf(k)) \in Nat
  <1>1. Fires(Plan(k), EventsOf(k)) /\ EventsOf(k) \in Seq(Events)
    BY PlanPiece DEF Piece
  <1>2. FiresAt(FirePos(k), Plan(k), EventsOf(k))
    BY <1>1 DEF Fires, FirePos
  <1> QED BY <1>1, <1>2

\* A call under way has executed a part of its plan.
LEMMA WhereItIs ==
    ASSUME IInv, NEW c \in Clients, pc[c] = "exec"
    PROVE  /\ call[c] \in Calls /\ call[c].op # "read" /\ Plan(call[c]) \in Seq(Statements)
           /\ Len(Plan(call[c])) \in Nat /\ Len(Plan(call[c])) > 0 /\ todo[c] \in Seq(Statements)
           /\ Len(todo[c]) \in Nat /\ At(c) \in Nat /\ At(c) + Len(todo[c]) = Len(Plan(call[c]))
           /\ Done(c) \subseteq Statements
  <1>1. call[c] \in Calls /\ call[c].op # "read"
    BY DEF IInv, Place
  <1>2. Plan(call[c]) \in Seq(Statements) /\ Len(Plan(call[c])) > 0
    BY <1>1, PlanPiece DEF Piece, Starts
  <1>3. todo[c] \in Seq(Statements) /\ Len(todo[c]) <= Len(Plan(call[c]))
    BY DEF IInv, Types, Progress
  <1> DEFINE P == Plan(call[c])
             t == todo[c]
  <1> HIDE DEF P, t
  <1>4. P \in Seq(Statements) /\ t \in Seq(Statements) /\ Len(t) <= Len(P) /\ At(c) = Len(P) - Len(t)
    BY <1>2, <1>3 DEF P, t, At
  <1>5. Len(P) \in Nat /\ Len(t) \in Nat
    BY <1>4
  <1>6. At(c) \in Nat /\ At(c) + Len(t) = Len(P) /\ \A i \in 1..At(c) : i \in 1..Len(P)
    BY <1>4, <1>5
  <1>7. \A i \in 1..Len(P) : P[i] \in Statements
    BY <1>4
  <1>8. Done(c) \subseteq Statements
    BY <1>6, <1>7 DEF Done, P
  <1> QED BY <1>1, <1>2, <1>3, <1>5, <1>6, <1>8 DEF P, t

\* The next statement of a call.
LEMMA NextStatement ==
    ASSUME IInv, NEW c \in Clients, pc[c] = "exec", todo[c] # <<>>,
           todo' = [todo EXCEPT ![c] = Tail(@)], call' = call, pc' = pc
    PROVE  /\ At(c) + 1 \in 1..Len(Plan(call[c])) /\ Head(todo[c]) = Plan(call[c])[At(c) + 1]
           /\ Head(todo[c]) \in Statements /\ Clears(Head(todo[c]), Done(c))
           /\ At(c)' = At(c) + 1 /\ Done(c)' = Done(c) \cup {Head(todo[c])}
           /\ Progress(c)' /\ todo' \in [Clients -> Seq(Statements)]
  <1> DEFINE P == Plan(call[c])
             t == todo[c]
             p == At(c)
  <1>1. /\ P \in Seq(Statements) /\ Len(P) \in Nat /\ t \in Seq(Statements) /\ Len(t) \in Nat
        /\ p \in Nat /\ p + Len(t) = Len(P) /\ Ordered(P) /\ p = Len(P) - Len(t)
    BY WhereItIs, PlanPiece DEF Piece, At
  <1>2. \A i \in 1..Len(t) : t[i] = P[p + i]
    BY DEF IInv, Progress
  <1>3. todo \in [Clients -> Seq(Statements)]
    BY DEF IInv, Types
  <1>4. todo'[c] = Tail(t)
    BY <1>3
  <1>5. t # <<>>
    OBVIOUS
  <1>6. At(c)' = Len(P) - Len(Tail(t))
    BY <1>4 DEF At
  <1>7. Done(c) = {P[i] : i \in 1..p}
    BY DEF Done
  <1>8. Done(c)' = {P[i] : i \in 1..At(c)'}
    BY DEF Done
  <1> HIDE DEF P, t, p
  <1>9. /\ Head(t) \in Statements /\ Head(t) = t[1] /\ Tail(t) \in Seq(Statements)
        /\ Len(Tail(t)) = Len(t) - 1 /\ Len(t) > 0
        /\ \A i \in 1..(Len(t) - 1) : Tail(t)[i] = t[i + 1]
    BY <1>1, <1>5
  <1>10. p + 1 \in 1..Len(P) /\ At(c)' = p + 1 /\ 1 \in 1..Len(t)
    BY <1>1, <1>6, <1>9
  <1>11. Head(t) = P[p + 1]
    BY <1>2, <1>9, <1>10
  <1>12. Clears(Head(t), Done(c))
    <2>1. (p + 1) - 1 = p
      BY <1>1
    <2>2. Clears(P[p + 1], {P[h] : h \in 1..((p + 1) - 1)})
      BY <1>1, <1>10 DEF Ordered
    <2> QED BY <1>7, <1>11, <2>1, <2>2
  <1>13. Done(c)' = Done(c) \cup {Head(t)}
    <2>1. \A i \in 1..(p + 1) : i \in 1..p \/ i = p + 1
      BY <1>1
    <2>2. \A i \in 1..p : i \in 1..(p + 1)
      BY <1>1
    <2>3. p + 1 \in 1..(p + 1)
      BY <1>1
    <2> QED BY <1>7, <1>8, <1>10, <1>11, <2>1, <2>2, <2>3
  <1>14. Progress(c)'
    <2>1. Len(Tail(t)) <= Len(P)
      BY <1>1, <1>9
    <2>2. ASSUME NEW i \in 1..Len(Tail(t)) PROVE Tail(t)[i] = P[(p + 1) + i]
      <3>1. i \in 1..(Len(t) - 1) /\ i + 1 \in 1..Len(t) /\ p + (i + 1) = (p + 1) + i
        BY <1>1, <1>9
      <3> QED BY <1>2, <1>9, <3>1
    <2> QED BY <1>4, <1>10, <2>1, <2>2 DEF Progress, P
  <1>15. todo' \in [Clients -> Seq(Statements)]
    BY <1>3, <1>9 DEF t
  <1> QED BY <1>9, <1>10, <1>11, <1>12, <1>13, <1>14, <1>15 DEF P, t, p

-----------------------------------------------------------------------------
(* The invariant, action by action. *)

\* An empty database without requests.
LEMMA InitIInv == Init => IInv
  <1> SUFFICES ASSUME Init PROVE IInv
    OBVIOUS
  <1>1. <<>> \in Seq(Events) /\ <<>> \in Seq(Statements)
    OBVIOUS
  <1>2. Nothing \in GotType
    BY DEF Nothing, GotType
  <1>3. TypeOK
    BY <1>1 DEF Init, TypeOK
  <1>4. Types
    BY <1>1, <1>2, <1>3 DEF Init, Types
  <1>5. \A c \in Clients : Place(c) /\ Progress(c) /\ Listed(c)
    BY DEF Init, Place, Progress, Listed
  <1>6. Holder /\ Fresh
    BY DEF Init, Holder, Fresh
  <1> QED BY <1>4, <1>5, <1>6 DEF IInv

\* A request of which nothing changes.
LEMMA Frame ==
    ASSUME NEW d \in Clients, Place(d), Progress(d), Listed(d),
           pc'[d] = pc[d], call'[d] = call[d], todo'[d] = todo[d], pend'[d] = pend[d],
           sent'[d] = sent[d], got'[d] = got[d]
    PROVE  Place(d)' /\ Progress(d)' /\ Listed(d)' /\ At(d)' = At(d) /\ Done(d)' = Done(d)
  <1>1. At(d)' = At(d) /\ Done(d)' = Done(d)
    BY DEF At, Done
  <1>2. Place(d)'
    BY DEF Place
  <1>3. Progress(d)'
    BY <1>1 DEF Progress
  <1>4. Listed(d)'
    BY <1>1 DEF Listed
  <1> QED BY <1>1, <1>2, <1>3, <1>4

\* The lock and the rows, when neither changes nor the holder's call does.
LEMMA HolderFrame ==
    ASSUME IInv, NEW c \in Clients, lock # c, lock' = lock, work' = work, db' = db,
           \A d \in Clients : d # c => /\ pc'[d] = pc[d] /\ At(d)' = At(d)
                                       /\ Done(d)' = Done(d) /\ call'[d] = call[d],
           pc'[c] = "exec" => At(c)' = 0
    PROVE  Holder' /\ Fresh'
  <1>1. lock \in Clients \cup {None} /\ Holder /\ Fresh
    BY DEF IInv, Types, TypeOK
  <1>2. lock # None => lock \in Clients /\ lock # c
    BY <1>1
  <1>3. lock # None => /\ pc'[lock] = pc[lock] /\ At(lock)' = At(lock)
                       /\ Done(lock)' = Done(lock) /\ call'[lock] = call[lock]
    BY <1>2
  <1>4. Holder'
    <2>1. lock # None => pc'[lock] \in {"exec", "left"} /\ work = After(db, Done(lock)')
      BY <1>1, <1>3 DEF Holder
    <2>2. ASSUME NEW d \in Clients, pc'[d] = "exec", lock # d PROVE At(d)' = 0
      <3>1. CASE d = c
        BY <2>2, <3>1
      <3>2. CASE d # c
        BY <1>1, <2>2, <3>2 DEF Holder
      <3> QED BY <3>1, <3>2
    <2> QED BY <2>1, <2>2 DEF Holder
  <1>5. Fresh'
    BY <1>1, <1>3 DEF Fresh
  <1> QED BY <1>4, <1>5

\* A request calls the DAO.
LEMMA BeginIInv ==
    ASSUME IInv, NEW c \in Clients, NEW k \in Calls, Begin(c, k)
    PROVE  IInv'
  <1>0. Types /\ TypeOK /\ Holder /\ Place(c)
    BY DEF IInv, Types
  <1>1. /\ pc[c] = "idle"
        /\ pc' = [pc EXCEPT ![c] = IF k.op = "read" THEN "row" ELSE "exec"]
        /\ call' = [call EXCEPT ![c] = k] /\ todo' = [todo EXCEPT ![c] = Plan(k)]
        /\ UNCHANGED <<db, work, lock, pend, got, sent, raced, missed>>
    BY DEF Begin
  <1>2. /\ pc \in [Clients -> {"idle", "exec", "left", "fire", "row", "ref", "items"}]
        /\ call \in [Clients -> Calls \cup {None}] /\ todo \in [Clients -> Seq(Statements)]
    BY <1>0 DEF Types, TypeOK
  <1>3. /\ pc'[c] = (IF k.op = "read" THEN "row" ELSE "exec") /\ call'[c] = k
        /\ todo'[c] = Plan(k)
    BY <1>1, <1>2
  <1>4. \A d \in Clients : d # c => pc'[d] = pc[d] /\ call'[d] = call[d] /\ todo'[d] = todo[d]
    BY <1>1, <1>2
  <1>5. Plan(k) \in Seq(Statements) /\ (k.op # "read" => Len(Plan(k)) \in Nat)
    <2>1. CASE k.op = "read"
      BY <2>1 DEF Plan
    <2>2. CASE k.op # "read"
      BY <2>2, PlanPiece DEF Piece
    <2> QED BY <2>1, <2>2
  <1>6. Types'
    <2>1. pc' \in [Clients -> {"idle", "exec", "left", "fire", "row", "ref", "items"}]
          /\ call' \in [Clients -> Calls \cup {None}] /\ todo' \in [Clients -> Seq(Statements)]
      BY <1>1, <1>2, <1>5
    <2>2. TypeOK'
      BY <1>0, <1>1, <2>1 DEF TypeOK
    <2> QED BY <1>0, <1>1, <2>1, <2>2 DEF Types
  <1>7. pc'[c] = "exec" => k.op # "read" /\ At(c)' = 0
    BY <1>3, <1>5 DEF At
  <1>8. Place(c)'
    BY <1>0, <1>1, <1>3 DEF Place
  <1>9. Progress(c)'
    <2> SUFFICES ASSUME k.op # "read", At(c)' = 0
                 PROVE  /\ Len(Plan(k)) <= Len(Plan(k))
                        /\ \A i \in 1..Len(Plan(k)) : Plan(k)[i] = Plan(k)[0 + i]
      BY <1>3, <1>7 DEF Progress
    <2>1. \A i \in 1..Len(Plan(k)) : 0 + i = i
      OBVIOUS
    <2> QED BY <1>5, <2>1
  <1>10. Listed(c)'
    <2> SUFFICES ASSUME k.op # "read", At(c)' = 0
                 PROVE  /\ Len(<<>>) <= Len(EventsOf(k))
                        /\ \A i \in 1..Len(<<>>) : <<>>[i] = EventsOf(k)[i]
                        /\ \A i \in 1..Len(EventsOf(k)) : i <= Len(<<>>) <=> FirePos(k)[i] <= 0
      <3>1. pend[c] = <<>> /\ pend' = pend
        BY <1>0, <1>1 DEF Place
      <3>2. pc'[c] # "fire"
        BY <1>3
      <3> QED BY <1>3, <1>7, <3>1, <3>2 DEF Listed
    <2>1. Len(<<>>) = 0 /\ 1..0 = {}
      OBVIOUS
    <2>2. /\ FirePos(k) \in [1..Len(EventsOf(k)) -> 1..Len(Plan(k))] /\ Len(EventsOf(k)) \in Nat
      BY FirePosRight DEF FiresAt
    <2>3. \A i \in 1..Len(EventsOf(k)) : ~(i <= 0) /\ ~(FirePos(k)[i] <= 0)
      BY <2>2
    <2> QED BY <2>1, <2>2, <2>3
  <1>11. \A d \in Clients : d # c => /\ Place(d)' /\ Progress(d)' /\ Listed(d)'
                                     /\ At(d)' = At(d) /\ Done(d)' = Done(d)
    BY <1>1, <1>4, Frame DEF IInv
  <1>12. lock # c
    BY <1>0, <1>1, NoneAssumption DEF Holder
  <1>13. Holder' /\ Fresh'
    BY <1>1, <1>4, <1>7, <1>11, <1>12, HolderFrame
  <1> QED BY <1>6, <1>8, <1>9, <1>10, <1>11, <1>13 DEF IInv

\* A call ends, by return or by exception.
LEMMA EndIInv ==
    ASSUME IInv, NEW c \in Clients, Leave(c), pend' = [pend EXCEPT ![c] = <<>>],
           lock' = (IF lock = c THEN None ELSE lock), UNCHANGED <<db, work, missed>>
    PROVE  IInv'
  <1>0. Types /\ TypeOK /\ Holder /\ Fresh
    BY DEF IInv, Types
  <1>1. /\ pc' = [pc EXCEPT ![c] = "idle"] /\ call' = [call EXCEPT ![c] = None]
        /\ todo' = [todo EXCEPT ![c] = <<>>] /\ got' = [got EXCEPT ![c] = Nothing]
        /\ sent' = [sent EXCEPT ![c] = <<>>] /\ raced' = [raced EXCEPT ![c] = FALSE]
    BY DEF Leave
  <1>2. /\ pc \in [Clients -> {"idle", "exec", "left", "fire", "row", "ref", "items"}]
        /\ call \in [Clients -> Calls \cup {None}] /\ todo \in [Clients -> Seq(Statements)]
        /\ got \in [Clients -> GotType] /\ pend \in [Clients -> Seq(Events)]
        /\ sent \in [Clients -> Seq(Events)] /\ raced \in [Clients -> BOOLEAN]
        /\ lock \in Clients \cup {None}
    BY <1>0 DEF Types, TypeOK
  <1>3. /\ pc'[c] = "idle" /\ got'[c] = Nothing /\ sent'[c] = <<>> /\ pend'[c] = <<>>
    BY <1>1, <1>2
  <1>4. \A d \in Clients : d # c => /\ pc'[d] = pc[d] /\ call'[d] = call[d] /\ todo'[d] = todo[d]
                                    /\ pend'[d] = pend[d] /\ sent'[d] = sent[d] /\ got'[d] = got[d]
    BY <1>1, <1>2
  <1>5. <<>> \in Seq(Statements) /\ <<>> \in Seq(Events) /\ Nothing \in GotType
    BY DEF Nothing, GotType
  <1>6. Types'
    <2>1. /\ pc' \in [Clients -> {"idle", "exec", "left", "fire", "row", "ref", "items"}]
          /\ call' \in [Clients -> Calls \cup {None}] /\ todo' \in [Clients -> Seq(Statements)]
          /\ got' \in [Clients -> GotType]
      BY <1>1, <1>2, <1>5
    <2>2. /\ pend' \in [Clients -> Seq(Events)] /\ sent' \in [Clients -> Seq(Events)]
          /\ raced' \in [Clients -> BOOLEAN] /\ lock' \in Clients \cup {None}
      BY <1>1, <1>2, <1>5
    <2>3. TypeOK'
      BY <1>0, <2>1, <2>2 DEF TypeOK
    <2> QED BY <1>0, <2>1, <2>3 DEF Types
  <1>7. Place(c)' /\ Progress(c)' /\ Listed(c)'
    BY <1>3 DEF Place, Progress, Listed
  <1>8. \A d \in Clients : d # c => /\ Place(d)' /\ Progress(d)' /\ Listed(d)'
                                    /\ At(d)' = At(d) /\ Done(d)' = Done(d)
    BY <1>4, Frame DEF IInv
  <1>9. Holder' /\ Fresh'
    <2>1. CASE lock = c
      <3>1. lock' = None
        BY <2>1
      <3>2. \A d \in Clients : pc'[d] = "exec" => At(d)' = 0
        BY <1>0, <1>3, <1>4, <1>8, <2>1 DEF Holder
      <3> QED BY <3>1, <3>2 DEF Holder, Fresh
    <2>2. CASE lock # c
      BY <1>3, <1>4, <1>8, <2>2, HolderFrame
    <2> QED BY <2>1, <2>2
  <1> QED BY <1>6, <1>7, <1>8, <1>9 DEF IInv

\* What the next statement of c sees.
LEMMA SeenIsAfter ==
    ASSUME IInv, NEW c \in Clients, pc[c] = "exec", lock \in {c, None}
    PROVE  Seen(c) = After(db, Done(c)) /\ (lock = None => At(c) = 0)
  <1>1. Holder
    BY DEF IInv
  <1>2. CASE lock = c
    <2>1. lock # None
      BY <1>2, NoneAssumption
    <2> QED BY <1>1, <1>2, <2>1 DEF Holder, Seen
  <1>3. CASE lock = None
    <2>1. At(c) = 0 /\ lock # c
      BY <1>1, <1>3, NoneAssumption DEF Holder
    <2>2. Done(c) = {}
      BY <2>1 DEF Done
    <2>3. After(db, {}) = db
      BY DEF After
    <2> QED BY <2>1, <2>2, <2>3 DEF Seen
  <1> QED BY <1>2, <1>3

\* The next statement succeeds.
LEMMA ExecuteIInv ==
    ASSUME IInv, NEW c \in Clients, Execute(c)
    PROVE  IInv'
  <1> DEFINE s == Head(todo[c])
             P == Plan(call[c])
             p == At(c)
  <1>0. Types /\ TypeOK /\ Holder /\ Fresh /\ Place(c) /\ Listed(c)
    BY DEF IInv, Types
  <1>1. /\ pc[c] = "exec" /\ todo[c] # <<>> /\ s.kind # "fire" /\ lock \in {c, None}
        /\ ~Duplicate(Seen(c), s) /\ lock' = c /\ work' = Exec(Seen(c), s)
        /\ todo' = [todo EXCEPT ![c] = Tail(@)]
        /\ UNCHANGED <<db, pc, call, pend, got, sent, raced, missed>>
    BY DEF Execute, Locked
  <1>2. /\ P \in Seq(Statements) /\ Len(P) \in Nat /\ p \in Nat /\ Done(c) \subseteq Statements
        /\ call[c] \in Calls /\ call[c].op # "read"
    BY <1>1, WhereItIs
  <1>3. /\ p + 1 \in 1..Len(P) /\ s = P[p + 1] /\ s \in Statements /\ Clears(s, Done(c))
        /\ At(c)' = p + 1 /\ Done(c)' = Done(c) \cup {s}
        /\ Progress(c)' /\ todo' \in [Clients -> Seq(Statements)]
    BY <1>1, NextStatement
  <1>4. Seen(c) = After(db, Done(c)) /\ (lock = None => p = 0)
    BY <1>1, SeenIsAfter
  <1>5. Done(c) = {P[i] : i \in 1..p}
    BY DEF Done
  <1>6. \A d \in Clients : d # c => todo'[d] = todo[d]
    BY <1>0, <1>1 DEF Types
  <1> HIDE DEF s, P, p
  <1>7. work' = After(db, Done(c)')
    BY <1>1, <1>2, <1>3, <1>4, AfterStep
  <1>8. Types'
    <2>1. Seen(c) \subseteq Rows /\ \A x \in Seen(c) : x.table # "items" => x.ord = 0
      BY <1>0 DEF Seen, Types, TypeOK
    <2>2. /\ s.kind \in {"insert", "update"} => RowOf(s) \in Rows
          /\ RowOf(s).table # "items" => RowOf(s).ord = 0
      <3>1. Good(s)
        BY <1>3, StatementFields
      <3>2. RowOf(s).table = s.table /\ RowOf(s).ord = s.ord
        BY Fields DEF RowOf
      <3>3. RowOf(s) = Row(s.table, s.owner, s.ord, s.msg)
        BY DEF RowOf
      <3> QED BY <3>1, <3>2, <3>3 DEF Good
    <2>3. \A x \in work' : x \in Seen(c) \/ (s.kind \in {"insert", "update"} /\ x = RowOf(s))
      <3>1. CASE s.kind = "insert"
        BY <1>1, <3>1 DEF Exec, RowOf
      <3>2. CASE s.kind = "update"
        BY <1>1, <3>2 DEF Exec, RowOf
      <3>3. CASE s.kind = "delete"
        BY <1>1, <3>3 DEF Exec
      <3>4. CASE s.kind \notin {"insert", "update", "delete"}
        BY <1>1, <3>4 DEF Exec
      <3> QED BY <3>1, <3>2, <3>3, <3>4
    <2>4. work' \subseteq Rows /\ \A x \in work' : x.table # "items" => x.ord = 0
      BY <2>1, <2>2, <2>3
    <2>5. TypeOK'
      BY <1>0, <1>1, <2>4 DEF TypeOK
    <2>6. \A x \in db' \cup work' : x.table # "items" => x.ord = 0
      BY <1>0, <1>1, <2>4 DEF Types
    <2> QED BY <1>0, <1>1, <1>3, <2>5, <2>6 DEF Types
  <1>9. Place(c)'
    BY <1>0, <1>1 DEF Place
  <1>10. Listed(c)'
    <2> DEFINE E == EventsOf(call[c])
               F == FirePos(call[c])
    <2>1. FiresAt(F, P, E)
      BY <1>2, FirePosRight DEF P
    <2>2. /\ Len(pend[c]) <= Len(E) /\ \A i \in 1..Len(pend[c]) : pend[c][i] = E[i]
          /\ \A i \in 1..Len(E) : i <= Len(pend[c]) <=> F[i] <= p
      BY <1>0, <1>1 DEF Listed, p
    <2> HIDE DEF E, F
    <2>3. ASSUME NEW i \in 1..Len(E) PROVE F[i] <= p <=> F[i] <= p + 1
      <3>1. F[i] \in 1..Len(P) /\ P[F[i]].kind = "fire"
        BY <2>1 DEF FiresAt
      <3>2. F[i] # p + 1
        BY <1>1, <1>3, <3>1
      <3> QED BY <1>2, <3>1, <3>2
    <2>4. \A i \in 1..Len(E) : i <= Len(pend[c]) <=> F[i] <= p + 1
      BY <2>2, <2>3
    <2> QED BY <1>1, <1>3, <2>2, <2>4 DEF Listed, E, F
  <1>11. \A d \in Clients : d # c => /\ Place(d)' /\ Progress(d)' /\ Listed(d)' /\ At(d)' = At(d)
    BY <1>1, <1>6, Frame DEF IInv
  <1>12. Holder'
    <2>1. ASSUME NEW d \in Clients, pc'[d] = "exec", lock' # d PROVE At(d)' = 0
      <3>1. d # c /\ lock # d
        BY <1>1, <2>1, NoneAssumption
      <3> QED BY <1>0, <1>1, <1>11, <2>1, <3>1 DEF Holder
    <2> QED BY <1>1, <1>7, <2>1 DEF Holder
  <1>13. Fresh'
    <2> SUFFICES ASSUME call[c].op \in {"create", "import"}, NEW i \in 1..(p + 1), P[i].kind = "insert"
                 PROVE  /\ Hits(db, P[i]) = {}
                        /\ \A h \in 1..(i - 1) : P[h].kind = "insert" =>
                              Hits({RowOf(P[h])}, P[i]) = {}
      BY <1>1, <1>3 DEF Fresh, P
    <2>1. CASE i \in 1..p
      <3>1. p # 0
        BY <1>2, <2>1
      <3>2. lock = c /\ lock # None
        BY <1>1, <1>4, <3>1, NoneAssumption
      <3> QED BY <1>0, <2>1, <3>2 DEF Fresh, P, p
    <2>2. CASE i = p + 1
      <3>1. P[i] = s /\ Hits(After(db, Done(c)), s) = {}
        BY <1>1, <1>3, <1>4, <2>2 DEF Duplicate
      <3>2. \A d \in StmtsOf(P) : d.kind \in {"insert", "fire"}
        <4>1. \A Q, D, E : Piece(Q, D, E) => StmtsOf(Q) = D
          BY DEF Piece
        <4>2. CASE call[c].op = "create"
          BY <1>2, <4>1, <4>2, CallKinds, CreatePiece, CreateInserts DEF P
        <4>3. CASE call[c].op = "import"
          <5>1. PICK m, n \in Messages : P = ImportPlan(m, n)
            BY <1>2, <4>3, CallKinds DEF P
          <5>2. StmtsOf(P) = CreateStmts(m) \cup CreateStmts(n)
            BY <4>1, <5>1, ImportPiece
          <5> QED BY <5>2, CreateInserts
        <4> QED BY <4>2, <4>3
      <3>3. \A d \in Done(c) : d.kind \in {"insert", "fire"}
        <4>1. \A h \in 1..p : h \in 1..Len(P)
          BY <1>2, <1>3
        <4> QED BY <1>5, <3>2, <4>1 DEF StmtsOf
      <3>4. db \subseteq After(db, Done(c))
        BY <3>3 DEF After, Kills
      <3>5. Hits(db, s) = {}
        BY <3>1, <3>4 DEF Hits
      <3>6. ASSUME NEW h \in 1..(i - 1), P[h].kind = "insert"
            PROVE  Hits({RowOf(P[h])}, s) = {}
        <4>1. h \in 1..p
          BY <1>2, <2>2
        <4>2. P[h] \in Done(c)
          BY <1>5, <4>1
        <4>3. RowOf(P[h]) \in After(db, Done(c))
          BY <3>6, <4>2 DEF After
        <4> QED BY <3>1, <4>3 DEF Hits
      <3> QED BY <3>1, <3>5, <3>6
    <2> QED BY <1>2, <2>1, <2>2
  <1> QED BY <1>3, <1>8, <1>9, <1>10, <1>11, <1>12, <1>13 DEF IInv

\* _after_commit(): a publication joins the list.
LEMMA DeferIInv ==
    ASSUME IInv, NEW c \in Clients, Defer(c)
    PROVE  IInv'
  <1> DEFINE s == Head(todo[c])
             P == Plan(call[c])
             p == At(c)
             q == pend[c]
             e == <<s.table, s.msg>>
  <1>0. Types /\ TypeOK /\ Holder /\ Fresh /\ Place(c) /\ Listed(c)
    BY DEF IInv, Types
  <1>1. /\ pc[c] = "exec" /\ todo[c] # <<>> /\ s.kind = "fire"
        /\ pend' = [pend EXCEPT ![c] = Append(q, e)]
        /\ todo' = [todo EXCEPT ![c] = Tail(@)]
        /\ UNCHANGED <<db, work, lock, pc, call, got, sent, raced, missed>>
    BY DEF Defer
  <1>2. /\ P \in Seq(Statements) /\ Len(P) \in Nat /\ p \in Nat /\ Done(c) \subseteq Statements
        /\ call[c] \in Calls /\ call[c].op # "read"
    BY <1>1, WhereItIs
  <1>3. /\ p + 1 \in 1..Len(P) /\ s = P[p + 1] /\ s \in Statements
        /\ At(c)' = p + 1 /\ Done(c)' = Done(c) \cup {s}
        /\ Progress(c)' /\ todo' \in [Clients -> Seq(Statements)]
    BY <1>1, NextStatement
  <1>4. \A d \in Clients : d # c => todo'[d] = todo[d] /\ pend'[d] = pend[d]
    BY <1>0, <1>1 DEF Types, TypeOK
  <1>5. q \in Seq(Events) /\ pend'[c] = Append(q, e)
    BY <1>0, <1>1 DEF TypeOK
  <1> HIDE DEF s, P, p, q
  <1>6. e \in Events
    <2>1. Good(s)
      BY <1>3, StatementFields
    <2> QED BY <1>1, <2>1 DEF Good
  <1>7. lock = c /\ lock # None
    <2>1. Starts(P)
      BY <1>2, PlanPiece DEF P
    <2>2. p # 0
      <3> SUFFICES ASSUME p = 0 PROVE FALSE
        OBVIOUS
      <3>1. s = P[1]
        BY <1>3
      <3> QED BY <1>1, <2>1, <3>1 DEF Starts
    <2> QED BY <1>0, <1>1, <2>2, NoneAssumption DEF Holder, p
  <1> HIDE DEF e
  <1>8. Types'
    <2>1. pend' \in [Clients -> Seq(Events)]
      <3>1. Append(q, e) \in Seq(Events)
        BY <1>5, <1>6
      <3> QED BY <1>0, <1>1, <3>1 DEF TypeOK
    <2>2. TypeOK'
      BY <1>0, <1>1, <2>1 DEF TypeOK
    <2> QED BY <1>0, <1>1, <1>3, <2>2 DEF Types
  <1>9. Place(c)'
    BY <1>0, <1>1 DEF Place
  <1>10. Listed(c)'
    <2> DEFINE E == EventsOf(call[c])
               F == FirePos(call[c])
    <2>1. FiresAt(F, P, E) /\ Len(E) \in Nat
      BY <1>2, FirePosRight DEF P
    <2>2. /\ Len(q) <= Len(E) /\ \A i \in 1..Len(q) : q[i] = E[i]
          /\ \A i \in 1..Len(E) : i <= Len(q) <=> F[i] <= p
      BY <1>0, <1>1 DEF Listed, p, q
    <2> HIDE DEF E, F
    <2>3. /\ F \in [1..Len(E) -> 1..Len(P)]
          /\ \A i, j \in 1..Len(E) : i < j => F[i] < F[j]
          /\ \A i \in 1..Len(E) : E[i] = <<P[F[i]].table, P[F[i]].msg>>
          /\ \A j \in 1..Len(P) : P[j].kind = "fire" => \E i \in 1..Len(E) : F[i] = j
      BY <2>1 DEF FiresAt
    <2>4. PICK h \in 1..Len(E) : F[h] = p + 1
      BY <1>1, <1>3, <2>3
    <2>5. /\ Len(q) \in Nat /\ Len(Append(q, e)) = Len(q) + 1
          /\ \A i \in 1..Len(q) : Append(q, e)[i] = q[i]
          /\ Append(q, e)[Len(q) + 1] = e
      BY <1>5, <1>6
    <2>6. h = Len(q) + 1
      <3>1. ~(h <= Len(q))
        BY <1>2, <2>2, <2>4
      <3>2. CASE h > Len(q) + 1
        <4>1. Len(q) + 1 \in 1..Len(E) /\ Len(q) + 1 < h
          BY <2>1, <2>5, <3>2
        <4>2. F[Len(q) + 1] < p + 1 /\ F[Len(q) + 1] \in 1..Len(P)
          BY <2>3, <2>4, <4>1
        <4>3. F[Len(q) + 1] <= p
          BY <1>2, <4>2
        <4>4. Len(q) + 1 <= Len(q)
          BY <2>2, <4>1, <4>3
        <4> QED BY <2>5, <4>4
      <3> QED BY <2>1, <2>5, <3>1, <3>2
    <2>7. E[Len(q) + 1] = e
      BY <1>3, <2>3, <2>4, <2>6 DEF e
    <2>8. Len(Append(q, e)) <= Len(E)
      BY <2>1, <2>5, <2>6
    <2>9. \A i \in 1..Len(Append(q, e)) : Append(q, e)[i] = E[i]
      <3>1. \A i \in 1..Len(Append(q, e)) : i \in 1..Len(q) \/ i = Len(q) + 1
        BY <2>5
      <3> QED BY <2>2, <2>5, <2>7, <3>1
    <2>10. ASSUME NEW i \in 1..Len(E) PROVE i <= Len(Append(q, e)) <=> F[i] <= p + 1
      <3>1. F[i] \in 1..Len(P)
        BY <2>3
      <3>2. CASE i < h
        <4>1. F[i] < p + 1
          BY <2>3, <2>4, <3>2
        <4> QED BY <1>2, <2>5, <2>6, <3>1, <3>2, <4>1
      <3>3. CASE i = h
        BY <1>2, <2>4, <2>5, <2>6, <3>3
      <3>4. CASE i > h
        <4>1. h < i
          BY <3>4
        <4>2. p + 1 < F[i]
          BY <2>3, <2>4, <4>1
        <4> QED BY <1>2, <2>5, <2>6, <3>1, <3>4, <4>2
      <3> QED BY <3>2, <3>3, <3>4
    <2> QED BY <1>1, <1>3, <1>5, <2>8, <2>9, <2>10 DEF Listed, E, F
  <1>11. \A d \in Clients : d # c => /\ Place(d)' /\ Progress(d)' /\ Listed(d)' /\ At(d)' = At(d)
    BY <1>1, <1>4, Frame DEF IInv
  <1>12. Holder'
    <2>1. After(db, Done(c) \cup {s}) = After(db, Done(c))
      BY <1>1, AfterNothing
    <2>2. work = After(db, Done(c)')
      BY <1>0, <1>3, <1>7, <2>1 DEF Holder
    <2>3. \A d \in Clients : pc'[d] = "exec" /\ lock # d => At(d)' = 0
      BY <1>0, <1>1, <1>7, <1>11 DEF Holder
    <2> QED BY <1>1, <1>7, <2>2, <2>3 DEF Holder
  <1>13. Fresh'
    <2> SUFFICES ASSUME call[c].op \in {"create", "import"}, NEW i \in 1..(p + 1), P[i].kind = "insert"
                 PROVE  /\ Hits(db, P[i]) = {}
                        /\ \A h \in 1..(i - 1) : P[h].kind = "insert" =>
                              Hits({RowOf(P[h])}, P[i]) = {}
      BY <1>1, <1>3, <1>7 DEF Fresh, P
    <2>1. i # p + 1
      BY <1>1, <1>3
    <2>2. i \in 1..p
      BY <1>2, <2>1
    <2> QED BY <1>0, <1>7, <2>2 DEF Fresh, P, p
  <1> QED BY <1>3, <1>8, <1>9, <1>10, <1>11, <1>12, <1>13 DEF IInv

\* A call whose statements are done has the lock, and everything it wrote is in
\* its working copy.
LEMMA CommitHas ==
    ASSUME IInv, NEW c \in Clients, pc[c] = "exec", todo[c] = <<>>
    PROVE  /\ lock = c /\ lock # None /\ At(c) = Len(Plan(call[c]))
           /\ work = After(db, StmtsOf(Plan(call[c])))
  <1>1. /\ Len(Plan(call[c])) \in Nat /\ Len(Plan(call[c])) > 0
        /\ At(c) = Len(Plan(call[c])) - Len(todo[c])
    BY WhereItIs DEF At
  <1>2. Len(todo[c]) = 0
    OBVIOUS
  <1>3. At(c) = Len(Plan(call[c])) /\ At(c) # 0
    BY <1>1, <1>2
  <1>4. lock = c /\ lock # None
    BY <1>3, NoneAssumption DEF IInv, Holder
  <1>5. work = After(db, Done(c))
    BY <1>4 DEF IInv, Holder
  <1>6. Done(c) = StmtsOf(Plan(call[c]))
    BY <1>3 DEF Done, StmtsOf
  <1> QED BY <1>3, <1>4, <1>5, <1>6

\* commit().
LEMMA CommitIInv ==
    ASSUME IInv, NEW c \in Clients, Commit(c)
    PROVE  IInv'
  <1>0. Types /\ TypeOK /\ Holder /\ Place(c) /\ Listed(c)
    BY DEF IInv, Types
  <1>1. /\ pc[c] = "exec" /\ todo[c] = <<>> /\ db' = work /\ lock' = None
        /\ pc' = [pc EXCEPT ![c] = "fire"] /\ missed' = (missed \/ Misses(call[c]))
        /\ raced' = [r \in Clients |-> raced[r] \/ pc[r] \in {"ref", "items"}]
        /\ UNCHANGED <<work, call, todo, pend, got, sent>>
    BY DEF Commit
  <1>2. /\ pc \in [Clients -> {"idle", "exec", "left", "fire", "row", "ref", "items"}]
        /\ pend \in [Clients -> Seq(Events)] /\ missed \in BOOLEAN /\ raced \in [Clients -> BOOLEAN]
    BY <1>0 DEF TypeOK
  <1>3. pc'[c] = "fire" /\ \A d \in Clients : d # c => pc'[d] = pc[d]
    BY <1>1, <1>2
  <1>4. call[c] \in Calls /\ call[c].op # "read"
    BY <1>1, WhereItIs
  <1>5. lock = c /\ At(c) = Len(Plan(call[c]))
    BY <1>1, CommitHas
  <1>6. Types'
    <2>1. pc' \in [Clients -> {"idle", "exec", "left", "fire", "row", "ref", "items"}]
      BY <1>1, <1>2
    <2>2. missed' \in BOOLEAN
      BY <1>1
    <2>3. raced' \in [Clients -> BOOLEAN]
      BY <1>1
    <2>4. TypeOK'
      BY <1>0, <1>1, <2>1, <2>2, <2>3 DEF TypeOK
    <2> QED BY <1>0, <1>1, <2>4 DEF Types
  <1>7. Place(c)'
    BY <1>0, <1>1, <1>3, <1>4 DEF Place
  <1>8. Progress(c)'
    BY <1>3 DEF Progress
  <1>9. Listed(c)'
    <2> DEFINE E == EventsOf(call[c])
               F == FirePos(call[c])
               q == pend[c]
               n == Len(Plan(call[c]))
    <2>1. FiresAt(F, Plan(call[c]), E) /\ E \in Seq(Events) /\ Len(E) \in Nat
      BY <1>4, FirePosRight
    <2>2. /\ Len(q) <= Len(E) /\ \A i \in 1..Len(q) : q[i] = E[i]
          /\ \A i \in 1..Len(E) : i <= Len(q) <=> F[i] <= n
      BY <1>0, <1>1, <1>5 DEF Listed
    <2>3. q \in Seq(Events) /\ sent[c] = <<>>
      BY <1>0, <1>1, <1>2 DEF Place
    <2>4. F \in [1..Len(E) -> 1..n]
      BY <2>1 DEF FiresAt
    <2>5. n \in Nat
      BY <1>1, WhereItIs
    <2> HIDE DEF E, F, q, n
    <2>6. \A i \in 1..Len(E) : F[i] <= n
      BY <2>4, <2>5
    <2>7. \A i \in 1..Len(E) : i <= Len(q)
      BY <2>2, <2>6
    <2>8. Len(q) \in Nat
      BY <2>3
    <2>9. Len(q) = Len(E)
      <3>1. Len(E) = 0 \/ Len(E) \in 1..Len(E)
        BY <2>1
      <3>2. Len(E) = 0 \/ Len(E) <= Len(q)
        BY <2>7, <3>1
      <3> QED BY <2>1, <2>2, <2>8, <3>2
    <2>10. q = E
      BY <2>1, <2>2, <2>3, <2>9, SeqEqual
    <2>11. <<>> \o q = q
      BY <2>3, ConcatEmptySeq
    <2> QED BY <1>1, <1>3, <2>3, <2>10, <2>11 DEF Listed, E, q
  <1>10. \A d \in Clients : d # c => Place(d)' /\ Progress(d)' /\ Listed(d)' /\ At(d)' = At(d)
    BY <1>1, <1>3, Frame DEF IInv
  <1>11. Holder' /\ Fresh'
    <2>1. \A d \in Clients : pc'[d] = "exec" => At(d)' = 0
      BY <1>0, <1>3, <1>5, <1>10 DEF Holder
    <2> QED BY <1>1, <2>1 DEF Holder, Fresh
  <1> QED BY <1>6, <1>7, <1>8, <1>9, <1>10, <1>11 DEF IInv

\* A commit() that fails leaves its transaction open.
LEMMA LeftIInv ==
    ASSUME IInv, NEW c \in Clients, pc[c] = "exec", todo[c] = <<>>,
           pc' = [pc EXCEPT ![c] = "left"], pend' = [pend EXCEPT ![c] = <<>>],
           UNCHANGED <<db, work, lock, call, todo, got, sent, raced, missed>>
    PROVE  IInv'
  <1>0. Types /\ TypeOK /\ Holder /\ Fresh /\ Place(c)
    BY DEF IInv, Types
  <1>1. /\ pc \in [Clients -> {"idle", "exec", "left", "fire", "row", "ref", "items"}]
        /\ pend \in [Clients -> Seq(Events)] /\ <<>> \in Seq(Events)
    BY <1>0 DEF TypeOK
  <1>2. pc'[c] = "left" /\ \A d \in Clients : d # c => pc'[d] = pc[d] /\ pend'[d] = pend[d]
    BY <1>1
  <1>3. Types'
    <2>1. /\ pc' \in [Clients -> {"idle", "exec", "left", "fire", "row", "ref", "items"}]
          /\ pend' \in [Clients -> Seq(Events)]
      BY <1>1
    <2>2. TypeOK'
      BY <1>0, <2>1 DEF TypeOK
    <2> QED BY <1>0, <2>2 DEF Types
  <1>4. Place(c)' /\ Progress(c)' /\ Listed(c)'
    BY <1>0, <1>2 DEF Place, Progress, Listed
  <1>5. \A d \in Clients : d # c => Place(d)' /\ Progress(d)' /\ Listed(d)'
    BY <1>2, Frame DEF IInv
  <1>6. lock = c /\ lock # None
    BY CommitHas
  <1>7. \A d \in Clients : At(d)' = At(d) /\ Done(d)' = Done(d)
    BY DEF At, Done
  <1>8. Holder'
    <2>1. pc'[lock] \in {"exec", "left"} /\ work = After(db, Done(lock)')
      BY <1>0, <1>2, <1>6, <1>7 DEF Holder
    <2>2. \A d \in Clients : pc'[d] = "exec" /\ lock # d => At(d)' = 0
      BY <1>0, <1>2, <1>6, <1>7 DEF Holder
    <2> QED BY <2>1, <2>2 DEF Holder
  <1>9. Fresh'
    BY <1>0, <1>6, <1>7 DEF Fresh
  <1> QED BY <1>3, <1>4, <1>5, <1>8, <1>9 DEF IInv

\* Moving the head of one sequence to the end of the one before it.
LEMMA MoveHead ==
    ASSUME NEW S, NEW s \in Seq(S), NEW q \in Seq(S), q # <<>>
    PROVE  Append(s, Head(q)) \o Tail(q) = s \o q
  <1> DEFINE a == Append(s, Head(q))
             t == Tail(q)
  <1>1. Head(q) \in S /\ t \in Seq(S) /\ Head(q) = q[1] /\ Len(q) \in Nat /\ Len(q) > 0
        /\ Len(t) = Len(q) - 1 /\ \A i \in 1..(Len(q) - 1) : t[i] = q[i + 1]
    OBVIOUS
  <1>2. a \in Seq(S) /\ Len(a) = Len(s) + 1 /\ Len(s) \in Nat
        /\ (\A i \in 1..Len(s) : a[i] = s[i]) /\ a[Len(s) + 1] = q[1]
    BY <1>1
  <1> HIDE DEF a, t
  <1>3. /\ a \o t \in Seq(S) /\ Len(a \o t) = Len(a) + Len(t)
        /\ \A i \in 1..(Len(a) + Len(t)) : (a \o t)[i] = IF i <= Len(a) THEN a[i] ELSE t[i - Len(a)]
    BY <1>1, <1>2, ConcatProperties
  <1>4. /\ s \o q \in Seq(S) /\ Len(s \o q) = Len(s) + Len(q)
        /\ \A i \in 1..(Len(s) + Len(q)) : (s \o q)[i] = IF i <= Len(s) THEN s[i] ELSE q[i - Len(s)]
    BY ConcatProperties
  <1>5. Len(a) + Len(t) = Len(s) + Len(q)
    BY <1>1, <1>2
  <1>6. ASSUME NEW i \in 1..(Len(s) + Len(q)) PROVE (a \o t)[i] = (s \o q)[i]
    <2>1. CASE i <= Len(s)
      <3>1. i \in 1..Len(s) /\ i <= Len(a)
        BY <1>2, <2>1
      <3> QED BY <1>2, <1>3, <1>4, <1>5, <2>1, <3>1
    <2>2. CASE i = Len(s) + 1
      <3>1. i <= Len(a) /\ ~(i <= Len(s)) /\ i - Len(s) = 1
        BY <1>2, <2>2
      <3>2. (a \o t)[i] = a[i] /\ (s \o q)[i] = q[i - Len(s)]
        BY <1>3, <1>4, <1>5, <3>1
      <3> QED BY <1>2, <2>2, <3>1, <3>2
    <2>3. CASE i > Len(s) + 1
      <3>1. /\ ~(i <= Len(a)) /\ ~(i <= Len(s)) /\ i - Len(a) \in 1..(Len(q) - 1)
            /\ (i - Len(a)) + 1 = i - Len(s)
        BY <1>1, <1>2, <2>3
      <3>2. (a \o t)[i] = t[i - Len(a)] /\ (s \o q)[i] = q[i - Len(s)]
        BY <1>3, <1>4, <1>5, <3>1
      <3>3. t[i - Len(a)] = q[(i - Len(a)) + 1]
        BY <1>1, <3>1
      <3> QED BY <3>1, <3>2, <3>3
    <2>4. i <= Len(s) \/ i = Len(s) + 1 \/ i > Len(s) + 1
      BY <1>1, <1>2
    <2> QED BY <2>1, <2>2, <2>3, <2>4
  <1>7. a \o t = s \o q
    BY <1>3, <1>4, <1>5, <1>6, SeqEqual
  <1> QED BY <1>7 DEF a, t

\* A deferred publication.
LEMMA PublishIInv ==
    ASSUME IInv, NEW c \in Clients, Publish(c)
    PROVE  IInv'
  <1>0. Types /\ TypeOK /\ Holder /\ Place(c) /\ Listed(c)
    BY DEF IInv, Types
  <1>1. /\ pc[c] = "fire" /\ pend[c] # <<>>
        /\ sent' = [sent EXCEPT ![c] = Append(@, Head(pend[c]))]
        /\ pend' = [pend EXCEPT ![c] = Tail(@)]
        /\ UNCHANGED <<db, work, lock, pc, call, todo, got, raced, missed>>
    BY DEF Publish
  <1>2. /\ sent \in [Clients -> Seq(Events)] /\ pend \in [Clients -> Seq(Events)]
    BY <1>0 DEF TypeOK
  <1>3. /\ sent'[c] = Append(sent[c], Head(pend[c])) /\ pend'[c] = Tail(pend[c])
        /\ \A d \in Clients : d # c => sent'[d] = sent[d] /\ pend'[d] = pend[d]
    BY <1>1, <1>2
  <1>4. Append(sent[c], Head(pend[c])) \in Seq(Events) /\ Tail(pend[c]) \in Seq(Events)
    BY <1>1, <1>2
  <1>5. Types'
    <2>1. sent' \in [Clients -> Seq(Events)] /\ pend' \in [Clients -> Seq(Events)]
      BY <1>1, <1>2, <1>4
    <2>2. TypeOK'
      BY <1>0, <1>1, <2>1 DEF TypeOK
    <2> QED BY <1>0, <1>1, <2>2 DEF Types
  <1>6. sent'[c] \o pend'[c] = sent[c] \o pend[c]
    <2>1. sent[c] \in Seq(Events) /\ pend[c] \in Seq(Events)
      BY <1>2
    <2>2. pend[c] # <<>>
      BY <1>1
    <2>3. Append(sent[c], Head(pend[c])) \o Tail(pend[c]) = sent[c] \o pend[c]
      BY ONLY <2>1, <2>2, MoveHead
    <2>4. sent'[c] = Append(sent[c], Head(pend[c])) /\ pend'[c] = Tail(pend[c])
      BY <1>3
    <2> QED BY <2>3, <2>4, Zenon
  <1>7. Place(c)' /\ Progress(c)' /\ Listed(c)'
    BY <1>0, <1>1, <1>6 DEF Place, Progress, Listed
  <1>8. \A d \in Clients : d # c => /\ Place(d)' /\ Progress(d)' /\ Listed(d)'
                                    /\ At(d)' = At(d) /\ Done(d)' = Done(d)
    BY <1>1, <1>3, Frame DEF IInv
  <1>9. lock # c
    BY <1>0, <1>1, NoneAssumption DEF Holder
  <1>10. Holder' /\ Fresh'
    BY <1>1, <1>8, <1>9, HolderFrame
  <1> QED BY <1>5, <1>7, <1>8, <1>10 DEF IInv

\* A SELECT of read().
LEMMA SelectIInv ==
    ASSUME IInv, NEW c \in Clients, SelectRow(c) \/ SelectRef(c) \/ SelectItems(c)
    PROVE  IInv'
  <1>0. Types /\ TypeOK /\ Holder /\ Place(c) /\ Listed(c)
    BY DEF IInv, Types
  <1>1. /\ pc[c] \in {"row", "ref", "items"}
        /\ UNCHANGED <<db, work, lock, call, todo, pend, sent, raced, missed>>
    BY DEF SelectRow, SelectRef, SelectItems
  <1>2. /\ pc \in [Clients -> {"idle", "exec", "left", "fire", "row", "ref", "items"}]
        /\ got \in [Clients -> GotType] /\ db \subseteq Rows
    BY <1>0 DEF Types, TypeOK
  <1>3. PICK g \in GotType, l \in {"ref", "items", "fire"} :
            got' = [got EXCEPT ![c] = g] /\ pc' = [pc EXCEPT ![c] = l]
    <2>1. CASE SelectRow(c)
      <3> DEFINE hit == {x \in db : x.table = "main" /\ x.owner = call[c].id}
                 m == IF hit = {} THEN None ELSE (CHOOSE x \in hit : TRUE).msg
                 l == IF hit = {} THEN "fire" ELSE "ref"
      <3>1. got' = [got EXCEPT ![c].main = m] /\ pc' = [pc EXCEPT ![c] = l]
        BY <2>1 DEF SelectRow
      <3>2. \A x \in Rows : x.msg \in Messages
        BY Fields DEF Rows
      <3>3. m \in Messages \cup {None}
        <4>1. CASE hit = {}
          BY <4>1
        <4>2. CASE hit # {}
          <5>1. (CHOOSE x \in hit : TRUE) \in hit
            BY <4>2
          <5> QED BY <1>2, <3>2, <4>2, <5>1
        <4> QED BY <4>1, <4>2
      <3> HIDE DEF m, hit
      <3>4. [got[c] EXCEPT !.main = m] \in GotType
        BY <1>2, <3>3 DEF GotType
      <3>5. got' = [got EXCEPT ![c] = [got[c] EXCEPT !.main = m]]
        BY <3>1
      <3> QED BY <3>1, <3>4, <3>5
    <2>2. CASE SelectRef(c)
      <3> DEFINE b == \E x \in db : x.table = "ref" /\ x.owner = RefOf[got[c].main]
      <3>1. got' = [got EXCEPT ![c].ref = b] /\ pc' = [pc EXCEPT ![c] = "items"]
        BY <2>2 DEF SelectRef
      <3>2. b \in BOOLEAN
        OBVIOUS
      <3> HIDE DEF b
      <3>3. [got[c] EXCEPT !.ref = b] \in GotType
        BY <1>2, <3>2 DEF GotType
      <3>4. got' = [got EXCEPT ![c] = [got[c] EXCEPT !.ref = b]]
        BY <3>1
      <3> QED BY <3>1, <3>3, <3>4
    <2>3. CASE SelectItems(c)
      <3> DEFINE i == {<<x.ord, x.msg>> : x \in {y \in db : y.table = "items" /\ y.owner = call[c].id}}
      <3>1. got' = [got EXCEPT ![c].items = i] /\ pc' = [pc EXCEPT ![c] = "fire"]
        BY <2>3 DEF SelectItems
      <3>2. \A x \in Rows : x.ord \in Nat /\ x.msg \in Messages
        <4>1. \A n \in UNION {0..SizeOf[m] : m \in Messages} : n \in Nat
          BY SizeAssumption
        <4> QED BY <4>1, Fields DEF Rows
      <3>3. i \in SUBSET (Nat \X Messages)
        BY <1>2, <3>2
      <3> HIDE DEF i
      <3>4. [got[c] EXCEPT !.items = i] \in GotType
        BY <1>2, <3>3 DEF GotType
      <3>5. got' = [got EXCEPT ![c] = [got[c] EXCEPT !.items = i]]
        BY <3>1
      <3> QED BY <3>1, <3>4, <3>5
    <2> QED BY <2>1, <2>2, <2>3
  <1>4. /\ pc'[c] = l
        /\ \A d \in Clients : d # c => pc'[d] = pc[d] /\ got'[d] = got[d]
    BY <1>2, <1>3
  <1>5. Types'
    <2>1. pc' \in [Clients -> {"idle", "exec", "left", "fire", "row", "ref", "items"}]
          /\ got' \in [Clients -> GotType]
      BY <1>2, <1>3
    <2>2. TypeOK'
      BY <1>0, <1>1, <2>1 DEF TypeOK
    <2> QED BY <1>0, <1>1, <2>1, <2>2 DEF Types
  <1>6. call[c] \in Calls /\ call[c].op = "read" /\ pend[c] = <<>> /\ sent[c] = <<>>
    BY <1>0, <1>1 DEF Place
  <1>7. Place(c)' /\ Progress(c)'
    BY <1>1, <1>4, <1>6 DEF Place, Progress
  <1>8. Listed(c)'
    <2>1. EventsOf(call[c]) = <<>>
      BY <1>6 DEF EventsOf
    <2>2. <<>> \o <<>> = <<>>
      <3>1. <<>> \in Seq(Events)
        OBVIOUS
      <3> QED BY <3>1, ConcatEmptySeq
    <2> QED BY <1>1, <1>4, <1>6, <2>1, <2>2 DEF Listed
  <1>9. \A d \in Clients : d # c => /\ Place(d)' /\ Progress(d)' /\ Listed(d)'
                                    /\ At(d)' = At(d) /\ Done(d)' = Done(d)
    BY <1>1, <1>4, Frame DEF IInv
  <1>10. lock # c
    BY <1>0, <1>1, NoneAssumption DEF Holder
  <1>11. Holder' /\ Fresh'
    BY <1>1, <1>4, <1>9, <1>10, HolderFrame
  <1> QED BY <1>5, <1>7, <1>8, <1>9, <1>11 DEF IInv

\* Every step keeps the invariant.
LEMMA NextIInv == IInv /\ [Next]_vars => IInv'
  <1> SUFFICES ASSUME IInv, [Next]_vars PROVE IInv'
    OBVIOUS
  <1>1. CASE UNCHANGED vars
    <2>1. UNCHANGED <<db, work, lock, pc, call, todo, pend, got, sent, raced, missed>>
      BY <1>1 DEF vars
    <2>2. Types'
      BY <2>1 DEF IInv, Types, TypeOK
    <2>3. \A c \in Clients : Place(c)' /\ Progress(c)' /\ Listed(c)'
      BY <2>1, Frame DEF IInv
    <2>4. Holder' /\ Fresh'
      BY <2>1 DEF IInv, Holder, Fresh, At, Done
    <2> QED BY <2>2, <2>3, <2>4 DEF IInv
  <1>2. ASSUME NEW c \in Clients, NEW k \in Calls, Begin(c, k) PROVE IInv'
    BY <1>2, BeginIInv
  <1>3. ASSUME NEW c \in Clients, Raises(c) \/ Busy(c) \/ CommitFails(c) \/ RollBack(c) \/ PublishRaises(c)
        PROVE  IInv'
    <2>1. CASE Abandon(c, <<>>)
      BY <2>1, EndIInv DEF Abandon
    <2>2. CASE CommitFails(c) /\ ~Abandon(c, <<>>)
      BY <2>2, LeftIInv DEF CommitFails
    <2> QED BY <1>3, <2>1, <2>2 DEF Raises, Busy, RollBack, PublishRaises
  <1>4. ASSUME NEW c \in Clients, Return(c) PROVE IInv'
    <2>1. pc[c] = "fire" /\ pend[c] = <<>> /\ Leave(c) /\ UNCHANGED <<db, work, lock, pend, missed>>
      BY <1>4 DEF Return
    <2>2. lock # c
      BY <2>1, NoneAssumption DEF IInv, Holder
    <2>3. pend' = [pend EXCEPT ![c] = <<>>]
      BY <2>1 DEF IInv, Types, TypeOK
    <2> QED BY <2>1, <2>2, <2>3, EndIInv
  <1>5. ASSUME NEW c \in Clients, Step(c) PROVE IInv'
    BY <1>3, <1>4, <1>5, ExecuteIInv, DeferIInv, CommitIInv, PublishIInv, SelectIInv DEF Step
  <1> QED BY <1>1, <1>2, <1>5 DEF Next

\* The invariant holds of every reachable state.
LEMMA IInvHolds == Spec => []IInv
  BY InitIInv, NextIInv, PTL DEF Spec

\* The rows, the lists and the calls are well-typed.
THEOREM TypeCorrect == Spec => []TypeOK
  <1>1. IInv => TypeOK
    BY DEF IInv, Types
  <1> QED BY <1>1, IInvHolds, PTL

\* A call publishes after its commit, and then exactly the events of the rows it
\* wrote, in order; a call that was rolled back publishes nothing.
THEOREM EventsExactHolds == Spec => []EventsExact
  <1>1. IInv => EventsExact
    BY DEF IInv, Place, Listed, EventsExact
  <1> QED BY <1>1, IInvHolds, PTL

-----------------------------------------------------------------------------
(* The DAO implements AtomicStore. *)

\* A create() that has met no key of its own among the rows.
LEMMA FreshRows ==
    ASSUME NEW S, NEW m \in Messages,
           \A s \in CreateStmts(m) : s.kind = "insert" => Hits(S, s) = {}
    PROVE  Atomic!Matching(Atomic!RowsOf(m), S) = {}
  <1> SUFFICES ASSUME NEW x \in Atomic!RowsOf(m), NEW y \in S, Atomic!SameKey(x, y)
               PROVE  FALSE
    BY DEF Atomic!Matching
  <1>1. PICK s \in CreateStmts(m) : s.kind = "insert" /\ x = RowOf(s)
    BY CreateRows
  <1>2. x.table = s.table /\ x.owner = s.owner /\ x.ord = s.ord
    BY <1>1, Fields DEF RowOf
  <1>3. y \in Hits(S, s)
    BY <1>2 DEF Atomic!SameKey, Hits
  <1> QED BY <1>1, <1>3

\* A commit() is one call of the abstract store.
LEMMA CommitIsAtomic ==
    ASSUME IInv, NEW c \in Clients, Commit(c)
    PROVE  \/ call[c].op = "create" /\ call[c].msg \in Messages /\ Atomic!Create(call[c].msg)
           \/ call[c].op = "update" /\ call[c].msg \in Messages /\ Atomic!Update(call[c].msg)
           \/ call[c].op = "remove" /\ call[c].id \in Ids /\ Atomic!Remove(call[c].id)
           \/ /\ call[c].op = "import" /\ call[c].msg \in Messages /\ call[c].next \in Messages
              /\ Atomic!Import(call[c].msg, call[c].next)
  <1> DEFINE k == call[c]
             P == Plan(k)
  <1>1. pc[c] = "exec" /\ todo[c] = <<>> /\ db' = work
    BY DEF Commit
  <1>2. lock = c /\ lock # None /\ At(c) = Len(P) /\ work = After(db, StmtsOf(P))
    BY <1>1, CommitHas
  <1>3. k \in Calls /\ k.op # "read" /\ P \in Seq(Statements) /\ Len(P) \in Nat
    BY <1>1, WhereItIs
  <1>4. k.op \in {"create", "import"} =>
            \A i \in 1..Len(P) : P[i].kind = "insert" =>
                /\ Hits(db, P[i]) = {}
                /\ \A h \in 1..(i - 1) : P[h].kind = "insert" =>
                      Hits({RowOf(P[h])}, P[i]) = {}
    BY <1>2 DEF IInv, Fresh
  <1>5. \A Q, D, E : Piece(Q, D, E) => StmtsOf(Q) = D
    BY DEF Piece
  <1> HIDE DEF k, P
  <1>6. CASE k.op = "create"
    <2> DEFINE m == k.msg
    <2>1. m \in Messages /\ P = CreatePlan(m)
      BY <1>3, <1>6, CallKinds DEF P
    <2> HIDE DEF m
    <2>2. StmtsOf(P) = CreateStmts(m)
      BY <1>5, <2>1, CreatePiece
    <2>3. db' = Atomic!Created(db, m)
      BY <1>1, <1>2, <2>1, <2>2, CreateEffect
    <2>4. \A s \in CreateStmts(m) : s.kind = "insert" => Hits(db, s) = {}
      BY <1>4, <1>6, <2>2 DEF StmtsOf
    <2>5. Atomic!Matching(Atomic!RowsOf(m), db) = {}
      BY <2>1, <2>4, FreshRows
    <2>6. Atomic!Create(m)
      BY <2>3, <2>5 DEF Atomic!Create
    <2> QED BY <1>6, <2>1, <2>6 DEF k, m
  <1>7. CASE k.op = "update"
    <2> DEFINE m == k.msg
    <2>1. m \in Messages /\ P = UpdatePlan(m)
      BY <1>3, <1>7, CallKinds DEF P
    <2> HIDE DEF m
    <2>2. StmtsOf(P) = UpdateStmts(m)
      BY <1>5, <2>1, UpdatePiece
    <2>3. db' = Atomic!Updated(db, m)
      BY <1>1, <1>2, <2>1, <2>2, UpdateEffect
    <2>4. Atomic!Update(m)
      BY <2>3 DEF Atomic!Update
    <2> QED BY <1>7, <2>1, <2>4 DEF k, m
  <1>8. CASE k.op = "remove"
    <2> DEFINE id == k.id
    <2>1. id \in Ids /\ P = RemovePlan(id)
      BY <1>3, <1>8, CallKinds DEF P
    <2> HIDE DEF id
    <2>2. StmtsOf(P) = RemoveStmts(id)
      BY <1>5, <2>1, RemovePiece
    <2>3. \A x \in db : x.table # "items" => x.ord = 0
      BY DEF IInv, Types
    <2>4. db' = Atomic!Removed(db, id)
      BY <1>1, <1>2, <2>1, <2>2, <2>3, RemoveEffect
    <2>5. Atomic!Remove(id)
      BY <2>4 DEF Atomic!Remove
    <2> QED BY <1>8, <2>1, <2>5 DEF k, id
  <1>9. CASE k.op = "import"
    <2> DEFINE m == k.msg
               n == k.next
    <2>1. m \in Messages /\ n \in Messages /\ P = CreatePlan(m) \o CreatePlan(n)
      BY <1>3, <1>9, CallKinds DEF P, ImportPlan
    <2> HIDE DEF m, n
    <2>2. /\ CreatePlan(m) \in Seq(Statements) /\ StmtsOf(CreatePlan(m)) = CreateStmts(m)
          /\ CreatePlan(n) \in Seq(Statements) /\ StmtsOf(CreatePlan(n)) = CreateStmts(n)
      BY <2>1, CreatePiece DEF Piece
    <2> DEFINE A == CreatePlan(m)
               B == CreatePlan(n)
    <2> HIDE DEF A, B
    <2>3. /\ Len(A) \in Nat /\ Len(B) \in Nat
          /\ \A i \in 1..Len(A) : i \in 1..Len(P) /\ P[i] = A[i]
          /\ \A i \in 1..Len(B) : Len(A) + i \in 1..Len(P) /\ P[Len(A) + i] = B[i]
          /\ StmtsOf(P) = CreateStmts(m) \cup CreateStmts(n)
      BY <2>1, <2>2, ConcatElements DEF A, B
    <2>4. db' = Atomic!Created(Atomic!Created(db, m), n)
      <3>1. After(db, CreateStmts(m) \cup CreateStmts(n)) = Atomic!Created(Atomic!Created(db, m), n)
        BY <2>1, CreateEffect
      <3> QED BY <1>1, <1>2, <2>3, <3>1
    <2>5. \A s \in StmtsOf(P) : s.kind = "insert" => Hits(db, s) = {}
      BY <1>4, <1>9 DEF StmtsOf
    <2>6. Atomic!Matching(Atomic!RowsOf(m), db) = {}
      BY <2>1, <2>3, <2>5, FreshRows
    <2>7. ASSUME NEW s \in CreateStmts(n), s.kind = "insert"
          PROVE  Hits(Atomic!Created(db, m), s) = {}
      <3> SUFFICES ASSUME NEW x \in Atomic!RowsOf(m), x \in Hits(Atomic!RowsOf(m), s)
                   PROVE  FALSE
        BY <2>3, <2>5, <2>7 DEF Atomic!Created, Hits
      <3>1. PICK r \in CreateStmts(m) : r.kind = "insert" /\ x = RowOf(r)
        BY <2>1, CreateRows
      <3>2. PICK h \in 1..Len(A) : r = A[h]
        BY <2>2 DEF StmtsOf, A
      <3>3. PICK j \in 1..Len(B) : s = B[j]
        BY <2>2 DEF StmtsOf, B
      <3>4. h \in 1..((Len(A) + j) - 1)
        BY <2>3
      <3>5. P[h] = r /\ P[Len(A) + j] = s /\ Len(A) + j \in 1..Len(P)
        BY <2>3, <3>2, <3>3
      <3>6. Hits({RowOf(r)}, s) = {}
        BY <1>4, <1>9, <2>7, <3>1, <3>4, <3>5
      <3> QED BY <3>1, <3>6 DEF Hits
    <2>8. Atomic!Matching(Atomic!RowsOf(n), Atomic!Created(db, m)) = {}
      BY <2>1, <2>7, FreshRows
    <2>9. Atomic!Import(m, n)
      BY <2>4, <2>6, <2>8 DEF Atomic!Import
    <2> QED BY <1>9, <2>1, <2>9 DEF k, m, n
  <1> QED BY <1>3, <1>6, <1>7, <1>8, <1>9, CallKinds

\* Nothing else changes the committed rows.
LEMMA OnlyCommits ==
    ASSUME [Next]_vars, ~\E c \in Clients : Commit(c)
    PROVE  db' = db
  <1>1. CASE UNCHANGED vars
    BY <1>1 DEF vars
  <1>2. ASSUME NEW c \in Clients, Step(c) PROVE db' = db
    BY <1>2 DEF Step, Execute, Defer, Raises, Busy, CommitFails, RollBack, Abandon, Publish, PublishRaises,
                Return, SelectRow, SelectRef, SelectItems
  <1>3. ASSUME NEW c \in Clients, NEW k \in Calls, Begin(c, k) PROVE db' = db
    BY <1>3 DEF Begin
  <1> QED BY <1>1, <1>2, <1>3 DEF Next

\* "Every call is one transaction": through any interleaving of the requests'
\* statements, failures and commits, the committed rows change by whole calls.
THEOREM CallsAreAtomicHolds == Spec => CallsAreAtomic
  <1>1. Init => Atomic!Init
    BY DEF Init, Atomic!Init
  <1>2. IInv /\ [Next]_vars => [Atomic!Next]_db
    <2>1. ASSUME IInv, NEW c \in Clients, Commit(c) PROVE Atomic!Next
      BY <2>1, CommitIsAtomic DEF Atomic!Next, Ids
    <2> QED BY <2>1, OnlyCommits
  <1> QED BY <1>1, <1>2, IInvHolds, PTL DEF Spec, CallsAreAtomic, Atomic!Spec

-----------------------------------------------------------------------------
(* Rows stay whole. *)

\* RowsWhole, of any set of rows; and rows of one per key have no order number.
ItemsOf(S, o) == {y \in S : Atomic!IsItemOf(y, o)}
WholeRows(S) ==
    /\ \A x \in S : x.table = "main" =>
          /\ ItemsOf(S, x.owner) = Atomic!ItemRows(x.msg)
          /\ RefOf[x.msg] # None => \E y \in S : y.table = "ref" /\ y.owner = RefOf[x.msg]
    /\ \A y \in S : y.table = "items" => \E x \in S : x.table = "main" /\ x.owner = y.owner
Single(S) == \A x \in S : x.table # "items" => x.ord = 0

\* The rows of a message.
LEMMA MessageRows ==
    ASSUME NEW m
    PROVE  /\ \A x \in Atomic!RefRows(m) : x.table = "ref" /\ x.owner = RefOf[m] /\ x.ord = 0
           /\ RefOf[m] # None => \E x \in Atomic!RefRows(m) : TRUE
           /\ \A x \in Atomic!MainRows(m) :
                 x.table = "main" /\ x.owner = IdOf[m] /\ x.ord = 0 /\ x.msg = m
           /\ \E x \in Atomic!MainRows(m) : TRUE
           /\ \A x \in Atomic!ItemRows(m) : x.table = "items" /\ x.owner = IdOf[m]
  <1>1. \A t, o, n : LET x == Atomic!Row(t, o, n, m) IN
            x.table = t /\ x.owner = o /\ x.ord = n /\ x.msg = m
    BY DEF Atomic!Row
  <1> QED BY <1>1 DEF Atomic!RefRows, Atomic!MainRows, Atomic!ItemRows

\* create().
LEMMA CreatedWhole ==
    ASSUME NEW S, NEW m, WholeRows(S), Single(S), Atomic!Matching(Atomic!RowsOf(m), S) = {}
    PROVE  WholeRows(Atomic!Created(S, m)) /\ Single(Atomic!Created(S, m))
  <1> DEFINE T == Atomic!Created(S, m)
             id == IdOf[m]
             A == Atomic!RefRows(m)
             B == Atomic!MainRows(m)
             C == Atomic!ItemRows(m)
  <1>1. T = S \cup A \cup B \cup C
    BY DEF Atomic!Created, Atomic!RowsOf
  <1>2. /\ \A x \in A : x.table = "ref" /\ x.owner = RefOf[m] /\ x.ord = 0
        /\ RefOf[m] # None => \E x \in A : TRUE
        /\ \A x \in B : x.table = "main" /\ x.owner = id /\ x.ord = 0 /\ x.msg = m
        /\ \E x \in B : TRUE
        /\ \A x \in C : x.table = "items" /\ x.owner = id
    BY MessageRows
  <1>3. \A x \in B, y \in S : ~Atomic!SameKey(x, y)
    BY DEF Atomic!Matching, Atomic!RowsOf
  <1> HIDE DEF T, A, B, C, id
  <1>4. \A y \in S : y.table = "main" => y.owner # id
    BY <1>2, <1>3 DEF Atomic!SameKey, Single
  <1>5. \A y \in S : y.table = "items" => y.owner # id
    BY <1>4 DEF WholeRows
  <1>6. ASSUME NEW x \in T, x.table = "main"
        PROVE  /\ ItemsOf(T, x.owner) = Atomic!ItemRows(x.msg)
               /\ RefOf[x.msg] # None => \E y \in T : y.table = "ref" /\ y.owner = RefOf[x.msg]
    <2>1. CASE x \in S
      <3>1. ItemsOf(T, x.owner) = ItemsOf(S, x.owner)
        BY <1>1, <1>2, <1>4, <1>6, <2>1 DEF ItemsOf, Atomic!IsItemOf
      <3> QED BY <1>1, <1>6, <2>1, <3>1 DEF WholeRows
    <2>2. CASE x \notin S
      <3>1. x \in B /\ x.owner = id /\ x.msg = m
        BY <1>1, <1>2, <1>6, <2>2
      <3>2. ItemsOf(T, id) = C
        BY <1>1, <1>2, <1>5 DEF ItemsOf, Atomic!IsItemOf
      <3> QED BY <1>1, <1>2, <3>1, <3>2 DEF C
    <2> QED BY <2>1, <2>2
  <1>7. ASSUME NEW y \in T, y.table = "items"
        PROVE  \E x \in T : x.table = "main" /\ x.owner = y.owner
    <2>1. CASE y \in S
      BY <1>1, <1>7, <2>1 DEF WholeRows
    <2>2. CASE y \notin S
      <3>1. y.owner = id
        BY <1>1, <1>2, <1>7, <2>2
      <3> QED BY <1>1, <1>2, <3>1
    <2> QED BY <2>1, <2>2
  <1>8. WholeRows(T)
    BY <1>6, <1>7 DEF WholeRows
  <1>9. Single(T)
    BY <1>1, <1>2 DEF Single
  <1> QED BY <1>8, <1>9 DEF T

\* update() of a row that is there.
LEMMA UpdatedWhole ==
    ASSUME NEW S, NEW m, WholeRows(S), Single(S),
           \E x \in S : x.table = "main" /\ x.owner = IdOf[m],
           RefOf[m] # None => \E x \in S : x.table = "ref" /\ x.owner = RefOf[m]
    PROVE  WholeRows(Atomic!Updated(S, m))
  <1> DEFINE T == Atomic!Updated(S, m)
             id == IdOf[m]
             A == Atomic!RefRows(m)
             B == Atomic!MainRows(m)
             C == Atomic!ItemRows(m)
             hit == Atomic!Matching(A \cup B, S)
             old == Atomic!Matching(S, hit)
  <1>1. T = {x \in S \ old : ~Atomic!IsItemOf(x, id)} \cup hit \cup C
    BY DEF Atomic!Updated
  <1>2. /\ \A x \in A : x.table = "ref" /\ x.owner = RefOf[m] /\ x.ord = 0
        /\ RefOf[m] # None => \E x \in A : TRUE
        /\ \A x \in B : x.table = "main" /\ x.owner = id /\ x.ord = 0 /\ x.msg = m
        /\ \E x \in B : TRUE
        /\ \A x \in C : x.table = "items" /\ x.owner = id
    BY MessageRows
  <1>3. RefOf[m] = None => A = {}
    BY DEF Atomic!RefRows
  <1>4. hit = {x \in A \cup B : \E y \in S : Atomic!SameKey(x, y)}
        /\ old = {x \in S : \E y \in hit : Atomic!SameKey(x, y)}
    BY DEF Atomic!Matching
  <1> HIDE DEF T, A, B, C, hit, old, id
  <1>5. hit = A \cup B
    <2>1. \A x \in B : \E y \in S : Atomic!SameKey(x, y)
      BY <1>2 DEF Atomic!SameKey, Single, id
    <2>2. \A x \in A : \E y \in S : Atomic!SameKey(x, y)
      BY <1>2, <1>3 DEF Atomic!SameKey, Single
    <2> QED BY <1>4, <2>1, <2>2
  <1>6. \A x \in old : \/ x.table = "main" /\ x.owner = id
                       \/ x.table = "ref" /\ x.owner = RefOf[m] /\ A # {}
    BY <1>2, <1>4, <1>5 DEF Atomic!SameKey
  <1>7. \A x \in S : x.table = "main" /\ x.owner = id => x \in old
    BY <1>2, <1>4, <1>5 DEF Atomic!SameKey, Single
  <1>8. ASSUME NEW x \in T, x.table = "main"
        PROVE  /\ ItemsOf(T, x.owner) = Atomic!ItemRows(x.msg)
               /\ RefOf[x.msg] # None => \E y \in T : y.table = "ref" /\ y.owner = RefOf[x.msg]
    <2>1. CASE x \in B
      <3>1. x.owner = id /\ x.msg = m
        BY <1>2, <2>1
      <3>2. ItemsOf(T, id) = C
        BY <1>1, <1>2, <1>5 DEF ItemsOf, Atomic!IsItemOf
      <3> QED BY <1>1, <1>2, <1>5, <3>1, <3>2 DEF C
    <2>2. CASE x \notin B
      <3>1. x \in S /\ x \notin old /\ x.owner # id
        BY <1>1, <1>2, <1>5, <1>7, <1>8, <2>2
      <3>2. ItemsOf(T, x.owner) = ItemsOf(S, x.owner)
        BY <1>1, <1>2, <1>5, <1>6, <3>1 DEF ItemsOf, Atomic!IsItemOf
      <3>3. ItemsOf(T, x.owner) = Atomic!ItemRows(x.msg)
        BY <1>8, <3>1, <3>2 DEF WholeRows
      <3>4. ASSUME RefOf[x.msg] # None
            PROVE  \E y \in T : y.table = "ref" /\ y.owner = RefOf[x.msg]
        <4>1. PICK y \in S : y.table = "ref" /\ y.owner = RefOf[x.msg]
          BY <1>8, <3>1, <3>4 DEF WholeRows
        <4>2. CASE y \in old
          BY <1>1, <1>2, <1>5, <1>6, <4>1, <4>2
        <4>3. CASE y \notin old
          BY <1>1, <4>1, <4>3 DEF Atomic!IsItemOf
        <4> QED BY <4>2, <4>3
      <3> QED BY <3>3, <3>4
    <2> QED BY <2>1, <2>2
  <1>9. ASSUME NEW y \in T, y.table = "items"
        PROVE  \E x \in T : x.table = "main" /\ x.owner = y.owner
    <2>1. CASE y.owner = id
      BY <1>1, <1>2, <1>5, <2>1
    <2>2. CASE y.owner # id
      <3>1. y \in S
        BY <1>1, <1>2, <1>5, <1>9, <2>2
      <3>2. PICK x \in S : x.table = "main" /\ x.owner = y.owner
        BY <1>9, <3>1 DEF WholeRows
      <3>3. x \notin old
        BY <1>6, <2>2, <3>2
      <3> QED BY <1>1, <3>2, <3>3 DEF Atomic!IsItemOf
    <2> QED BY <2>1, <2>2
  <1> QED BY <1>8, <1>9 DEF WholeRows, T

\* remove().
LEMMA RemovedWhole ==
    ASSUME NEW S, NEW id, WholeRows(S)
    PROVE  WholeRows(Atomic!Removed(S, id))
  <1> DEFINE T == Atomic!Removed(S, id)
  <1>1. T = {x \in S : ~(x.table = "main" /\ x.owner = id) /\ ~(x.table = "items" /\ x.owner = id)}
    BY DEF Atomic!Removed, Atomic!IsItemOf
  <1> HIDE DEF T
  <1>2. ASSUME NEW x \in T, x.table = "main"
        PROVE  /\ ItemsOf(T, x.owner) = Atomic!ItemRows(x.msg)
               /\ RefOf[x.msg] # None => \E y \in T : y.table = "ref" /\ y.owner = RefOf[x.msg]
    <2>1. x \in S /\ x.owner # id
      BY <1>1, <1>2
    <2>2. ItemsOf(T, x.owner) = ItemsOf(S, x.owner)
      BY <1>1, <2>1 DEF ItemsOf, Atomic!IsItemOf
    <2> QED BY <1>1, <1>2, <2>1, <2>2 DEF WholeRows
  <1>3. ASSUME NEW y \in T, y.table = "items"
        PROVE  \E x \in T : x.table = "main" /\ x.owner = y.owner
    BY <1>1, <1>3 DEF WholeRows
  <1> QED BY <1>2, <1>3 DEF WholeRows, T

\* RowsWhole is about the committed rows.
LEMMA WholeIsRowsWhole == RowsWhole <=> (~missed => WholeRows(db))
  BY DEF RowsWhole, WholeRows, ItemsOf

\* A commit() that missed no row.
LEMMA CommitWhole ==
    ASSUME IInv, RowsWhole, NEW c \in Clients, Commit(c)
    PROVE  RowsWhole'
  <1> DEFINE k == call[c]
  <1> SUFFICES ASSUME ~missed' PROVE WholeRows(db')
    <2>1. RowsWhole' <=> (~missed' => WholeRows(db'))
      BY DEF RowsWhole, WholeRows, ItemsOf
    <2> QED BY <2>1
  <1>1. missed' = (missed \/ Misses(k))
    BY DEF Commit
  <1>2. ~missed /\ ~Misses(k)
    BY <1>1
  <1>3. WholeRows(db) /\ Single(db)
    BY <1>2, WholeIsRowsWhole DEF IInv, Types, Single
  <1>4. \/ k.op = "create" /\ k.msg \in Messages /\ Atomic!Create(k.msg)
        \/ k.op = "update" /\ k.msg \in Messages /\ Atomic!Update(k.msg)
        \/ k.op = "remove" /\ k.id \in Ids /\ Atomic!Remove(k.id)
        \/ k.op = "import" /\ k.msg \in Messages /\ k.next \in Messages
             /\ Atomic!Import(k.msg, k.next)
    BY CommitIsAtomic
  <1>5. CASE Atomic!Create(k.msg)
    BY <1>3, <1>5, CreatedWhole DEF Atomic!Create
  <1>6. CASE k.op = "update" /\ Atomic!Update(k.msg)
    <2>1. /\ \E x \in db : x.table = "main" /\ x.owner = IdOf[k.msg]
          /\ RefOf[k.msg] # None => \E x \in db : x.table = "ref" /\ x.owner = RefOf[k.msg]
      BY <1>2, <1>6 DEF Misses
    <2>2. db' = Atomic!Updated(db, k.msg)
      BY <1>6 DEF Atomic!Update
    <2> QED BY <1>3, <2>1, <2>2, UpdatedWhole
  <1>7. CASE Atomic!Remove(k.id)
    BY <1>3, <1>7, RemovedWhole DEF Atomic!Remove
  <1>8. CASE Atomic!Import(k.msg, k.next)
    <2> DEFINE S == Atomic!Created(db, k.msg)
    <2>1. /\ Atomic!Matching(Atomic!RowsOf(k.msg), db) = {}
          /\ Atomic!Matching(Atomic!RowsOf(k.next), S) = {}
          /\ db' = Atomic!Created(S, k.next)
      BY <1>8 DEF Atomic!Import
    <2>2. WholeRows(S) /\ Single(S)
      BY <1>3, <2>1, CreatedWhole
    <2> HIDE DEF S
    <2> QED BY <2>1, <2>2, CreatedWhole
  <1> QED BY <1>4, <1>5, <1>6, <1>7, <1>8

\* A request of which nothing changes, in a step that commits nothing.
LEMMA ReadingFrame ==
    ASSUME NEW d \in Clients, Reading(d), pc'[d] = pc[d], call'[d] = call[d], got'[d] = got[d],
           raced'[d] = raced[d], db' = db, missed' = missed
    PROVE  Reading(d)'
  BY DEF Reading

\* A SELECT of a read() that no commit has fallen into.
LEMMA SelectReading ==
    ASSUME IInv, RowsWhole, NEW c \in Clients, Reading(c),
           SelectRow(c) \/ SelectRef(c) \/ SelectItems(c)
    PROVE  Reading(c)'
  <1>1. UNCHANGED <<db, call, raced, missed>>
    BY DEF SelectRow, SelectRef, SelectItems
  <1>2. /\ pc \in [Clients -> {"idle", "exec", "left", "fire", "row", "ref", "items"}]
        /\ got \in [Clients -> GotType]
    BY DEF IInv, Types, TypeOK
  <1>3. got[c] \in GotType
    BY <1>2
  <1> SUFFICES ASSUME ~raced[c], ~missed
               PROVE  /\ pc'[c] \in {"ref", "items"} =>
                            \E x \in db : /\ x.table = "main" /\ x.owner = call[c].id
                                          /\ x.msg = got'[c].main
                      /\ pc'[c] = "items" => (RefOf[got'[c].main] # None => got'[c].ref)
                      /\ pc'[c] = "fire" => Whole(got'[c])
    BY <1>1 DEF Reading
  <1>4. WholeRows(db)
    BY WholeIsRowsWhole
  <1>5. CASE SelectRow(c)
    <2> DEFINE hit == {x \in db : x.table = "main" /\ x.owner = call[c].id}
               m == IF hit = {} THEN None ELSE (CHOOSE x \in hit : TRUE).msg
    <2>1. got' = [got EXCEPT ![c].main = m] /\ pc' = [pc EXCEPT ![c] = IF hit = {} THEN "fire" ELSE "ref"]
      BY <1>5 DEF SelectRow
    <2>2. hit # {} => (CHOOSE x \in hit : TRUE) \in hit
      OBVIOUS
    <2>3. hit # {} => \E x \in db : x.table = "main" /\ x.owner = call[c].id /\ x.msg = m
      BY <2>2
    <2>4. hit = {} => m = None
      OBVIOUS
    <2> HIDE DEF hit, m
    <2>5. got'[c].main = m /\ pc'[c] = IF hit = {} THEN "fire" ELSE "ref"
      BY <1>2, <2>1 DEF GotType
    <2>6. CASE hit = {}
      BY <2>4, <2>5, <2>6 DEF Whole
    <2>7. CASE hit # {}
      BY <2>3, <2>5, <2>7
    <2> QED BY <2>6, <2>7
  <1>6. CASE SelectRef(c)
    <2> DEFINE b == \E x \in db : x.table = "ref" /\ x.owner = RefOf[got[c].main]
    <2>1. pc[c] = "ref" /\ got' = [got EXCEPT ![c].ref = b] /\ pc' = [pc EXCEPT ![c] = "items"]
      BY <1>6 DEF SelectRef
    <2>2. \E x \in db : x.table = "main" /\ x.owner = call[c].id /\ x.msg = got[c].main
      BY <2>1 DEF Reading
    <2>3. RefOf[got[c].main] # None => b
      BY <1>4, <2>2 DEF WholeRows
    <2> HIDE DEF b
    <2>4. got'[c].main = got[c].main /\ got'[c].ref = b /\ pc'[c] = "items"
      BY <1>2, <2>1 DEF GotType
    <2> QED BY <2>2, <2>3, <2>4
  <1>7. CASE SelectItems(c)
    <2> DEFINE I == {y \in db : y.table = "items" /\ y.owner = call[c].id}
               i == {<<x.ord, x.msg>> : x \in I}
               m == got[c].main
    <2>1. pc[c] = "items" /\ got' = [got EXCEPT ![c].items = i] /\ pc' = [pc EXCEPT ![c] = "fire"]
      BY <1>7 DEF SelectItems
    <2>2. PICK x \in db : x.table = "main" /\ x.owner = call[c].id /\ x.msg = m
      BY <2>1 DEF Reading
    <2>3. RefOf[m] # None => got[c].ref
      BY <2>1 DEF Reading
    <2>4. I = Atomic!ItemRows(m)
      BY <1>4, <2>2 DEF WholeRows, ItemsOf, Atomic!IsItemOf
    <2>5. I = {Atomic!Row("items", IdOf[m], n, m) : n \in 1..SizeOf[m]}
      BY <2>4 DEF Atomic!ItemRows
    <2>6. \A n : Atomic!Row("items", IdOf[m], n, m).ord = n /\ Atomic!Row("items", IdOf[m], n, m).msg = m
      BY DEF Atomic!Row
    <2> HIDE DEF I, m
    <2>7. i = {<<n, m>> : n \in 1..SizeOf[m]}
      BY <2>5, <2>6
    <2> HIDE DEF i
    <2>8. got'[c].main = m /\ got'[c].ref = got[c].ref /\ got'[c].items = i /\ pc'[c] = "fire"
      BY <1>2, <2>1 DEF GotType, m
    <2> QED BY <2>3, <2>7, <2>8 DEF Whole
  <1> QED BY <1>5, <1>6, <1>7

\* Every step keeps the rows whole, and what the read()s have loaded of them.
LEMMA NextWhole ==
    IInv /\ RowsWhole /\ (\A c \in Clients : Reading(c)) /\ [Next]_vars
       => RowsWhole' /\ \A c \in Clients : Reading(c)'
  <1> SUFFICES ASSUME IInv, RowsWhole, \A c \in Clients : Reading(c), [Next]_vars
               PROVE  RowsWhole' /\ \A c \in Clients : Reading(c)'
    OBVIOUS
  <1>0. /\ pc \in [Clients -> {"idle", "exec", "left", "fire", "row", "ref", "items"}]
        /\ got \in [Clients -> GotType] /\ call \in [Clients -> Calls \cup {None}]
        /\ raced \in [Clients -> BOOLEAN]
    BY DEF IInv, Types, TypeOK
  <1>1. ASSUME NEW c \in Clients, Commit(c) PROVE RowsWhole' /\ \A d \in Clients : Reading(d)'
    <2>1. /\ pc[c] = "exec" /\ pc' = [pc EXCEPT ![c] = "fire"]
          /\ missed' = (missed \/ Misses(call[c]))
          /\ raced' = [r \in Clients |-> raced[r] \/ pc[r] \in {"ref", "items"}]
          /\ UNCHANGED <<call, got>>
      BY <1>1 DEF Commit
    <2>2. ASSUME NEW d \in Clients, ~raced'[d], ~missed'
          PROVE  pc'[d] \notin {"ref", "items"} /\ (pc'[d] = "fire" => Whole(got'[d]))
      <3>1. ~missed /\ ~raced[d] /\ pc[d] \notin {"ref", "items"}
        BY <2>1, <2>2
      <3>2. CASE d = c
        <4>1. got'[d] = Nothing /\ pc'[d] = "fire"
          BY <1>0, <2>1, <3>2 DEF IInv, Place
        <4>2. Whole(Nothing)
          BY DEF Whole, Nothing
        <4> QED BY <4>1, <4>2
      <3>3. CASE d # c
        <4>1. pc'[d] = pc[d] /\ got'[d] = got[d]
          BY <1>0, <2>1, <3>3
        <4> QED BY <3>1, <4>1 DEF Reading
      <3> QED BY <3>2, <3>3
    <2>3. \A d \in Clients : Reading(d)'
      BY <2>2 DEF Reading
    <2> QED BY <1>1, <2>3, CommitWhole
  <1>2. ASSUME ~\E c \in Clients : Commit(c)
        PROVE  RowsWhole' /\ \A d \in Clients : Reading(d)'
    <2>1. db' = db
      BY <1>2, OnlyCommits
    <2>2. missed' = missed
      <3>1. CASE UNCHANGED vars
        BY <3>1 DEF vars
      <3>2. ASSUME NEW c \in Clients, Step(c) PROVE missed' = missed
        BY <1>2, <3>2 DEF Step, Execute, Defer, Raises, Busy, CommitFails, RollBack, Abandon, Publish,
                          PublishRaises, Return, SelectRow, SelectRef, SelectItems
      <3>3. ASSUME NEW c \in Clients, NEW k \in Calls, Begin(c, k) PROVE missed' = missed
        BY <3>3 DEF Begin
      <3> QED BY <3>1, <3>2, <3>3 DEF Next
    <2>3. RowsWhole'
      BY <2>1, <2>2 DEF RowsWhole
    <2>4. ASSUME UNCHANGED vars PROVE \A d \in Clients : Reading(d)'
      BY <2>4, ReadingFrame DEF vars
    <2>5. ASSUME NEW c \in Clients, SelectRow(c) \/ SelectRef(c) \/ SelectItems(c)
          PROVE  \A d \in Clients : Reading(d)'
      <3>1. UNCHANGED <<db, call, raced, missed>>
        BY <2>5 DEF SelectRow, SelectRef, SelectItems
      <3>2. \A d \in Clients : d # c => pc'[d] = pc[d] /\ got'[d] = got[d]
        <4>1. CASE SelectRow(c)
          BY <1>0, <4>1 DEF SelectRow
        <4>2. CASE SelectRef(c)
          BY <1>0, <4>2 DEF SelectRef
        <4>3. CASE SelectItems(c)
          BY <1>0, <4>3 DEF SelectItems
        <4> QED BY <2>5, <4>1, <4>2, <4>3
      <3>3. \A d \in Clients : d # c => Reading(d)'
        BY <3>1, <3>2, ReadingFrame
      <3> QED BY <2>5, <3>3, SelectReading
    <2>6. ASSUME NEW c \in Clients, pc'[c] \in {"idle", "exec", "left", "row"},
                 \A d \in Clients : d # c => /\ pc'[d] = pc[d] /\ call'[d] = call[d]
                                             /\ got'[d] = got[d] /\ raced'[d] = raced[d]
          PROVE  \A d \in Clients : Reading(d)'
      <3>1. Reading(c)'
        BY <2>6 DEF Reading
      <3> QED BY <2>1, <2>2, <2>6, <3>1, ReadingFrame
    <2>7. ASSUME NEW c \in Clients, Leave(c) PROVE \A d \in Clients : Reading(d)'
      <3>1. pc'[c] = "idle"
        BY <1>0, <2>7 DEF Leave
      <3>2. \A d \in Clients : d # c => /\ pc'[d] = pc[d] /\ call'[d] = call[d]
                                        /\ got'[d] = got[d] /\ raced'[d] = raced[d]
        BY <1>0, <2>7 DEF Leave
      <3> QED BY <2>6, <3>1, <3>2
    <2>8. ASSUME NEW c \in Clients, Execute(c) \/ Defer(c) \/ Publish(c)
          PROVE  \A d \in Clients : Reading(d)'
      <3>1. UNCHANGED <<pc, call, got, raced>>
        BY <2>8 DEF Execute, Defer, Publish
      <3> QED BY <2>1, <2>2, <3>1, ReadingFrame
    <2>9. ASSUME NEW c \in Clients, NEW k \in Calls, Begin(c, k)
          PROVE  \A d \in Clients : Reading(d)'
      <3>1. /\ pc' = [pc EXCEPT ![c] = IF k.op = "read" THEN "row" ELSE "exec"]
            /\ call' = [call EXCEPT ![c] = k] /\ UNCHANGED <<got, raced>>
        BY <2>9 DEF Begin
      <3>2. pc'[c] \in {"row", "exec"}
        BY <1>0, <3>1
      <3>3. \A d \in Clients : d # c => pc'[d] = pc[d] /\ call'[d] = call[d]
        BY <1>0, <3>1
      <3> QED BY <2>6, <3>1, <3>2, <3>3
    <2>10. ASSUME NEW c \in Clients, Step(c) PROVE \A d \in Clients : Reading(d)'
      <3>1. \/ Execute(c) \/ Defer(c) \/ Publish(c) \/ Leave(c)
            \/ pc' = [pc EXCEPT ![c] = "left"] /\ UNCHANGED <<call, got, raced>>
            \/ SelectRow(c) \/ SelectRef(c) \/ SelectItems(c)
        BY <1>2, <2>10 DEF Step, Raises, Busy, CommitFails, RollBack, PublishRaises, Return, Abandon
      <3>2. ASSUME pc' = [pc EXCEPT ![c] = "left"], UNCHANGED <<call, got, raced>>
            PROVE  \A d \in Clients : Reading(d)'
        <4>1. pc'[c] = "left" /\ \A d \in Clients : d # c => pc'[d] = pc[d]
          BY <1>0, <3>2
        <4> QED BY <2>6, <3>2, <4>1
      <3> QED BY <2>5, <2>7, <2>8, <3>1, <3>2
    <2> QED BY <2>3, <2>4, <2>9, <2>10 DEF Next
  <1> QED BY <1>1, <1>2

\* What every client's read() has loaded so far is what Reading says.
Readings == \A c \in Clients : Reading(c)

\* Both hold of every reachable state.
LEMMA WholeHolds == Spec => [](RowsWhole /\ Readings)
  <1>1. Init => RowsWhole /\ Readings
    BY DEF Init, RowsWhole, Reading, Readings
  <1>2. IInv /\ (RowsWhole /\ Readings) /\ [Next]_vars => (RowsWhole /\ Readings)'
    BY NextWhole DEF Readings
  <1> QED BY <1>1, <1>2, IInvHolds, PTL DEF Spec

\* No sequence of calls tears a row, as long as no update() missed its row.
THEOREM RowsWholeHolds == Spec => []RowsWhole
  BY WholeHolds, PTL

\* A read() that no commit fell into returns a message as it was written.
THEOREM ReadWholeUndisturbedHolds == Spec => []ReadWholeUndisturbed
  <1>1. Readings => ReadWholeUndisturbed
    BY DEF Readings, Reading, ReadWholeUndisturbed
  <1> QED BY <1>1, WholeHolds, PTL
=============================================================================
