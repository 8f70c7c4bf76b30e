-------------------------- MODULE KnownNodesProofs --------------------------
(***************************************************************************)
(* Theorems about KnownNodes, for every set of addresses and connections   *)
(* and every content of the messages.                                      *)
(***************************************************************************)
EXTENDS KnownNodes, LedgerProofs

\* Between the load of the slice and the end of its store.
Between == {"store", "storing"}

\* As long as nothing raced, at most one goroutine is about to store, and it
\* holds the list as it is.
LoadIsCurrent ==
  ~raced => /\ \A c, d \in Conn : pc[c] \in Between /\ pc[d] \in Between => c = d
            /\ \A c \in Conn : pc[c] \in Between => slice[c] = knownNodes

KnownInv == TypeOK /\ LoadIsCurrent /\ UnracedAsExpected

-----------------------------------------------------------------------------
(* The lists *)

LEMMA AppendAdds ==
  ASSUME NEW list \in Seq(Node), NEW n \in Node
  PROVE  Append(list, n) \in Seq(Node) /\ ToSet(Append(list, n)) = ToSet(list) \cup {n}
<1>1. /\ Append(list, n) \in Seq(Node) /\ Len(Append(list, n)) = Len(list) + 1
      /\ \A i \in 1..Len(list) : Append(list, n)[i] = list[i]
      /\ Append(list, n)[Len(list) + 1] = n
  BY AppendProperties
<1>2. DOMAIN Append(list, n) = 1..(Len(list) + 1) /\ DOMAIN list = 1..Len(list) /\ Len(list) \in Nat
  BY <1>1
<1>3. 1..(Len(list) + 1) = 1..Len(list) \cup {Len(list) + 1}
  BY <1>2
<1> QED
  BY <1>1, <1>2, <1>3 DEF ToSet

LEMMA ConcatAdds ==
  ASSUME NEW s \in Seq(Node), NEW t \in Seq(Node)
  PROVE  s \o t \in Seq(Node) /\ ToSet(s \o t) = ToSet(s) \cup ToSet(t)
<1> DEFINE u == s \o t
<1>1. /\ u \in Seq(Node) /\ Len(u) = Len(s) + Len(t)
      /\ \A i \in 1..Len(s) + Len(t) : u[i] = IF i <= Len(s) THEN s[i] ELSE t[i - Len(s)]
  BY ConcatProperties
<1>2. /\ DOMAIN u = 1..(Len(s) + Len(t)) /\ DOMAIN s = 1..Len(s) /\ DOMAIN t = 1..Len(t)
      /\ Len(s) \in Nat /\ Len(t) \in Nat
  BY <1>1
<1> HIDE DEF u
<1>3. ASSUME NEW i \in DOMAIN u PROVE u[i] \in ToSet(s) \cup ToSet(t)
  <2>1. CASE i <= Len(s)
    <3>1. i \in DOMAIN s /\ u[i] = s[i]
      BY <1>1, <1>2, <1>3, <2>1
    <3> QED
      BY <3>1 DEF ToSet
  <2>2. CASE ~ (i <= Len(s))
    <3>1. i - Len(s) \in DOMAIN t /\ u[i] = t[i - Len(s)]
      BY <1>1, <1>2, <1>3, <2>2
    <3> QED
      BY <3>1 DEF ToSet
  <2> QED
    BY <2>1, <2>2
<1>4. ASSUME NEW i \in DOMAIN s PROVE s[i] \in ToSet(u)
  <2>1. i \in DOMAIN u /\ u[i] = s[i]
    BY <1>1, <1>2, <1>4
  <2> QED
    BY <2>1 DEF ToSet
<1>5. ASSUME NEW i \in DOMAIN t PROVE t[i] \in ToSet(u)
  <2>1. Len(s) + i \in DOMAIN u /\ u[Len(s) + i] = t[i]
    BY <1>1, <1>2, <1>5
  <2> QED
    BY <2>1 DEF ToSet
<1>6. ToSet(u) = ToSet(s) \cup ToSet(t)
  BY <1>3, <1>4, <1>5 DEF ToSet
<1> QED
  BY <1>1, <1>6 DEF u

LEMMA WithoutRemoves ==
  ASSUME NEW list \in Seq(Node), NEW n
  PROVE  Without(list, n) \in Seq(Node) /\ ToSet(Without(list, n)) = ToSet(list) \ {n}
<1> DEFINE I == {k \in DOMAIN list : list[k] # n}
           w == KeepAt(list, I)
<1>1. \A i \in DOMAIN list : i \in I <=> list[i] # n
  OBVIOUS
<1>2. Without(list, n) = w
  BY DEF Without
<1> HIDE DEF I
<1>3. /\ w \in Seq(Node)
      /\ \A j \in DOMAIN w : \E i \in DOMAIN list : i \in I /\ list[i] = w[j]
      /\ \A i \in DOMAIN list : i \in I => \E j \in DOMAIN w : list[i] = w[j]
  BY KeepAtFacts
<1> HIDE DEF w
<1>4. ASSUME NEW x PROVE x \in ToSet(w) <=> x \in ToSet(list) \ {n}
  BY <1>1, <1>3 DEF ToSet
<1> QED
  BY <1>2, <1>3, <1>4

-----------------------------------------------------------------------------
(* The invariant *)

\* Who looks at the slice while the only store is under way sees the old one or
\* the new one.
LEMMA SeenFacts ==
  ASSUME TypeOK
  PROVE  /\ Seen \subseteq Seq(Node)
         /\ \A c \in Storing : Append(slice[c], sender[c]) \in Seq(Node)
         /\ \A c \in Conn : (\A d \in Conn \ {c} : pc[d] \notin Between) /\ pc[c] # "storing"
              => Seen = {knownNodes}
<1>1. ASSUME NEW c \in Storing PROVE Append(slice[c], sender[c]) \in Seq(Node)
  BY AppendAdds DEF TypeOK, Storing
<1>2. Seen \subseteq Seq(Node)
  BY <1>1 DEF Seen, TypeOK
<1>3. ASSUME NEW c \in Conn, \A d \in Conn \ {c} : pc[d] \notin Between, pc[c] # "storing"
      PROVE  Seen = {knownNodes}
  BY <1>3 DEF Seen, Storing, Between
<1> QED
  BY <1>1, <1>2, <1>3

LEMMA InitInv == Init => KnownInv
<1> SUFFICES ASSUME Init PROVE KnownInv
  OBVIOUS
<1> USE KnownNodesAssumption DEF Init
<1>0. <<Seed>> \in Seq(Node) /\ <<>> \in Seq(Node)
  OBVIOUS
<1>1. TypeOK
  <2>1. sender \in [Conn -> Node] /\ slice \in [Conn -> Seq(Node)]
    BY <1>0
  <2> QED
    BY <1>0, <2>1 DEF TypeOK
<1>2. LoadIsCurrent
  BY DEF LoadIsCurrent, Between
<1>3. ToSet(<<Seed>>) = {Seed}
  BY DEF ToSet
<1> QED
  BY <1>1, <1>2, <1>3 DEF KnownInv, UnracedAsExpected

\* What a change of the list leaves when the goroutine that makes it ends up
\* outside a store.
ListKept(c) ==
  /\ knownNodes' \in Seq(Node)
  /\ expected' \subseteq Node
  /\ raced' \in BOOLEAN
  /\ UnracedAsExpected'
  /\ ~raced' => /\ ~raced
                /\ \/ knownNodes' = knownNodes
                   \/ \A d \in Conn \ {c} : pc[d] \notin Between

LEMMA NoChangeKeeps ==
  ASSUME KnownInv, NEW c \in Conn, NoChange
  PROVE  ListKept(c)
BY DEF KnownInv, TypeOK, UnracedAsExpected, NoChange, ListKept

LEMMA ChangeKeeps ==
  ASSUME KnownInv, NEW c \in Conn, NEW list \in Seq(Node), NEW set, set \subseteq Node,
         Changes(c, list, set),
         (~raced /\ \A d \in Conn \ {c} : pc[d] \notin Between) => ToSet(list) = set
  PROVE  ListKept(c)
<1>1. ~Pending(c) => \A d \in Conn \ {c} : pc[d] \notin Between
  BY DEF Pending, Between
<1>2. Pending(c) \in BOOLEAN
  BY DEF Pending
<1>3. /\ knownNodes' = list /\ expected' = set
      /\ raced' = (raced \/ Pending(c))
  BY DEF Changes
<1>4. raced' \in BOOLEAN
  BY <1>2, <1>3 DEF KnownInv, TypeOK
<1>5. ~raced' => ~raced /\ \A d \in Conn \ {c} : pc[d] \notin Between
  BY <1>1, <1>3
<1>6. UnracedAsExpected'
  BY <1>3, <1>5 DEF UnracedAsExpected
<1> QED
  BY <1>3, <1>4, <1>5, <1>6 DEF ListKept

\* A goroutine that is at no store reads what is there, as long as nothing raced.
LEMMA ReadsCurrent ==
  ASSUME KnownInv, NEW c \in Conn, pc[c] \notin Between, NEW list \in Seen
  PROVE  /\ list \in Seq(Node)
         /\ ~raced /\ (\A d \in Conn \ {c} : pc[d] \notin Between)
              => list = knownNodes /\ ToSet(list) = expected
<1>1. list \in Seq(Node)
  BY SeenFacts DEF KnownInv
<1>2. (\A d \in Conn \ {c} : pc[d] \notin Between) => Seen = {knownNodes}
  BY SeenFacts DEF KnownInv, Between
<1> QED
  BY <1>1, <1>2 DEF KnownInv, UnracedAsExpected

LEMMA SendDataKeeps ==
  ASSUME KnownInv, NEW c \in Conn, pc[c] \notin Between, NEW n, SendData(c, n)
  PROVE  ListKept(c)
<1>1. CASE NoChange
  BY <1>1, NoChangeKeeps
<1>2. CASE \E list \in Seen : Changes(c, Without(list, n), expected \ {n})
  <2>1. PICK list \in Seen : Changes(c, Without(list, n), expected \ {n})
    BY <1>2
  <2>2. list \in Seq(Node)
    BY ReadsCurrent
  <2>3. Without(list, n) \in Seq(Node) /\ ToSet(Without(list, n)) = ToSet(list) \ {n}
    BY <2>2, WithoutRemoves
  <2>4. expected \ {n} \subseteq Node
    BY DEF KnownInv, TypeOK
  <2>5. (~raced /\ \A d \in Conn \ {c} : pc[d] \notin Between)
          => ToSet(Without(list, n)) = expected \ {n}
    BY <2>3, ReadsCurrent
  <2> QED
    BY <2>1, <2>3, <2>4, <2>5, ChangeKeeps
<1> QED
  BY <1>1, <1>2 DEF SendData

Labels == {"idle", "check", "load", "store", "storing", "checkAgain",
           "append", "range", "asking", "done"}

\* A step of a goroutine that ends up at no store, and leaves the others where
\* they are, keeps the single store current.
LEMMA OutsideKeeps ==
  ASSUME KnownInv, NEW c \in Conn, ListKept(c),
         pc'[c] \notin Between,
         \A d \in Conn \ {c} : pc'[d] = pc[d] /\ slice'[d] = slice[d]
  PROVE  LoadIsCurrent'
<1> SUFFICES ASSUME ~raced'
             PROVE  /\ \A a, b \in Conn : pc'[a] \in Between /\ pc'[b] \in Between => a = b
                    /\ \A a \in Conn : pc'[a] \in Between => slice'[a] = knownNodes'
  BY DEF LoadIsCurrent
<1>1. ~raced /\ (knownNodes' = knownNodes \/ \A d \in Conn \ {c} : pc[d] \notin Between)
  BY DEF ListKept
<1>2. \A a \in Conn : pc'[a] \in Between => a \in Conn \ {c} /\ pc[a] \in Between
  OBVIOUS
<1> QED
  BY <1>1, <1>2 DEF KnownInv, LoadIsCurrent

LEMMA GotoFacts ==
  ASSUME TypeOK, NEW c \in Conn, NEW label \in Labels, Goto(c, label)
  PROVE  pc' \in [Conn -> Labels] /\ pc'[c] = label /\ \A d \in Conn \ {c} : pc'[d] = pc[d]
BY DEF TypeOK, Goto, Labels

\* The steps that leave the slices alone and end at no store.
LEMMA ListStepKeeps ==
  ASSUME KnownInv, NEW c \in Conn, ListKept(c),
         NEW label \in Labels \ Between, Goto(c, label),
         sender' \in [Conn -> Node], crashed' \in BOOLEAN,
         slice' \in [Conn -> Seq(Node)], \A d \in Conn \ {c} : slice'[d] = slice[d]
  PROVE  KnownInv'
<1>1. pc' \in [Conn -> Labels] /\ pc'[c] = label /\ \A d \in Conn \ {c} : pc'[d] = pc[d]
  BY GotoFacts DEF KnownInv
<1>2. LoadIsCurrent'
  BY <1>1, OutsideKeeps
<1>3. TypeOK'
  BY <1>1 DEF TypeOK, ListKept, Labels
<1> QED
  BY <1>2, <1>3 DEF KnownInv, ListKept

LEMMA VersionKeeps ==
  ASSUME KnownInv, NEW c \in Conn, NEW a \in Versions, Version(c, a)
  PROVE  KnownInv'
<1>1. pc[c] = "idle" /\ SendData(c, a) /\ Goto(c, "check")
  BY DEF Version
<1>2. sender' \in [Conn -> Node] /\ crashed' \in BOOLEAN /\ slice' = slice
  BY KnownNodesAssumption DEF Version, KnownInv, TypeOK
<1>3. slice' \in [Conn -> Seq(Node)]
  BY <1>2 DEF KnownInv, TypeOK
<1>4. "check" \in Labels \ Between /\ "idle" \notin Between
  BY DEF Labels, Between
<1>5. ListKept(c)
  BY <1>1, <1>4, SendDataKeeps
<1> QED
  BY <1>1, <1>2, <1>3, <1>4, <1>5, ListStepKeeps

LEMMA AddrKeeps ==
  ASSUME KnownInv, NEW c \in Conn, NEW list \in AddrLists, Addr(c, list)
  PROVE  KnownInv'
<1>1. PICK old \in Seen : Changes(c, old \o list, expected \cup ToSet(list))
  BY DEF Addr
<1>2. "range" \in Labels \ Between /\ "idle" \notin Between
  BY DEF Labels, Between
<1>3. /\ old \in Seq(Node)
      /\ ~raced /\ (\A d \in Conn \ {c} : pc[d] \notin Between) => ToSet(old) = expected
  BY <1>2, ReadsCurrent DEF Addr
<1>4. list \in Seq(Node)
  BY KnownNodesAssumption
<1>5. old \o list \in Seq(Node) /\ ToSet(old \o list) = ToSet(old) \cup ToSet(list)
  BY <1>3, <1>4, ConcatAdds
<1>6. expected \cup ToSet(list) \subseteq Node
  BY <1>4 DEF KnownInv, TypeOK, ToSet
<1>7. ListKept(c)
  BY <1>1, <1>3, <1>5, <1>6, ChangeKeeps
<1>8. slice' = slice /\ sender' = sender /\ crashed' = crashed /\ Goto(c, "range")
  BY DEF Addr
<1>9. sender' \in [Conn -> Node] /\ crashed' \in BOOLEAN /\ slice' \in [Conn -> Seq(Node)]
  BY <1>8 DEF KnownInv, TypeOK
<1> QED
  BY <1>2, <1>7, <1>8, <1>9, ListStepKeeps

LEMMA ReadStepKeeps ==
  ASSUME KnownInv, NEW c \in Conn, NEW label \in Labels \ Between, Goto(c, label),
         NoChange, UNCHANGED <<sender, slice, crashed>>
  PROVE  KnownInv'
<1>1. sender' \in [Conn -> Node] /\ crashed' \in BOOLEAN /\ slice' \in [Conn -> Seq(Node)]
  BY DEF KnownInv, TypeOK
<1> QED
  BY <1>1, NoChangeKeeps, ListStepKeeps

\* The load: the store that begins here is the only one, or something raced.
LEMMA LoadKeeps ==
  ASSUME KnownInv, NEW c \in Conn, Load(c)
  PROVE  KnownInv'
<1>1. PICK list \in Seen : slice' = [slice EXCEPT ![c] = list]
  BY DEF Load
<1>2. "store" \in Labels
  BY DEF Labels
<1>3. pc' \in [Conn -> Labels] /\ pc'[c] = "store" /\ \A d \in Conn \ {c} : pc'[d] = pc[d]
  BY <1>2, GotoFacts DEF KnownInv, Load
<1>4. /\ list \in Seq(Node)
      /\ ~raced /\ (\A d \in Conn \ {c} : pc[d] \notin Between) => list = knownNodes
  BY ReadsCurrent DEF Load, Between
<1>5. /\ UNCHANGED <<knownNodes, sender, crashed, expected>>
      /\ raced' = (raced \/ Pending(c))
  BY DEF Load
<1>6. ~raced' => ~raced /\ \A d \in Conn \ {c} : pc[d] \notin Between
  BY <1>5 DEF Pending, Between
<1>7. raced' \in BOOLEAN
  BY <1>5 DEF KnownInv, TypeOK, Pending
<1>8. slice' \in [Conn -> Seq(Node)] /\ slice'[c] = list
  BY <1>1, <1>4 DEF KnownInv, TypeOK
<1>9. TypeOK'
  BY <1>3, <1>5, <1>7, <1>8 DEF KnownInv, TypeOK, Labels
<1>10. UnracedAsExpected'
  BY <1>5, <1>6 DEF KnownInv, UnracedAsExpected
<1>11. LoadIsCurrent'
  <2> SUFFICES ASSUME ~raced'
               PROVE  /\ \A a, b \in Conn : pc'[a] \in Between /\ pc'[b] \in Between => a = b
                      /\ \A a \in Conn : pc'[a] \in Between => slice'[a] = knownNodes'
    BY DEF LoadIsCurrent
  <2>1. \A a \in Conn : pc'[a] \in Between => a = c
    BY <1>3, <1>6
  <2> QED
    BY <1>4, <1>5, <1>6, <1>8, <2>1
<1> QED
  BY <1>9, <1>10, <1>11 DEF KnownInv

LEMMA StoreBeginKeeps ==
  ASSUME KnownInv, NEW c \in Conn, StoreBegin(c)
  PROVE  KnownInv'
<1>1. "storing" \in Labels
  BY DEF Labels
<1>2. pc' \in [Conn -> Labels] /\ pc'[c] = "storing" /\ \A d \in Conn \ {c} : pc'[d] = pc[d]
  BY <1>1, GotoFacts DEF KnownInv, StoreBegin
<1>3. pc[c] = "store" /\ UNCHANGED <<knownNodes, expected, raced, sender, slice, crashed>>
  BY DEF StoreBegin, NoChange
<1>4. TypeOK'
  BY <1>2, <1>3 DEF KnownInv, TypeOK, Labels
<1>5. \A d \in Conn : pc'[d] \in Between <=> pc[d] \in Between
  BY <1>2, <1>3 DEF Between
<1>6. LoadIsCurrent'
  BY <1>3, <1>5 DEF KnownInv, LoadIsCurrent
<1>7. UnracedAsExpected'
  BY <1>3 DEF KnownInv, UnracedAsExpected
<1> QED
  BY <1>4, <1>6, <1>7 DEF KnownInv

\* The end of the only store: what it writes is the list with the sender added.
LEMMA StoreEndKeeps ==
  ASSUME KnownInv, NEW c \in Conn, StoreEnd(c)
  PROVE  KnownInv'
<1>1. pc[c] = "storing" /\ Changes(c, Append(slice[c], sender[c]), expected \cup {sender[c]})
  BY DEF StoreEnd
<1>2. slice[c] \in Seq(Node) /\ sender[c] \in Node /\ expected \subseteq Node
  BY DEF KnownInv, TypeOK
<1>3. /\ Append(slice[c], sender[c]) \in Seq(Node)
      /\ ToSet(Append(slice[c], sender[c])) = ToSet(slice[c]) \cup {sender[c]}
  BY <1>2, AppendAdds
<1>4. ~raced => ToSet(slice[c]) = expected
  BY <1>1 DEF KnownInv, LoadIsCurrent, UnracedAsExpected, Between
<1>5. ListKept(c)
  BY <1>1, <1>2, <1>3, <1>4, ChangeKeeps
<1>6. Goto(c, "checkAgain") /\ UNCHANGED <<sender, slice, crashed>>
  BY DEF StoreEnd
<1>7. "checkAgain" \in Labels \ Between
  BY DEF Labels, Between
<1>8. sender' \in [Conn -> Node] /\ crashed' \in BOOLEAN /\ slice' \in [Conn -> Seq(Node)]
  BY <1>6 DEF KnownInv, TypeOK
<1> QED
  BY <1>5, <1>6, <1>7, <1>8, ListStepKeeps

LEMMA LockedAppendKeeps ==
  ASSUME KnownInv, NEW c \in Conn, LockedAppend(c)
  PROVE  KnownInv'
<1>1. PICK list \in Seen : Changes(c, Append(list, sender[c]), expected \cup {sender[c]})
  BY DEF LockedAppend
<1>2. /\ list \in Seq(Node)
      /\ ~raced /\ (\A d \in Conn \ {c} : pc[d] \notin Between) => ToSet(list) = expected
  BY ReadsCurrent DEF LockedAppend, Between
<1>3. sender[c] \in Node /\ expected \subseteq Node
  BY DEF KnownInv, TypeOK
<1>4. /\ Append(list, sender[c]) \in Seq(Node)
      /\ ToSet(Append(list, sender[c])) = ToSet(list) \cup {sender[c]}
  BY <1>2, <1>3, AppendAdds
<1>5. ListKept(c)
  BY <1>1, <1>2, <1>3, <1>4, ChangeKeeps
<1>6. Goto(c, "done") /\ UNCHANGED <<sender, slice, crashed>>
  BY DEF LockedAppend
<1>7. "done" \in Labels \ Between
  BY DEF Labels, Between
<1>8. sender' \in [Conn -> Node] /\ crashed' \in BOOLEAN /\ slice' \in [Conn -> Seq(Node)]
  BY <1>6 DEF KnownInv, TypeOK
<1> QED
  BY <1>5, <1>6, <1>7, <1>8, ListStepKeeps

LEMMA RequestBlocksKeeps ==
  ASSUME KnownInv, NEW c \in Conn, RequestBlocks(c)
  PROVE  KnownInv'
<1>1. PICK list \in Seen : slice' = [slice EXCEPT ![c] = list]
  BY DEF RequestBlocks
<1>2. list \in Seq(Node)
  BY SeenFacts DEF KnownInv
<1>3. slice' \in [Conn -> Seq(Node)] /\ \A d \in Conn \ {c} : slice'[d] = slice[d]
  BY <1>1, <1>2 DEF KnownInv, TypeOK
<1>4. Goto(c, "asking") /\ NoChange /\ UNCHANGED <<sender, crashed>>
  BY DEF RequestBlocks
<1>5. "asking" \in Labels \ Between
  BY DEF Labels, Between
<1>6. sender' \in [Conn -> Node] /\ crashed' \in BOOLEAN
  BY <1>4 DEF KnownInv, TypeOK
<1> QED
  BY <1>3, <1>4, <1>5, <1>6, NoChangeKeeps, ListStepKeeps

LEMMA AskNextKeeps ==
  ASSUME KnownInv, NEW c \in Conn, AskNext(c)
  PROVE  KnownInv'
<1>1. /\ pc[c] = "asking" /\ slice[c] # <<>> /\ slice' = [slice EXCEPT ![c] = Tail(@)]
      /\ SendData(c, Head(slice[c]))
      /\ UNCHANGED <<pc, sender, crashed>>
  BY DEF AskNext
<1>2. slice[c] \in Seq(Node)
  BY DEF KnownInv, TypeOK
<1>3. Tail(slice[c]) \in Seq(Node)
  BY <1>1, <1>2
<1>4. slice' \in [Conn -> Seq(Node)] /\ \A d \in Conn \ {c} : slice'[d] = slice[d]
  BY <1>1, <1>3 DEF KnownInv, TypeOK
<1>5. "asking" \in Labels \ Between
  BY DEF Labels, Between
<1>6. ListKept(c)
  BY <1>1, <1>5, SendDataKeeps
<1>7. Goto(c, "asking")
  BY <1>1 DEF Goto, KnownInv, TypeOK
<1>8. sender' \in [Conn -> Node] /\ crashed' \in BOOLEAN
  BY <1>1 DEF KnownInv, TypeOK
<1> QED
  BY <1>4, <1>5, <1>6, <1>7, <1>8, ListStepKeeps

LEMMA StandsStill ==
  ASSUME KnownInv, NoChange, UNCHANGED <<pc, sender, slice>>, crashed' \in BOOLEAN
  PROVE  KnownInv'
<1> USE DEF NoChange
<1>1. TypeOK'
  BY DEF KnownInv, TypeOK
<1>2. LoadIsCurrent' /\ UnracedAsExpected'
  BY DEF KnownInv, LoadIsCurrent, UnracedAsExpected
<1> QED
  BY <1>1, <1>2 DEF KnownInv

LEMMA StepKeeps ==
  ASSUME KnownInv, NEW c \in Conn, Step(c)
  PROVE  KnownInv'
<1> USE DEF Labels, Between
<1>1. CASE Check(c)
  <2>1. PICK list \in Seen : Goto(c, IF Contains(list, sender[c]) THEN "checkAgain" ELSE "load")
    BY <1>1 DEF Check
  <2>2. PICK label \in {"checkAgain", "load"} : Goto(c, label)
    BY <2>1
  <2> QED
    BY <1>1, <2>2, ReadStepKeeps DEF Check
<1>2. CASE Load(c)
  BY <1>2, LoadKeeps
<1>3. CASE StoreBegin(c)
  BY <1>3, StoreBeginKeeps
<1>4. CASE StoreEnd(c)
  BY <1>4, StoreEndKeeps
<1>5. CASE CheckAgain(c)
  <2>1. PICK list \in Seen : Goto(c, IF Contains(list, sender[c]) THEN "done" ELSE "append")
    BY <1>5 DEF CheckAgain
  <2>2. PICK label \in {"done", "append"} : Goto(c, label)
    BY <2>1
  <2> QED
    BY <1>5, <2>2, ReadStepKeeps DEF CheckAgain
<1>6. CASE LockedAppend(c)
  BY <1>6, LockedAppendKeeps
<1>7. CASE RequestBlocks(c)
  BY <1>7, RequestBlocksKeeps
<1>8. CASE AskNext(c)
  BY <1>8, AskNextKeeps
<1>9. CASE AskDone(c)
  BY <1>9, ReadStepKeeps DEF AskDone
<1> QED
  BY <1>1, <1>2, <1>3, <1>4, <1>5, <1>6, <1>7, <1>8, <1>9 DEF Step

LEMMA KnownInvariant == Spec => []KnownInv
<1>1. KnownInv /\ [Next]_vars => KnownInv'
  <2> SUFFICES ASSUME KnownInv, [Next]_vars PROVE KnownInv'
    OBVIOUS
  <2>1. CASE UNCHANGED vars
    BY <2>1, StandsStill DEF vars, NoChange, KnownInv, TypeOK
  <2>2. CASE Next
    <3>1. PICK c \in Conn : \/ \E a \in Versions : Version(c, a)
                            \/ \E list \in AddrLists : Addr(c, list)
                            \/ Step(c)
                            \/ \E d \in Conn : Torn(c, d)
      BY <2>2 DEF Next
    <3>2. CASE \E d \in Conn : Torn(c, d)
      BY <3>2, StandsStill DEF Torn
    <3> QED
      BY <3>1, <3>2, VersionKeeps, AddrKeeps, StepKeeps
  <2> QED
    BY <2>1, <2>2
<1> QED
  BY InitInv, <1>1, PTL DEF Spec

-----------------------------------------------------------------------------
(* The theorems *)

\* The list, the slices that the goroutines hold and the set the list should be
\* never hold anything but addresses, whichever stores overlap.
THEOREM TypeCorrect == Spec => []TypeOK
BY KnownInvariant, PTL DEF KnownInv

\* handleVersion, handleAddr and sendData, of any number of connections, lose and
\* add no node as long as none changes the list between another's load and store.
THEOREM UnracedLosesNothing == Spec => []UnracedAsExpected
BY KnownInvariant, PTL DEF KnownInv
=============================================================================
