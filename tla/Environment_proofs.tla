------------------------- MODULE Environment_proofs -------------------------
(***************************************************************************)
(* Proofs about Environment, for any threads, directories and values of    *)
(* LD_LIBRARY_PATH: what overlapping read-modify-write steps, which may    *)
(* lose each other's updates, still keep.                                  *)
(***************************************************************************)
EXTENDS Environment, TLAPS

Value == Seq(Directory)

---------------------------------------------------------------------------
(* Sequences of directories *)

LEMMA PrependIsValue ==
  ASSUME NEW value \in Value, NEW dir \in Directory
  PROVE  /\ Prepend(dir, value) \in Value
         /\ Len(Prepend(dir, value)) = Len(value) + 1
         /\ Prepend(dir, value)[1] = dir
         /\ \A i \in 2 .. Len(value) + 1 : Prepend(dir, value)[i] = value[i - 1]
BY DEF Prepend, Value

LEMMA PrependRange ==
  ASSUME NEW value \in Value, NEW dir \in Directory
  PROVE  Range(Prepend(dir, value)) = {dir} \cup Range(value)
<1> DEFINE longer == Prepend(dir, value)
<1>1. DOMAIN longer = 1 .. Len(value) + 1 /\ DOMAIN value = 1 .. Len(value) /\ Len(value) \in Nat
  BY PrependIsValue DEF Value
<1>2. longer[1] = dir /\ \A i \in 2 .. Len(value) + 1 : longer[i] = value[i - 1]
  BY PrependIsValue
<1>3. ASSUME NEW x \in Range(longer) PROVE x \in {dir} \cup Range(value)
  <2>1. PICK i \in 1 .. Len(value) + 1 : longer[i] = x
    BY <1>1 DEF Range
  <2>2. CASE i = 1
    BY <1>2, <2>1, <2>2
  <2>3. CASE i # 1
    <3>1. i \in 2 .. Len(value) + 1 /\ i - 1 \in DOMAIN value
      BY <1>1, <2>3
    <3> QED BY <1>2, <2>1, <3>1 DEF Range
  <2> QED BY <2>2, <2>3
<1>4. dir \in Range(longer)
  <2>1. 1 \in DOMAIN longer
    BY <1>1
  <2> QED BY <1>2, <2>1 DEF Range
<1>5. ASSUME NEW x \in Range(value) PROVE x \in Range(longer)
  <2>1. PICK i \in 1 .. Len(value) : value[i] = x
    BY <1>1 DEF Range
  <2>2. i + 1 \in 2 .. Len(value) + 1 /\ i + 1 \in DOMAIN longer /\ (i + 1) - 1 = i
    BY <1>1
  <2>3. longer[i + 1] = x
    BY <1>2, <2>1, <2>2
  <2> QED BY <2>2, <2>3 DEF Range
<1> QED BY <1>3, <1>4, <1>5

LEMMA PrependInjective ==
  ASSUME NEW value \in Value, NEW dir \in Directory,
         IsInjective(value), ~ Has(value, dir)
  PROVE  IsInjective(Prepend(dir, value))
<1> DEFINE longer == Prepend(dir, value)
<1>1. DOMAIN longer = 1 .. Len(value) + 1 /\ DOMAIN value = 1 .. Len(value) /\ Len(value) \in Nat
  BY PrependIsValue DEF Value
<1>2. longer[1] = dir /\ \A i \in 2 .. Len(value) + 1 : longer[i] = value[i - 1]
  BY PrependIsValue
<1>3. \A i \in 2 .. Len(value) + 1 : longer[i] # dir
  <2> SUFFICES ASSUME NEW i \in 2 .. Len(value) + 1 PROVE value[i - 1] # dir
    BY <1>2
  <2>1. i - 1 \in DOMAIN value
    BY <1>1
  <2> QED BY <2>1 DEF Has, Range
<1>4. ASSUME NEW i \in DOMAIN longer, NEW k \in DOMAIN longer, longer[i] = longer[k]
      PROVE  i = k
  <2>1. CASE i = 1 \/ k = 1
    BY <1>1, <1>2, <1>3, <1>4, <2>1
  <2>2. CASE i # 1 /\ k # 1
    <3>1. i - 1 \in DOMAIN value /\ k - 1 \in DOMAIN value /\ value[i - 1] = value[k - 1]
      BY <1>1, <1>2, <1>4, <2>2
    <3>2. i - 1 = k - 1
      BY <3>1 DEF IsInjective
    <3> QED BY <1>1, <3>2
  <2> QED BY <2>1, <2>2
<1> QED BY <1>4 DEF IsInjective

\* What run makes of end: directories before it, none twice, and none of end's.
Grown(value, end) ==
  \E added \in Value :
    /\ value = added \o end
    /\ IsInjective(added)
    /\ Range(added) \cap Range(end) = {}

LEMMA GrownOfItself ==
  ASSUME NEW value \in Value
  PROVE  Grown(value, value)
<1>1. << >> \in Value /\ value = << >> \o value
  BY DEF Value
<1>2. IsInjective(<< >>) /\ Range(<< >>) = {}
  BY DEF IsInjective, Range
<1> QED BY <1>1, <1>2 DEF Grown

LEMMA RangeOfParts ==
  ASSUME NEW added \in Value, NEW end \in Value
  PROVE  Range(added) \cup Range(end) \subseteq Range(added \o end)
<1> DEFINE value == added \o end
<1>1. /\ Len(added) \in Nat /\ DOMAIN added = 1 .. Len(added)
      /\ Len(end) \in Nat /\ DOMAIN end = 1 .. Len(end)
      /\ DOMAIN value = 1 .. Len(added) + Len(end)
      /\ \A i \in 1 .. Len(added) : value[i] = added[i]
      /\ \A i \in 1 .. Len(end) : value[Len(added) + i] = end[i]
  BY DEF Value
<1> HIDE DEF value
<1>2. ASSUME NEW x \in Range(added) PROVE x \in Range(value)
  <2>1. PICK i \in 1 .. Len(added) : added[i] = x
    BY <1>1 DEF Range
  <2>2. i \in DOMAIN value /\ value[i] = x
    BY <1>1, <2>1
  <2> QED BY <2>2 DEF Range
<1>3. ASSUME NEW x \in Range(end) PROVE x \in Range(value)
  <2>1. PICK i \in 1 .. Len(end) : end[i] = x
    BY <1>1 DEF Range
  <2>2. Len(added) + i \in DOMAIN value /\ value[Len(added) + i] = x
    BY <1>1, <2>1
  <2> QED BY <2>2 DEF Range
<1> QED BY <1>2, <1>3 DEF value

LEMMA PrependGrows ==
  ASSUME NEW end \in Value, NEW value \in Value, NEW dir \in Directory,
         Grown(value, end), ~ Has(value, dir)
  PROVE  Grown(Prepend(dir, value), end)
<1>1. PICK added \in Value : /\ value = added \o end
                             /\ IsInjective(added)
                             /\ Range(added) \cap Range(end) = {}
  BY DEF Grown
<1> DEFINE more == Prepend(dir, added)
<1>2. dir \notin Range(added) /\ dir \notin Range(end)
  BY <1>1, RangeOfParts DEF Has
<1>3. more \in Value /\ IsInjective(more)
  BY <1>1, <1>2, PrependIsValue, PrependInjective DEF Has
<1>4. Range(more) = {dir} \cup Range(added)
  BY PrependRange
<1>5. Prepend(dir, value) = more \o end
  BY <1>1 DEF Prepend, Value
<1> HIDE DEF more
<1> QED BY <1>1, <1>2, <1>3, <1>4, <1>5 DEF Grown

LEMMA GrownParts ==
  ASSUME NEW end \in Value, NEW value \in Value, Grown(value, end)
  PROVE  LET added == SubSeq(value, 1, Len(value) - Len(end))
         IN  IsInjective(added) /\ Range(added) \cap Range(end) = {}
<1>1. PICK added \in Value : /\ value = added \o end
                             /\ IsInjective(added)
                             /\ Range(added) \cap Range(end) = {}
  BY DEF Grown
<1>2. /\ Len(added) \in Nat /\ Len(end) \in Nat
      /\ Len(value) = Len(added) + Len(end)
      /\ added = [i \in 1 .. Len(added) |-> added[i]]
      /\ \A i \in 1 .. Len(added) : value[i] = added[i]
  BY <1>1 DEF Value
<1>3. Len(value) - Len(end) = Len(added)
  BY <1>2
<1>4. SubSeq(value, 1, Len(added)) = added
  <2>1. SubSeq(value, 1, Len(added)) = [i \in 1 .. Len(added) |-> value[i]]
    BY <1>2 DEF Value
  <2> QED BY <1>2, <2>1
<1> QED BY <1>1, <1>3, <1>4

LEMMA ReverseFacts ==
  ASSUME NEW value \in Value
  PROVE  /\ Reverse(value) \in Value
         /\ Len(Reverse(value)) = Len(value)
         /\ \A i \in 1 .. Len(value) : Reverse(value)[i] = value[Len(value) - i + 1]
<1>1. Len(value) \in Nat /\ \A i \in 1 .. Len(value) : value[i] \in Directory
  BY DEF Value
<1>2. \A i \in 1 .. Len(value) : Len(value) - i + 1 \in 1 .. Len(value)
  BY <1>1
<1>3. Reverse(value) = [i \in 1 .. Len(value) |-> value[Len(value) - i + 1]]
  BY <1>1 DEF Reverse
<1> QED BY <1>1, <1>2, <1>3 DEF Value

LEMMA SuffixOfItself ==
  ASSUME NEW value \in Value
  PROVE  IsSuffix(value, value)
<1>1. Len(Reverse(value)) \in Nat
  BY ReverseFacts DEF Value
<1> QED BY <1>1 DEF IsSuffix, IsPrefix

LEMMA SuffixOfLonger ==
  ASSUME NEW end \in Value, NEW value \in Value, NEW dir \in Directory,
         IsSuffix(end, value)
  PROVE  IsSuffix(end, Prepend(dir, value))
<1> DEFINE longer == Prepend(dir, value)
<1>1. longer \in Value /\ Len(longer) = Len(value) + 1 /\ Len(value) \in Nat /\ Len(end) \in Nat
  <2>1. longer \in Value /\ Len(longer) = Len(value) + 1
    BY PrependIsValue
  <2>2. Len(value) \in Nat /\ Len(end) \in Nat
    BY DEF Value
  <2> QED BY <2>1, <2>2
<1> HIDE DEF longer
<1>2. /\ Reverse(end) \in Value /\ Reverse(value) \in Value /\ Reverse(longer) \in Value
      /\ Len(Reverse(end)) = Len(end) /\ Len(Reverse(value)) = Len(value)
      /\ Len(Reverse(longer)) = Len(value) + 1
  BY <1>1, ReverseFacts
<1>3. /\ Len(end) <= Len(value)
      /\ SubSeq(Reverse(end), 1, Len(end)) = SubSeq(Reverse(value), 1, Len(end))
  BY <1>2 DEF IsSuffix, IsPrefix
<1>4. \A i \in 1 .. Len(value) : Reverse(longer)[i] = Reverse(value)[i]
  <2> SUFFICES ASSUME NEW i \in 1 .. Len(value)
               PROVE  Reverse(longer)[i] = Reverse(value)[i]
    OBVIOUS
  <2>1. Reverse(longer)[i] = longer[Len(value) + 1 - i + 1] /\ i \in 1 .. Len(longer)
    BY <1>1, ReverseFacts
  <2>2. Len(value) + 1 - i + 1 \in 2 .. Len(value) + 1
    BY <1>1
  <2>3. longer[Len(value) + 1 - i + 1] = value[Len(value) + 1 - i + 1 - 1]
    BY <2>2, PrependIsValue DEF longer
  <2>4. Len(value) + 1 - i + 1 - 1 = Len(value) - i + 1
    BY <1>1
  <2>5. Reverse(value)[i] = value[Len(value) - i + 1]
    BY ReverseFacts
  <2> QED BY <2>1, <2>3, <2>4, <2>5
<1>5. SubSeq(Reverse(longer), 1, Len(end)) = SubSeq(Reverse(value), 1, Len(end))
  <2> DEFINE a == Reverse(longer) b == Reverse(value)
  <2>1. \A i \in 1 .. Len(end) : a[i] = b[i]
    BY <1>1, <1>3, <1>4
  <2>2. SubSeq(a, 1, Len(end)) = [i \in 1 .. Len(end) |-> a[i]]
    BY <1>1, <1>2, <1>3 DEF Value
  <2>3. SubSeq(b, 1, Len(end)) = [i \in 1 .. Len(end) |-> b[i]]
    BY <1>1, <1>2, <1>3 DEF Value
  <2> QED BY <2>1, <2>2, <2>3
<1> QED BY <1>1, <1>2, <1>3, <1>5 DEF IsSuffix, IsPrefix, longer

---------------------------------------------------------------------------
(* The inductive invariant *)

ReadIt(t) == current[t] # Unread

Typed ==
  /\ LD_LIBRARY_PATH \in Value
  /\ next \in [Thread -> Nat]
  /\ current \in [Thread -> Value \cup {Unread}]
  /\ configured \in Place \cup {"none"}
  /\ found \in [Thread -> Place \cup {"none"}]
  /\ \A t \in Thread : ReadIt(t) => Completing(t)
  /\ \A t \in Thread : found[t] # "none" => Completed(t)

\* Nobody holds, and so nobody writes, a value to which a directory was added
\* that it had.
EachDirOnce ==
  /\ inherited \in Value
  /\ Grown(LD_LIBRARY_PATH, inherited)
  /\ \A t \in Thread : ReadIt(t) => Grown(current[t], inherited)

\* What a thread alone has read is current, and what it has done is kept.
AloneSoFar ==
  \A t \in Thread : t \notin overlapped /\ Completing(t) =>
    /\ \A u \in Thread \ {t} : ~ Completing(u)
    /\ ReadIt(t) => current[t] = LD_LIBRARY_PATH
    /\ \A i \in 1 .. next[t] - 1 : Dirs[i] \in Range(LD_LIBRARY_PATH)

\* Whoever writes after a thread that was alone writes what has the directories.
AloneToTheEnd ==
  \A t \in Thread : t \notin overlapped /\ Completed(t) =>
    /\ Range(Dirs) \subseteq Range(LD_LIBRARY_PATH)
    /\ \A u \in Thread : ReadIt(u) => Range(Dirs) \subseteq Range(current[u])

PathInv == Typed /\ EachDirOnce /\ AloneSoFar /\ AloneToTheEnd

LEMMA DirsFacts ==
  /\ Len(Dirs) \in Nat
  /\ DOMAIN Dirs = 1 .. Len(Dirs)
  /\ \A i \in 1 .. Len(Dirs) : Dirs[i] \in Directory
BY EnvironmentAssumption

LEMMA InitPath == Init => PathInv
<1> SUFFICES ASSUME Init PROVE PathInv
  OBVIOUS
<1>1. \A t \in Thread : next[t] = 0 /\ ~ Completing(t) /\ ~ Completed(t) /\ ~ ReadIt(t)
  BY DirsFacts DEF Init, Completing, Completed, ReadIt
<1>2. Typed
  <2>1. LD_LIBRARY_PATH \in Value
    BY EnvironmentAssumption DEF Init, Value
  <2>2. configured \in Place \cup {"none"} /\ found = [t \in Thread |-> "none"]
    BY EnvironmentAssumption DEF Init
  <2> QED BY <1>1, <2>1, <2>2 DEF Init, Typed
<1>3. EachDirOnce
  <2>1. inherited \in Value /\ LD_LIBRARY_PATH = inherited
    BY EnvironmentAssumption DEF Init, Value
  <2> QED BY <1>1, <2>1, GrownOfItself DEF EachDirOnce
<1>4. AloneSoFar /\ AloneToTheEnd
  BY <1>1 DEF AloneSoFar, AloneToTheEnd
<1> QED BY <1>2, <1>3, <1>4 DEF PathInv

LEMMA BeginKeepsPath ==
  ASSUME PathInv, NEW t \in Thread, Begin(t)
  PROVE  PathInv'
<1> USE DEF PathInv
<1>1. /\ next[t] = 0 /\ next' = [next EXCEPT ![t] = 1]
      /\ LD_LIBRARY_PATH' = LD_LIBRARY_PATH /\ current' = current
      /\ found' = found /\ configured' = configured /\ inherited' = inherited
  BY DEF Begin, fileVars
<1>2. \A u \in Thread \ {t} : next'[u] = next[u]
  BY <1>1 DEF Typed
<1>3. next'[t] = 1 /\ ~ Completing(t) /\ ~ ReadIt(t)
  BY <1>1 DEF Typed, Completing
<1>4. \A u \in Thread \ {t} : Completing(u)' <=> Completing(u)
  BY <1>2 DEF Completing
<1>5. \A u \in Thread : ReadIt(u)' <=> ReadIt(u)
  BY <1>1 DEF ReadIt
<1>6. Typed'
  <2>1. next' \in [Thread -> Nat]
    BY <1>1 DEF Typed
  <2>2. \A u \in Thread : ReadIt(u)' => Completing(u)'
    BY <1>3, <1>4, <1>5 DEF Typed
  <2>3. \A u \in Thread : found'[u] # "none" => Completed(u)'
    BY <1>1, <1>2, DirsFacts DEF Typed, Completed
  <2> QED BY <1>1, <2>1, <2>2, <2>3 DEF Typed
<1>7. EachDirOnce'
  BY <1>1, <1>5 DEF EachDirOnce
<1>8. AloneSoFar'
  <2> SUFFICES ASSUME NEW u \in Thread, u \notin overlapped', Completing(u)'
               PROVE  /\ \A v \in Thread \ {u} : ~ Completing(v)'
                      /\ ReadIt(u)' => current'[u] = LD_LIBRARY_PATH'
                      /\ \A i \in 1 .. next'[u] - 1 : Dirs[i] \in Range(LD_LIBRARY_PATH')
    BY DEF AloneSoFar
  <2>1. u = t /\ \A v \in Thread \ {t} : ~ Completing(v)
    BY <1>4 DEF Begin
  <2>2. 1 .. next'[u] - 1 = {}
    BY <1>3, <2>1
  <2> QED BY <1>3, <1>4, <1>5, <2>1, <2>2
<1>9. AloneToTheEnd'
  <2> SUFFICES ASSUME NEW u \in Thread, u \notin overlapped', Completed(u)'
               PROVE  /\ Range(Dirs) \subseteq Range(LD_LIBRARY_PATH')
                      /\ \A v \in Thread : ReadIt(v)' => Range(Dirs) \subseteq Range(current'[v])
    BY DEF AloneToTheEnd
  <2>1. CASE u = t
    <3>1. Len(Dirs) = 0
      BY <1>3, <2>1, DirsFacts DEF Completed
    <3>2. Range(Dirs) = {}
      BY <3>1, DirsFacts DEF Range
    <3> QED BY <3>2
  <2>2. CASE u # t
    <3>1. u \notin overlapped /\ Completed(u)
      BY <1>2, <2>2 DEF Begin, Completed
    <3> QED BY <1>1, <1>5, <3>1 DEF AloneToTheEnd
  <2> QED BY <2>1, <2>2
<1> QED BY <1>6, <1>7, <1>8, <1>9

LEMMA ReadKeepsPath ==
  ASSUME PathInv, NEW t \in Thread, Read(t)
  PROVE  PathInv'
<1> USE DEF PathInv
<1>1. /\ Completing(t) /\ current' = [current EXCEPT ![t] = LD_LIBRARY_PATH]
      /\ LD_LIBRARY_PATH' = LD_LIBRARY_PATH /\ next' = next /\ overlapped' = overlapped
      /\ found' = found /\ configured' = configured /\ inherited' = inherited
  BY DEF Read, GetEnvString, fileVars
<1>2. current'[t] = LD_LIBRARY_PATH /\ \A u \in Thread \ {t} : current'[u] = current[u]
  BY <1>1 DEF Typed
<1>3. \A u \in Thread : (Completing(u)' <=> Completing(u)) /\ (Completed(u)' <=> Completed(u))
  BY <1>1 DEF Completing, Completed
<1>4. \A u \in Thread \ {t} : ReadIt(u)' <=> ReadIt(u)
  BY <1>2 DEF ReadIt
<1>5. Typed'
  BY <1>1, <1>3, <1>4 DEF Typed
<1>6. EachDirOnce'
  BY <1>1, <1>2, <1>4 DEF EachDirOnce
<1>7. AloneSoFar'
  BY <1>1, <1>2, <1>3, <1>4 DEF AloneSoFar
<1>8. AloneToTheEnd'
  BY <1>1, <1>2, <1>3, <1>4 DEF AloneToTheEnd
<1> QED BY <1>5, <1>6, <1>7, <1>8

LEMMA WriteKeepsPath ==
  ASSUME PathInv, NEW t \in Thread, Write(t)
  PROVE  PathInv'
<1> USE DEF PathInv
<1> DEFINE dir == Dirs[next[t]]
<1>1. /\ Completing(t) /\ ReadIt(t) /\ overlapped' = overlapped
      /\ next' = [next EXCEPT ![t] = @ + 1]
      /\ current' = [current EXCEPT ![t] = Unread]
      /\ LD_LIBRARY_PATH' =
           IF Has(current[t], dir) THEN LD_LIBRARY_PATH ELSE Prepend(dir, current[t])
      /\ found' = found /\ configured' = configured /\ inherited' = inherited
  BY DEF Write, ReadIt, fileVars
<1>2. next[t] \in 1 .. Len(Dirs) /\ dir \in Directory /\ dir \in Range(Dirs)
  BY <1>1, DirsFacts DEF Completing, Range
<1>3. current[t] \in Value
  BY <1>1 DEF Typed, ReadIt
<1>4. /\ next'[t] = next[t] + 1 /\ \A u \in Thread \ {t} : next'[u] = next[u]
      /\ current'[t] = Unread /\ \A u \in Thread \ {t} : current'[u] = current[u]
  BY <1>1 DEF Typed
<1>5. ~ ReadIt(t)' /\ \A u \in Thread \ {t} : ReadIt(u)' <=> ReadIt(u)
  BY <1>4 DEF ReadIt
<1>6. \A u \in Thread \ {t} :
        (Completing(u)' <=> Completing(u)) /\ (Completed(u)' <=> Completed(u))
  BY <1>4 DEF Completing, Completed
<1>7. Typed'
  <2>1. LD_LIBRARY_PATH' \in Value
    BY <1>1, <1>2, <1>3, PrependIsValue DEF Typed
  <2>2. next' \in [Thread -> Nat]
    BY <1>1 DEF Typed
  <2>3. \A u \in Thread : ReadIt(u)' => Completing(u)'
    BY <1>5, <1>6 DEF Typed
  <2>4. \A u \in Thread : found'[u] # "none" => Completed(u)'
    BY <1>1, <1>2, <1>4, <1>6 DEF Typed, Completed
  <2> QED BY <1>1, <2>1, <2>2, <2>3, <2>4 DEF Typed
<1>8. EachDirOnce'
  <2>1. /\ inherited \in Value
        /\ Grown(current[t], inherited) /\ Grown(LD_LIBRARY_PATH, inherited)
    BY <1>1 DEF EachDirOnce
  <2>2. ~ Has(current[t], dir) => Grown(Prepend(dir, current[t]), inherited)
    BY <1>2, <1>3, <2>1, PrependGrows
  <2>3. Grown(LD_LIBRARY_PATH', inherited)
    BY <1>1, <2>1, <2>2
  <2>4. \A u \in Thread : ReadIt(u)' => Grown(current'[u], inherited)
    BY <1>4, <1>5 DEF EachDirOnce
  <2> QED BY <1>1, <2>1, <2>3, <2>4 DEF EachDirOnce
\* The thread that writes was alone: it loses nothing, and the directory is there.
<1>9. ASSUME t \notin overlapped
      PROVE  /\ \A u \in Thread \ {t} : ~ Completing(u)
             /\ \A i \in 1 .. next'[t] - 1 : Dirs[i] \in Range(LD_LIBRARY_PATH')
  <2>1. /\ \A u \in Thread \ {t} : ~ Completing(u)
        /\ current[t] = LD_LIBRARY_PATH
        /\ \A i \in 1 .. next[t] - 1 : Dirs[i] \in Range(LD_LIBRARY_PATH)
    BY <1>1, <1>9 DEF AloneSoFar
  <2>2. CASE Has(current[t], dir)
    BY <1>1, <1>2, <1>4, <2>1, <2>2 DEF Has
  <2>3. CASE ~ Has(current[t], dir)
    <3>1. Range(LD_LIBRARY_PATH') = {dir} \cup Range(LD_LIBRARY_PATH)
      BY <1>1, <1>2, <1>3, <2>1, <2>3, PrependRange
    <3> QED BY <1>2, <1>4, <2>1, <3>1
  <2> QED BY <2>1, <2>2, <2>3
<1>10. AloneSoFar'
  <2> SUFFICES ASSUME NEW u \in Thread, u \notin overlapped, Completing(u)'
               PROVE  /\ \A v \in Thread \ {u} : ~ Completing(v)'
                      /\ ReadIt(u)' => current'[u] = LD_LIBRARY_PATH'
                      /\ \A i \in 1 .. next'[u] - 1 : Dirs[i] \in Range(LD_LIBRARY_PATH')
    BY <1>1 DEF AloneSoFar
  <2>1. CASE u = t
    BY <1>5, <1>6, <1>9, <2>1
  <2>2. CASE u # t
    BY <1>1, <1>6, <2>2 DEF AloneSoFar
  <2> QED BY <2>1, <2>2
<1>11. AloneToTheEnd'
  <2> SUFFICES ASSUME NEW u \in Thread, u \notin overlapped, Completed(u)'
               PROVE  /\ Range(Dirs) \subseteq Range(LD_LIBRARY_PATH')
                      /\ \A v \in Thread : ReadIt(v)' => Range(Dirs) \subseteq Range(current'[v])
    BY <1>1 DEF AloneToTheEnd
  <2>1. CASE u = t
    <3>1. next'[t] - 1 = Len(Dirs)
      BY <1>2, <1>4, <2>1, DirsFacts DEF Completed
    <3>2. Range(Dirs) \subseteq Range(LD_LIBRARY_PATH')
      BY <1>9, <2>1, <3>1, DirsFacts DEF Range
    <3>3. \A v \in Thread : ~ ReadIt(v)'
      BY <1>5, <1>9, <2>1 DEF Typed
    <3> QED BY <3>2, <3>3
  <2>2. CASE u # t
    <3>1. Completed(u)
      BY <1>6, <2>2
    <3>2. /\ Range(Dirs) \subseteq Range(LD_LIBRARY_PATH)
          /\ \A v \in Thread : ReadIt(v) => Range(Dirs) \subseteq Range(current[v])
      BY <3>1 DEF AloneToTheEnd
    <3>3. Has(current[t], dir)
      BY <1>1, <1>2, <3>2 DEF Has
    <3>4. LD_LIBRARY_PATH' = LD_LIBRARY_PATH
      BY <1>1, <3>3
    <3> QED BY <1>4, <1>5, <3>2, <3>4
  <2> QED BY <2>1, <2>2
<1> QED BY <1>7, <1>8, <1>10, <1>11

LEMMA ResolveIsPlace ==
  ASSUME Typed
  PROVE  Resolve \in Place
<1> DEFINE here == {i \in 1 .. 3 : Exists(Places[i])}
<1>1. \A i \in 1 .. 4 : Places[i] \in Place
  BY DEF Place, Places, Range
<1>2. "home" \in Place /\ "cwd" \in Place
  <2>1. Places[4] = "home" /\ Places[3] = "cwd"
    BY DEF Places
  <2> QED BY <1>1, <2>1
<1>3. ASSUME here # {}
      PROVE  Places[CHOOSE i \in here : \A k \in here : i <= k] \in Place
  <2>1. \E i \in here : \A k \in here : i <= k
    <3>1. CASE 1 \in here
      BY <3>1
    <3>2. CASE 1 \notin here /\ 2 \in here
      BY <3>2
    <3>3. CASE 1 \notin here /\ 2 \notin here
      BY <1>3, <3>3
    <3> QED BY <3>1, <3>2, <3>3
  <2> DEFINE first == CHOOSE i \in here : \A k \in here : i <= k
  <2>2. first \in here
    BY <2>1
  <2>3. first \in 1 .. 4
    BY <2>2
  <2> HIDE DEF first, here
  <2>4. Places[first] \in Place
    BY <1>1, <2>3
  <2> QED BY <2>4 DEF first
<1> QED BY <1>2, <1>3 DEF Resolve, Typed

LEMMA LoadKeepsPath ==
  ASSUME PathInv, NEW t \in Thread, Load(t)
  PROVE  PathInv'
<1> USE DEF PathInv
<1>1. /\ Completed(t) /\ found' = [found EXCEPT ![t] = Resolve] /\ overlapped' = overlapped
      /\ LD_LIBRARY_PATH' = LD_LIBRARY_PATH /\ current' = current /\ next' = next
      /\ configured' = configured /\ inherited' = inherited
  BY DEF Load, libraryVars
<1>2. Resolve \in Place
  BY ResolveIsPlace
<1>3. \A u \in Thread : /\ Completing(u)' <=> Completing(u)
                        /\ Completed(u)' <=> Completed(u)
                        /\ ReadIt(u)' <=> ReadIt(u)
  BY <1>1 DEF Completing, Completed, ReadIt
<1>4. Typed'
  <2>1. found' \in [Thread -> Place \cup {"none"}]
    BY <1>1, <1>2 DEF Typed
  <2>2. \A u \in Thread : found'[u] # "none" => Completed(u)'
    BY <1>1, <1>3 DEF Typed
  <2> QED BY <1>1, <1>3, <2>1, <2>2 DEF Typed
<1>5. EachDirOnce' /\ AloneSoFar' /\ AloneToTheEnd'
  BY <1>1, <1>3 DEF EachDirOnce, AloneSoFar, AloneToTheEnd
<1> QED BY <1>4, <1>5

LEMMA RunAgainKeepsPath ==
  ASSUME PathInv, NEW t \in Thread, RunAgain(t)
  PROVE  PathInv'
<1> USE DEF PathInv
<1>1. /\ next' = [next EXCEPT ![t] = 0] /\ overlapped' = overlapped
      /\ LD_LIBRARY_PATH' = LD_LIBRARY_PATH /\ current' = current
      /\ found' = [found EXCEPT ![t] = "none"] /\ configured' = configured
      /\ inherited' = inherited
  BY DEF RunAgain
<1>2. next'[t] = 0 /\ \A u \in Thread \ {t} : next'[u] = next[u]
  BY <1>1 DEF Typed
<1>3. ~ Completing(t)' /\ ~ Completed(t)'
  BY <1>2, DirsFacts DEF Completing, Completed
<1>4. \A u \in Thread \ {t} :
        (Completing(u)' <=> Completing(u)) /\ (Completed(u)' <=> Completed(u))
  BY <1>2 DEF Completing, Completed
<1>5. \A u \in Thread : ReadIt(u)' <=> ReadIt(u)
  BY <1>1 DEF ReadIt
<1>6. ~ ReadIt(t)
  <2>1. Completed(t)
    BY DEF RunAgain, Typed
  <2>2. ~ Completing(t)
    BY <2>1, DirsFacts DEF Completed, Completing
  <2> QED BY <2>2 DEF Typed
<1>7. Typed'
  <2>1. next' \in [Thread -> Nat] /\ found' \in [Thread -> Place \cup {"none"}]
    BY <1>1 DEF Typed
  <2>2. \A u \in Thread : ReadIt(u)' => Completing(u)'
    BY <1>4, <1>5, <1>6 DEF Typed
  <2>3. \A u \in Thread : found'[u] # "none" => Completed(u)'
    BY <1>1, <1>4 DEF Typed
  <2> QED BY <1>1, <2>1, <2>2, <2>3 DEF Typed
<1>8. EachDirOnce'
  BY <1>1, <1>5 DEF EachDirOnce
<1>9. AloneSoFar' /\ AloneToTheEnd'
  BY <1>1, <1>2, <1>3, <1>4, <1>5 DEF AloneSoFar, AloneToTheEnd
<1> QED BY <1>7, <1>8, <1>9

---------------------------------------------------------------------------
(* The theorems *)

THEOREM PathInvariant == Spec => []PathInv
<1>1. ASSUME PathInv, [Next]_vars
      PROVE  PathInv'
  <2>1. ASSUME NEW t \in Thread, ThreadStep(t) \/ RunAgain(t) PROVE PathInv'
    BY <1>1, <2>1, BeginKeepsPath, ReadKeepsPath, WriteKeepsPath, LoadKeepsPath,
       RunAgainKeepsPath DEF ThreadStep
  <2>2. CASE UNCHANGED <<libraryVars, found, configured>>
    BY <1>1, <2>2 DEF PathInv, Typed, EachDirOnce, AloneSoFar, AloneToTheEnd, ReadIt,
       Completing, Completed, libraryVars
  <2>3. CASE Register \/ \E p \in Place : Appear(p)
    BY <2>2, <2>3 DEF Register, Appear
  <2>4. CASE UNCHANGED vars
    BY <2>2, <2>4 DEF vars, fileVars
  <2> QED BY <1>1, <2>1, <2>3, <2>4 DEF Next
<1> QED BY <1>1, InitPath, PTL DEF Spec

(***************************************************************************)
(* However any number of runs overlap, and whatever updates they lose,     *)
(* they add no directory to LD_LIBRARY_PATH twice, and none that was there.*)
(***************************************************************************)
THEOREM NoDirTwiceHolds == Spec => []NoDirTwice
<1>1. PathInv => NoDirTwice
  BY GrownParts DEF PathInv, Typed, EachDirOnce, NoDirTwice, Added
<1> QED BY <1>1, PathInvariant, PTL

(***************************************************************************)
(* A run that was alone while it completed LD_LIBRARY_PATH has all of the  *)
(* directories from then on: whatever is written later is made from a      *)
(* value that has them.                                                    *)
(***************************************************************************)
THEOREM CompleteWhenAloneHolds == Spec => []CompleteWhenAlone
<1>1. PathInv => CompleteWhenAlone
  BY DEF PathInv, AloneToTheEnd, CompleteWhenAlone
<1> QED BY <1>1, PathInvariant, PTL

\* What a thread has read, and so what it writes, ends with what the user had set.
Kept ==
  /\ inherited \in Value
  /\ IsSuffix(inherited, LD_LIBRARY_PATH)
  /\ \A t \in Thread : ReadIt(t) => IsSuffix(inherited, current[t])

(***************************************************************************)
(* What the user had set in LD_LIBRARY_PATH is never lost or reordered.    *)
(***************************************************************************)
THEOREM InheritedKeptHolds == Spec => []InheritedKept
<1>1. Init => Kept
  <2> SUFFICES ASSUME Init PROVE Kept
    OBVIOUS
  <2>1. inherited \in Value /\ inherited = LD_LIBRARY_PATH
    BY EnvironmentAssumption DEF Init, Value
  <2>2. \A t \in Thread : ~ ReadIt(t)
    BY DEF Init, ReadIt
  <2> QED BY <2>1, <2>2, SuffixOfItself DEF Kept
<1>2. ASSUME PathInv, Kept, [Next]_vars
      PROVE  Kept'
  <2>1. CASE UNCHANGED <<LD_LIBRARY_PATH, current, inherited>>
    BY <1>2, <2>1 DEF Kept, ReadIt
  <2>2. ASSUME NEW t \in Thread, Read(t) PROVE Kept'
    <3>1. /\ current' = [current EXCEPT ![t] = LD_LIBRARY_PATH]
          /\ UNCHANGED <<LD_LIBRARY_PATH, inherited>>
      BY <2>2 DEF Read, GetEnvString
    <3>2. current'[t] = LD_LIBRARY_PATH /\ \A u \in Thread \ {t} : current'[u] = current[u]
      BY <1>2, <3>1 DEF PathInv, Typed
    <3> QED BY <1>2, <3>1, <3>2 DEF Kept, ReadIt
  <2>3. ASSUME NEW t \in Thread, Write(t) PROVE Kept'
    <3> DEFINE dir == Dirs[next[t]]
    <3>1. /\ Completing(t) /\ ReadIt(t) /\ inherited' = inherited
          /\ current' = [current EXCEPT ![t] = Unread]
          /\ LD_LIBRARY_PATH' =
               IF Has(current[t], dir) THEN LD_LIBRARY_PATH ELSE Prepend(dir, current[t])
      BY <2>3 DEF Write, ReadIt
    <3>2. dir \in Directory /\ current[t] \in Value
      BY <1>2, <3>1, DirsFacts DEF PathInv, Typed, Completing, ReadIt
    <3>3. IsSuffix(inherited, LD_LIBRARY_PATH')
      BY <1>2, <3>1, <3>2, SuffixOfLonger DEF Kept
    <3>4. current'[t] = Unread /\ \A u \in Thread \ {t} : current'[u] = current[u]
      BY <1>2, <3>1 DEF PathInv, Typed
    <3> QED BY <1>2, <3>1, <3>3, <3>4 DEF Kept, ReadIt
  <2>4. ASSUME NEW t \in Thread, Begin(t) \/ Load(t) \/ RunAgain(t) PROVE Kept'
    BY <2>1, <2>4 DEF Begin, Load, RunAgain, libraryVars
  <2>5. CASE Register \/ \E p \in Place : Appear(p)
    BY <2>1, <2>5 DEF Register, Appear, libraryVars
  <2>6. CASE UNCHANGED vars
    BY <2>1, <2>6 DEF vars, libraryVars
  <2> QED BY <1>2, <2>2, <2>3, <2>4, <2>5, <2>6 DEF Next, ThreadStep
<1>3. Kept => InheritedKept
  BY DEF Kept, InheritedKept
<1> QED BY <1>1, <1>2, <1>3, PathInvariant, PTL DEF Spec
=============================================================================
