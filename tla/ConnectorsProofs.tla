------------------------- MODULE ConnectorsProofs -------------------------
(***************************************************************************)
(* The file of connectors stays sound, a quiet home's three copies agree,   *)
(* and no command takes away what it did not mean to, for any number of     *)
(* processes, any names and attributes and any commands.                    *)
(*                                                                         *)
(* What a merge keeps is a fact about a recursion over the connectors given *)
(* to it.  It is proved by induction on the positions of that sequence: the *)
(* set of the naturals for which the fact holds has 0 and every successor.  *)
(***************************************************************************)
EXTENDS Connectors, FiniteSetTheorems, WellFoundedInduction, TLAPS

-----------------------------------------------------------------------------
(* The invariant *)

Lists == UNION {[S -> Credential] : S \in SUBSET Names}
Rows == UNION {[S -> [cred : Credential, tools : BOOLEAN]] : S \in SUBSET Names}

\* TypeOK, of the lists as elements of one set.
Typed ==
    /\ config.state \in {"absent", "empty", "mixed", "whole"} /\ config.list \in Lists
    /\ table \in Rows
    /\ pyi \subseteq Attrs /\ ctx \subseteq Attrs
    /\ \A p \in Procs : at[p].pc \in Place /\ at[p].list \in Lists
    /\ held \in Lists

\* A process, wherever it is.
Process == [pc : Place, kind : Kind, entries : Seq(Entry), list : Lists,
            up : SUBSET Attrs, shared : BOOLEAN]

AllTyped == Typed /\ at \in [Procs -> Process] /\ settled \in BOOLEAN

\* What an entry, or a list, has of literals is where somebody gave it.
Brings(e) == \A x \in Slots : e.cred[x] = "literal" => BroughtIn(e.name, x)

SecretsOf(list) ==
    \A n \in DOMAIN list, x \in Slots : list[n][x] = "literal" => BroughtIn(n, x)

FileSecrets == SecretsOf(config.list)

\* The same holds of the lists in memory and of what is about to be merged.
SecretsAreSources ==
    \A p \in Procs :
        /\ SecretsOf(at[p].list)
        /\ at[p].pc = "planned" => at[p].kind = "chat"
        /\ at[p].pc \in {"begun", "planned"} =>
              /\ at[p].kind \in {"init", "add", "import", "chat"} =>
                    \A i \in DOMAIN at[p].entries : Brings(at[p].entries[i])
              /\ at[p].kind = "remove" => at[p].entries # <<>>

\* Of two commands under way each has company: one that has none is alone.
CompanyIsKnown ==
    \A p, q \in Active : p # q => at[p].shared

\* What the file held last is what it holds, unless somebody is at it.
FileIsHeld ==
    /\ config.state = "whole" => config.list = held
    /\ config.state = "absent" => held = <<>>
    /\ \A p \in Active : at[p].kind = "sync" => config.state # "absent"

Touched(p) == {at[p].entries[i].name : i \in DOMAIN at[p].entries}

OnlyPlaceholders(entries, n, x) ==
    \A i \in DOMAIN entries : entries[i].name = n => entries[i].cred[x] = "generated"

\* new keeps of old what entries do not name, and the headers that work where
\* entries have only placeholders.
Keeps(old, new, entries) ==
    \A n \in DOMAIN old :
        /\ n \notin {entries[i].name : i \in DOMAIN entries} =>
              n \in DOMAIN new /\ new[n] = old[n]
        /\ \A x \in Headers :
              n \in DOMAIN new /\ old[n][x] \in Working /\ OnlyPlaceholders(entries, n, x)
              => new[n][x] = old[n][x]

\* What a command that is alone is about to write keeps what the file held.
DecidedKeeps ==
    \A p \in Active :
        /\ at[p].pc \in {"decided", "truncated"}
        /\ at[p].kind # "init" /\ ~at[p].shared
        => Keeps(Readable(held), at[p].list, at[p].entries)

\* How far a command that is alone has brought the copies.
Agreed(list) ==
    config.state = "whole" /\ Readable(config.list) = Readable(list)

Tabled(list) ==
    /\ DOMAIN table = DOMAIN list
    /\ \A n \in DOMAIN list : table[n].cred = list[n]

LoneProgress ==
    \A p \in Active :
        ~at[p].shared =>
            /\ at[p].pc = "truncated" => config.state = "empty"
            /\ at[p].pc \in {"written", "persisted", "cleared", "stubbed"} =>
                  Agreed(at[p].list)
            /\ at[p].pc \in {"persisted", "cleared", "stubbed"} =>
                  Tabled(at[p].list) /\ at[p].up = Tooled
            /\ at[p].pc = "cleared" => pyi = {}
            /\ at[p].pc = "stubbed" => pyi = at[p].up

\* A home is quiet only while nobody is past a write.
QuietIsQuiet ==
    settled => \A p \in Procs :
        at[p].pc \notin {"truncated", "persisted", "cleared", "stubbed"}

ConnectorsInv ==
    /\ AllTyped
    /\ OneNamePerAttr
    /\ FileSecrets
    /\ SecretsAreSources
    /\ CompanyIsKnown
    /\ FileIsHeld
    /\ DecidedKeeps
    /\ LoneProgress
    /\ QuietHomeAgrees
    /\ QuietIsQuiet

-----------------------------------------------------------------------------
(* Induction *)

\* A set of naturals that is not empty has a least element: the intervals up to
\* its elements are finite sets, and strict inclusion of those is well-founded.
LEMMA LeastOne ==
    ASSUME NEW S \in SUBSET Nat, S # {}
    PROVE  \E n \in S : \A m \in S : n <= m
<1> DEFINE T == {0 .. n : n \in S}
<1>1. \A n \in Nat : (0 .. n) \in FiniteSubsetsOf(Nat)
  <2> TAKE n \in Nat
  <2>1. IsFiniteSet(0 .. n)
    BY FS_Interval, SMT
  <2>2. (0 .. n) \in SUBSET Nat
    BY SMT
  <2>3. QED
    BY <2>1, <2>2, Zenon DEF FiniteSubsetsOf
<1>2. T \subseteq FiniteSubsetsOf(Nat) /\ T # {}
  BY <1>1
<1>3. IsWellFoundedOn(StrictSubsetOrdering(Nat), FiniteSubsetsOf(Nat))
  BY FS_StrictSubsetOrderingWellFounded
<1>4. \E x \in T : \A y \in T : ~(<<y, x>> \in StrictSubsetOrdering(Nat))
  <2> HIDE DEF T
  <2>1. QED
    BY <1>2, <1>3, WFMin, Zenon
<1>5. PICK n \in S :
          \A m \in S : ~(<<0 .. m, 0 .. n>> \in StrictSubsetOrdering(Nat))
  BY <1>4
<1>6. ASSUME NEW m \in S, m < n
      PROVE  FALSE
  <2>1. n \in 0 .. n /\ n \notin 0 .. m
    BY <1>6
  <2>2. 0 .. m \subseteq 0 .. n /\ 0 .. m # 0 .. n
    BY <2>1, <1>6
  <2>3. (0 .. m) \in SUBSET Nat /\ (0 .. n) \in SUBSET Nat
    BY <1>6
  <2>4. <<0 .. m, 0 .. n>> \in StrictSubsetOrdering(Nat)
    BY <2>2, <2>3 DEF StrictSubsetOrdering
  <2>5. QED
    BY <2>4, <1>5
<1>7. QED
  BY <1>6

\* Induction over the positions of a sequence, or any 0 .. k.
LEMMA Positions ==
    ASSUME NEW k \in Nat, NEW S, 0 \in S,
           \A i \in 0 .. k : i \in S /\ i < k => i + 1 \in S
    PROVE  \A i \in 0 .. k : i \in S
<1> SUFFICES ASSUME (0 .. k) \ S # {} PROVE FALSE
  OBVIOUS
<1>1. (0 .. k) \ S \in SUBSET Nat
  OBVIOUS
<1>2. PICK n \in (0 .. k) \ S : \A m \in (0 .. k) \ S : n <= m
  BY <1>1, LeastOne
<1>3. n \in Nat /\ n # 0 /\ n <= k
  BY <1>2
<1>4. n - 1 \in 0 .. k /\ n - 1 \notin (0 .. k) \ S /\ (n - 1) + 1 = n /\ n - 1 < k
  BY <1>2, <1>3
<1>5. QED
  BY <1>2, <1>4

-----------------------------------------------------------------------------
(* Lists of connectors *)

\* What a list of connectors is.
LEMMA ListIs ==
    ASSUME NEW f \in Lists
    PROVE  /\ DOMAIN f \in SUBSET Names
           /\ f \in [DOMAIN f -> Credential]
           /\ \A n \in DOMAIN f : f[n] \in Credential
<1>1. PICK S \in SUBSET Names : f \in [S -> Credential]
  BY DEF Lists
<1>2. QED
  BY <1>1

LEMMA ListsHave ==
    ASSUME NEW S \in SUBSET Names, NEW f \in [S -> Credential]
    PROVE  f \in Lists
BY DEF Lists

LEMMA EmptyList == <<>> \in Lists /\ DOMAIN <<>> = {}
<1>1. <<>> \in [{} -> Credential]
  OBVIOUS
<1>2. QED
  BY <1>1, ListsHave

\* Leaving names out, and putting one in, make lists of lists.
LEMMA WithoutLists ==
    ASSUME NEW f \in Lists, NEW S
    PROVE  /\ Without(f, S) \in Lists
           /\ DOMAIN Without(f, S) = DOMAIN f \ S
           /\ \A n \in DOMAIN f \ S : Without(f, S)[n] = f[n]
           /\ OneOwner(f) => OneOwner(Without(f, S))
           /\ SecretsOf(f) => SecretsOf(Without(f, S))
<1>1. /\ DOMAIN Without(f, S) = DOMAIN f \ S
      /\ \A n \in DOMAIN f \ S : Without(f, S)[n] = f[n]
  BY DEF Without
<1>2. Without(f, S) \in [DOMAIN f \ S -> Credential]
  BY ListIs DEF Without
<1>3. Without(f, S) \in Lists
  BY <1>2, ListIs, ListsHave
<1>4. QED
  BY <1>1, <1>3 DEF OneOwner, SecretsOf

LEMMA WithLists ==
    ASSUME NEW f \in Lists, NEW n \in Names, NEW c \in Credential
    PROVE  /\ With(f, n, c) \in Lists
           /\ DOMAIN With(f, n, c) = DOMAIN f \cup {n}
           /\ With(f, n, c)[n] = c
           /\ \A m \in DOMAIN f \ {n} : With(f, n, c)[m] = f[m]
<1>1. /\ DOMAIN With(f, n, c) = DOMAIN f \cup {n}
      /\ With(f, n, c)[n] = c
      /\ \A m \in DOMAIN f \ {n} : With(f, n, c)[m] = f[m]
  BY DEF With
<1>2. With(f, n, c) \in [DOMAIN f \cup {n} -> Credential]
  BY ListIs DEF With
<1>3. With(f, n, c) \in Lists
  BY <1>2, ListIs, ListsHave
<1>4. QED
  BY <1>1, <1>3

\* One step of a merge, and what it preserves.
LEMMA MergeOneIs ==
    ASSUME NEW f \in Lists, NEW e \in Entry
    PROVE  /\ MergeOne(f, e) \in Lists
           /\ OneOwner(f) => OneOwner(MergeOne(f, e))
           /\ DOMAIN f \subseteq DOMAIN MergeOne(f, e)
           /\ \A n \in DOMAIN f \ {e.name} : MergeOne(f, e)[n] = f[n]
           /\ \A n \in DOMAIN f, x \in Headers :
                 f[n][x] \in Working /\ (e.name = n => e.cred[x] = "generated")
                 => MergeOne(f, e)[n][x] = f[n][x]
           /\ SecretsOf(f) /\ Brings(e) => SecretsOf(MergeOne(f, e))
<1> DEFINE c == IF e.name \in DOMAIN f
                THEN KeepWorkingReferences(f[e.name], e.cred) ELSE e.cred
<1>1. e.name \in Names /\ e.cred \in Credential
  BY DEF Entry
<1>2. c \in Credential
  BY <1>1, ListIs DEF KeepWorkingReferences, Credential
<1>2a. \A x \in Slots : c[x] = "literal" =>
          e.cred[x] = "literal" \/ (e.name \in DOMAIN f /\ f[e.name][x] = "literal")
  BY DEF KeepWorkingReferences
<1>2b. \A x \in Headers :
          e.name \in DOMAIN f /\ f[e.name][x] \in Working /\ e.cred[x] = "generated"
          => c[x] = f[e.name][x]
  BY ConnectorsAssumption DEF KeepWorkingReferences
<1>3. CASE Clashing(f, e.name) # {}
  BY <1>3 DEF MergeOne
<1>4. CASE Clashing(f, e.name) = {}
  <2>1. MergeOne(f, e) = With(f, e.name, c)
    BY <1>4 DEF MergeOne
  <2> HIDE DEF c
  <2> DEFINE g == With(f, e.name, c)
  <2>2. /\ g \in Lists
        /\ DOMAIN g = DOMAIN f \cup {e.name}
        /\ g[e.name] = c
        /\ \A m \in DOMAIN f \ {e.name} : g[m] = f[m]
    BY <1>1, <1>2, WithLists
  <2> HIDE DEF g
  <2>3. OneOwner(f) => OneOwner(g)
    BY <1>4, <2>2 DEF OneOwner, Clashing
  <2>4. \A n \in DOMAIN f, x \in Headers :
          f[n][x] \in Working /\ (e.name = n => e.cred[x] = "generated")
          => g[n][x] = f[n][x]
    BY <1>2b, <2>2
  <2>5. SecretsOf(f) /\ Brings(e) => SecretsOf(g)
    BY <1>2a, <2>2 DEF SecretsOf, Brings
  <2>6. MergeOne(f, e) = g
    BY <2>1 DEF g
  <2>7. QED
    BY <2>2, <2>3, <2>4, <2>5, <2>6
<1>5. QED
  BY <1>3, <1>4

\* The recursion of a merge has a value at every position.
LEMMA MergeRuns ==
    ASSUME NEW f \in Lists, NEW s \in Seq(Entry)
    PROVE  \E g :
             /\ g \in [0 .. Len(s) -> Lists]
             /\ g[0] = f
             /\ \A i \in 1 .. Len(s) : g[i] = MergeOne(g[i - 1], s[i])
             /\ Merge(f, s) = g[Len(s)]
<1> DEFINE Upto(k, g) == g = [i \in 0 .. k |-> IF i = 0 THEN f ELSE MergeOne(g[i - 1], s[i])]
<1> DEFINE S == {k \in 0 .. Len(s) : \E g \in [0 .. k -> Lists] : Upto(k, g)}
<1>0. Len(s) \in Nat
  OBVIOUS
<1>1. 0 \in S
  <2> DEFINE g0 == [i \in 0 .. 0 |-> f]
  <2>1. g0 \in [0 .. 0 -> Lists]
    OBVIOUS
  <2>2. g0 = [i \in 0 .. 0 |-> IF i = 0 THEN f ELSE MergeOne(g0[i - 1], s[i])]
    OBVIOUS
  <2>3. 0 \in 0 .. Len(s)
    BY <1>0
  <2> HIDE DEF g0
  <2>4. QED
    BY <2>1, <2>2, <2>3
<1>2. ASSUME NEW k \in 0 .. Len(s), k \in S, k < Len(s)
      PROVE  k + 1 \in S
  <2>1. PICK g \in [0 .. k -> Lists] : Upto(k, g)
    BY <1>2
  <2> DEFINE h == [i \in 0 .. k + 1 |-> IF i = k + 1 THEN MergeOne(g[k], s[k + 1]) ELSE g[i]]
  <2>2. s[k + 1] \in Entry
    BY <1>2
  <2>3. MergeOne(g[k], s[k + 1]) \in Lists
    BY <2>2, <1>2, MergeOneIs
  <2>4. h \in [0 .. k + 1 -> Lists]
    BY <2>3, <1>2
  <2>5. ASSUME NEW i \in 0 .. k + 1
        PROVE  h[i] = IF i = 0 THEN f ELSE MergeOne(h[i - 1], s[i])
    <3>1. CASE i = k + 1
      <4>1. h[i] = MergeOne(g[k], s[k + 1]) /\ h[i - 1] = g[k] /\ i # 0
        BY <3>1, <1>2
      <4>2. QED
        BY <4>1, <3>1
    <3>2. CASE i # k + 1
      <4>1. i \in 0 .. k /\ h[i] = g[i]
        BY <3>2, <1>2
      <4>2. g[i] = IF i = 0 THEN f ELSE MergeOne(g[i - 1], s[i])
        BY <2>1, <4>1
      <4>3. i # 0 => h[i - 1] = g[i - 1]
        BY <4>1, <1>2
      <4>4. QED
        BY <4>1, <4>2, <4>3
    <3>3. QED
      BY <3>1, <3>2
  <2>6. Upto(k + 1, h)
    BY <2>4, <2>5
  <2>7. k + 1 \in 0 .. Len(s)
    BY <1>2, <1>0
  <2>8. QED
    BY <2>4, <2>6, <2>7
<1>3. Len(s) \in S
  <2> HIDE DEF S
  <2>1. \A i \in 0 .. Len(s) : i \in S
    BY <1>0, <1>1, <1>2, Positions
  <2>2. QED
    BY <2>1, <1>0
<1>4. PICK g \in [0 .. Len(s) -> Lists] : Upto(Len(s), g)
  BY <1>3
<1> DEFINE after == CHOOSE a : Upto(Len(s), a)
<1>5. Upto(Len(s), after)
  BY <1>4, Zenon
<1>6. Merge(f, s) = after[Len(s)]
  BY DEF Merge
<1>7. after \in [0 .. Len(s) -> Lists]
  <2> HIDE DEF after
  <2> DEFINE R == {i \in 0 .. Len(s) : after[i] \in Lists}
  <2>1. 0 \in R
    BY <1>5, <1>0
  <2>2. ASSUME NEW i \in 0 .. Len(s), i \in R, i < Len(s)
        PROVE  i + 1 \in R
    <3>1. i + 1 \in 0 .. Len(s) /\ i + 1 # 0 /\ (i + 1) - 1 = i
      BY <2>2, <1>0
    <3>2. after[i + 1] = MergeOne(after[i], s[i + 1])
      BY <1>5, <3>1
    <3>3. s[i + 1] \in Entry
      BY <3>1
    <3>4. QED
      BY <3>1, <3>2, <3>3, <2>2, MergeOneIs
  <2>3. \A i \in 0 .. Len(s) : i \in R
    <3> HIDE DEF R
    <3>1. QED
      BY <1>0, <2>1, <2>2, Positions
  <2>4. QED
    BY <2>3, <1>5
<1>8. after[0] = f /\ \A i \in 1 .. Len(s) : after[i] = MergeOne(after[i - 1], s[i])
  <2> HIDE DEF after
  <2>1. QED
    BY <1>5, <1>0
<1>9. QED
  BY <1>6, <1>7, <1>8

\* A merge makes a list with one owner of each attribute of such a list, keeps
\* what it must, and brings in no secret that is not given to it.
LEMMA MergeIs ==
    ASSUME NEW f \in Lists, NEW s \in Seq(Entry)
    PROVE  /\ Merge(f, s) \in Lists
           /\ OneOwner(f) => OneOwner(Merge(f, s))
           /\ SecretsOf(f) /\ (\A i \in DOMAIN s : Brings(s[i])) => SecretsOf(Merge(f, s))
           /\ Keeps(f, Merge(f, s), s)
<1>1. PICK g : /\ g \in [0 .. Len(s) -> Lists]
               /\ g[0] = f
               /\ \A i \in 1 .. Len(s) : g[i] = MergeOne(g[i - 1], s[i])
               /\ Merge(f, s) = g[Len(s)]
  BY MergeRuns
<1> DEFINE Untouched(n) == n \notin {s[i].name : i \in DOMAIN s}
<1> DEFINE Good(h) ==
             /\ OneOwner(f) => OneOwner(h)
             /\ SecretsOf(f) /\ (\A i \in DOMAIN s : Brings(s[i])) => SecretsOf(h)
             /\ DOMAIN f \subseteq DOMAIN h
             /\ \A n \in DOMAIN f :
                   /\ Untouched(n) => h[n] = f[n]
                   /\ \A x \in Headers :
                         f[n][x] \in Working /\ OnlyPlaceholders(s, n, x) => h[n][x] = f[n][x]
<1> DEFINE R == {i \in 0 .. Len(s) : Good(g[i])}
<1>0. Len(s) \in Nat
  OBVIOUS
<1>2. 0 \in R
  BY <1>0, <1>1
<1>3. ASSUME NEW i \in 0 .. Len(s), i \in R, i < Len(s)
      PROVE  i + 1 \in R
  <2>1. i + 1 \in 1 .. Len(s) /\ (i + 1) - 1 = i /\ i + 1 \in DOMAIN s /\ s[i + 1] \in Entry
    BY <1>3, <1>0
  <2> DEFINE old == g[i]
  <2> DEFINE new == g[i + 1]
  <2> DEFINE e == s[i + 1]
  <2>2. new = MergeOne(old, e)
    BY <1>1, <2>1
  <2>3. old \in Lists
    BY <1>1, <1>3
  <2>4. Good(old)
    BY <1>3
  <2>5. e \in Entry /\ e.name \in {s[k].name : k \in DOMAIN s}
    BY <2>1
  <2>6. \A n, x : OnlyPlaceholders(s, n, x) => (e.name = n => e.cred[x] = "generated")
    BY <2>1 DEF OnlyPlaceholders
  <2>7. (\A k \in DOMAIN s : Brings(s[k])) => Brings(e)
    BY <2>1
  <2> HIDE DEF old, new, e
  <2>8. Good(new)
    <3>1. /\ OneOwner(old) => OneOwner(new)
          /\ DOMAIN old \subseteq DOMAIN new
          /\ \A n \in DOMAIN old \ {e.name} : new[n] = old[n]
          /\ \A n \in DOMAIN old, x \in Headers :
                old[n][x] \in Working /\ (e.name = n => e.cred[x] = "generated")
                => new[n][x] = old[n][x]
          /\ SecretsOf(old) /\ Brings(e) => SecretsOf(new)
      BY <2>2, <2>3, <2>5, MergeOneIs
    <3>2. ASSUME NEW n \in DOMAIN f
          PROVE  /\ Untouched(n) => new[n] = f[n]
                 /\ \A x \in Headers :
                       f[n][x] \in Working /\ OnlyPlaceholders(s, n, x) => new[n][x] = f[n][x]
      BY <3>1, <2>4, <2>5, <2>6
    <3>3. DOMAIN f \subseteq DOMAIN new
      BY <3>1, <2>4
    <3>4. /\ OneOwner(f) => OneOwner(new)
          /\ SecretsOf(f) /\ (\A k \in DOMAIN s : Brings(s[k])) => SecretsOf(new)
      BY <3>1, <2>4, <2>7
    <3>5. QED
      BY <3>2, <3>3, <3>4
  <2>9. QED
    BY <2>1, <2>8 DEF new
<1>4. Good(g[Len(s)])
  <2>1. \A i \in 0 .. Len(s) : i \in R
    <3> HIDE DEF R
    <3>1. QED
      BY <1>0, <1>2, <1>3, Positions
  <2>2. QED
    BY <2>1, <1>0
<1>5. g[Len(s)] \in Lists
  BY <1>0, <1>1
<1>6. QED
  BY <1>1, <1>4, <1>5 DEF Keeps

\* Names of sources have a first and a last place.
LEMMA Places ==
    ASSUME NEW s \in Seq(Entry), NEW n \in {s[i].name : i \in DOMAIN s}
    PROVE  /\ \E i \in DOMAIN s : s[i].name = n /\ \A j \in 1 .. i - 1 : s[j].name # n
           /\ \E i \in DOMAIN s : s[i].name = n /\ \A j \in i + 1 .. Len(s) : s[j].name # n
<1> DEFINE I == {i \in DOMAIN s : s[i].name = n}
<1> DEFINE J == {k \in 0 .. Len(s) : \E i \in I : k = Len(s) - i}
<1>1. I \in SUBSET Nat /\ I # {} /\ Len(s) \in Nat /\ DOMAIN s = 1 .. Len(s)
  OBVIOUS
<1>2. PICK i \in I : \A m \in I : i <= m
  BY <1>1, LeastOne
<1>3. \A j \in 1 .. i - 1 : s[j].name # n
  BY <1>1, <1>2
<1>4. J \in SUBSET Nat /\ J # {}
  BY <1>1
<1>5. PICK k \in J : \A m \in J : k <= m
  BY <1>4, LeastOne
<1>6. PICK l \in I : k = Len(s) - l
  BY <1>5
<1>7. ASSUME NEW j \in l + 1 .. Len(s), s[j].name = n
      PROVE  FALSE
  <2>1. j \in I /\ Len(s) - j \in J
    BY <1>1, <1>6, <1>7
  <2>2. QED
    BY <2>1, <1>1, <1>5, <1>6, <1>7
<1>8. QED
  BY <1>2, <1>3, <1>6, <1>7

\* An import from sources makes a list with one owner of each attribute, whose
\* secrets are those of the sources.
LEMMA ImportedIs ==
    ASSUME NEW s \in Seq(Entry)
    PROVE  /\ Imported(s) \in Lists
           /\ OneOwner(Imported(s))
           /\ (\A i \in DOMAIN s : Brings(s[i])) => SecretsOf(Imported(s))
<1> DEFINE First(n) == CHOOSE i \in DOMAIN s :
                         s[i].name = n /\ \A j \in 1 .. i - 1 : s[j].name # n
<1> DEFINE Last(n) == CHOOSE i \in DOMAIN s :
                         s[i].name = n /\ \A j \in i + 1 .. Len(s) : s[j].name # n
<1> DEFINE found == {s[i].name : i \in DOMAIN s} \ Reserved
<1> DEFINE kept == {n \in found : \A m \in found : Attr[m] = Attr[n] => First(n) <= First(m)}
<1>1. Imported(s) = [n \in kept |-> s[Last(n)].cred]
  BY DEF Imported
<1>2. ASSUME NEW n \in found
      PROVE  /\ First(n) \in DOMAIN s /\ s[First(n)].name = n
             /\ Last(n) \in DOMAIN s /\ s[Last(n)].name = n
             /\ n \in Names
  <2>0. n \in {s[i].name : i \in DOMAIN s}
    OBVIOUS
  <2>1. n \in Names
    <3>1. PICK i \in DOMAIN s : n = s[i].name
      BY <2>0
    <3>2. s[i] \in Entry
      OBVIOUS
    <3>3. QED
      BY <3>1, <3>2 DEF Entry
  <2>2. First(n) \in DOMAIN s /\ s[First(n)].name = n
    BY <2>0, Places
  <2>3. Last(n) \in DOMAIN s /\ s[Last(n)].name = n
    BY <2>0, Places
  <2>4. QED
    BY <2>1, <2>2, <2>3
<1> HIDE DEF First, Last
<1>3. kept \in SUBSET Names
  BY <1>2
<1>4. \A n \in kept : s[Last(n)].cred \in Credential
  <2> TAKE n \in kept
  <2>1. Last(n) \in DOMAIN s
    BY <1>2
  <2>2. s[Last(n)] \in Entry
    BY <2>1
  <2>3. QED
    BY <2>2 DEF Entry
<1>5. Imported(s) \in Lists
  BY <1>1, <1>3, <1>4, ListsHave
<1>6. ASSUME NEW m \in kept, NEW n \in kept, Attr[m] = Attr[n]
      PROVE  m = n
  <2>1. First(m) <= First(n) /\ First(n) <= First(m)
    BY <1>6
  <2>2. First(m) \in Nat /\ First(n) \in Nat
    BY <1>2
  <2>3. First(m) = First(n)
    BY <2>1, <2>2
  <2>4. QED
    BY <2>3, <1>2
<1>7. OneOwner(Imported(s))
  BY <1>1, <1>6 DEF OneOwner
<1>8. \A n \in kept : Last(n) \in DOMAIN s /\ s[Last(n)].name = n
  BY <1>2
<1>9. (\A i \in DOMAIN s : Brings(s[i])) => SecretsOf(Imported(s))
  BY <1>1, <1>8 DEF SecretsOf, Brings
<1>10. QED
  BY <1>5, <1>7, <1>9

-----------------------------------------------------------------------------
(* The steps, by what they change *)

\* A command is given: what it is given is fit for its kind.
GivenStep(p) ==
    \E kind \in Kind, entries \in Seq(Entry) :
        /\ Give(p, kind, entries)
        /\ kind \in {"init", "add", "import", "chat"} => \A i \in DOMAIN entries : Brings(entries[i])
        /\ kind = "remove" => entries # <<>>
        /\ kind = "sync" => config.state # "absent"

\* A process goes on in memory, to r, or ends.
MemoryStep(p, r) ==
    /\ at[p].pc # "idle"
    /\ r \in Process
    /\ at' = [at EXCEPT ![p] = r]
    /\ \/ r = Idle
       \/ /\ r.pc \in {"planned", "decided", "written"}
          /\ r.kind = at[p].kind /\ r.entries = at[p].entries /\ r.shared = at[p].shared
          /\ OneOwner(r.list) /\ SecretsOf(r.list)
          /\ r.pc = "planned" => r.kind = "chat" /\ at[p].pc = "begun"
          /\ r.pc = "decided" /\ r.kind # "init" => Keeps(Readable(held), r.list, r.entries)
          /\ r.pc = "written" => Agreed(r.list)
    /\ UNCHANGED <<files, held, settled>>

FileStep(p) ==
    \/ Truncate(p)   \/ Write(p)      \/ Persist(p)
    \/ ClearStubs(p) \/ WriteStubs(p) \/ WriteCtx(p)

LEMMA GivenIs ==
    ASSUME NEW kind, NEW s \in Given(kind)
    PROVE  s \in Seq(Entry) /\ (kind = "remove" => s # <<>>)
<1>1. PICK c \in {d \in Commands : d.kind = kind} : s = c.entries
  BY DEF Given
<1>2. c \in Commands /\ c.kind = kind
  OBVIOUS
<1>3. QED
  BY <1>1, <1>2, ConnectorsAssumption

\* What an init is given, or a command that looks for literals, is brought in by it.
LEMMA GivenBrings ==
    ASSUME NEW kind, NEW s \in Given(kind), NEW i \in DOMAIN s,
           kind = "init" \/ NoLiteral(s[i])
    PROVE  Brings(s[i])
<1>1. PICK c \in Commands : c.kind = kind /\ s = c.entries
  BY DEF Given
<1>2. QED
  BY <1>1 DEF Brings, BroughtIn, NoLiteral

LEMMA HeadersBring ==
    ASSUME NEW kind, NEW s \in Given(kind), NEW i \in DOMAIN s, s[i] \in Entry
    PROVE  HeadersFor(s[i]) \in Entry /\ Brings(HeadersFor(s[i]))
<1> DEFINE e == s[i]
<1> DEFINE cred == [x \in Slots |-> IF x \in Recognised /\ e.cred[x] = "literal"
                                    THEN "generated" ELSE e.cred[x]]
<1>1. PICK c \in Commands : c.kind = kind /\ s = c.entries
  BY DEF Given
<1>2. cred \in Credential
  BY DEF Entry, Credential, Value
<1>3. HeadersFor(e) = [e EXCEPT !.cred = cred]
  BY DEF HeadersFor, Entry
<1>4. \A x \in Slots : cred[x] = "literal" => e.cred[x] = "literal" /\ x \notin Recognised
  OBVIOUS
<1>5. \A x \in Slots : cred[x] = "literal" => BroughtIn(e.name, x)
  BY <1>1, <1>4 DEF BroughtIn
<1> HIDE DEF cred
<1>6. /\ HeadersFor(e) \in Entry
      /\ HeadersFor(e).cred = cred /\ HeadersFor(e).name = e.name
  BY <1>2, <1>3 DEF Entry
<1>7. QED
  BY <1>5, <1>6 DEF Brings

LEMMA GivenSteps ==
    ASSUME NEW p \in Procs,
           \/ GiveInit(p) \/ GiveAdd(p)    \/ GiveImport(p)
           \/ GiveChat(p) \/ GiveRemove(p) \/ GiveSync(p)
    PROVE  GivenStep(p)
<1>1. CASE GiveInit(p)
  <2>1. PICK s \in Given("init") : Give(p, "init", s)
    BY <1>1 DEF GiveInit
  <2>2. s \in Seq(Entry) /\ \A i \in DOMAIN s : Brings(s[i])
    BY <2>1, GivenIs, GivenBrings
  <2>3. QED
    BY <2>1, <2>2 DEF GivenStep, Kind
<1>2. CASE GiveAdd(p)
  <2>1. PICK s \in Given("add") :
            Give(p, "add", s) /\ \A i \in DOMAIN s : NoLiteral(s[i])
    BY <1>2 DEF GiveAdd
  <2>2. s \in Seq(Entry) /\ \A i \in DOMAIN s : Brings(s[i])
    BY <2>1, GivenIs, GivenBrings
  <2>3. QED
    BY <2>1, <2>2 DEF GivenStep, Kind
<1>3. CASE GiveImport(p)
  <2>1. PICK s \in Given("import") :
            Give(p, "import", [i \in DOMAIN s |-> HeadersFor(s[i])])
    BY <1>3 DEF GiveImport
  <2> DEFINE h == [i \in DOMAIN s |-> HeadersFor(s[i])]
  <2>2. s \in Seq(Entry)
    BY <2>1, GivenIs
  <2>3. \A i \in DOMAIN s : HeadersFor(s[i]) \in Entry /\ Brings(HeadersFor(s[i]))
    <3>1. \A i \in DOMAIN s : s[i] \in Entry
      BY <2>2
    <3>2. QED
      BY <2>1, <3>1, HeadersBring
  <2>4. h \in Seq(Entry) /\ DOMAIN h = DOMAIN s
    <3>1. \A i \in 1 .. Len(s) : HeadersFor(s[i]) \in Entry
      BY <2>2, <2>3
    <3>2. DOMAIN s = 1 .. Len(s) /\ Len(s) \in Nat
      BY <2>2
    <3>3. h \in [1 .. Len(s) -> Entry]
      BY <3>1, <3>2
    <3>4. QED
      BY <3>2, <3>3
  <2>5. \A i \in DOMAIN h : Brings(h[i])
    BY <2>3
  <2>6. Give(p, "import", h)
    BY <2>1
  <2> HIDE DEF h
  <2>7. QED
    BY <2>4, <2>5, <2>6 DEF GivenStep, Kind
<1>4. CASE GiveChat(p)
  <2>1. PICK s \in Given("chat") :
            Give(p, "chat", s) /\ \A i \in DOMAIN s : NoLiteral(s[i])
    BY <1>4 DEF GiveChat
  <2>2. s \in Seq(Entry) /\ \A i \in DOMAIN s : Brings(s[i])
    BY <2>1, GivenIs, GivenBrings
  <2>3. QED
    BY <2>1, <2>2 DEF GivenStep, Kind
<1>5. CASE GiveRemove(p)
  <2>1. PICK s \in Given("remove") : Give(p, "remove", s)
    BY <1>5 DEF GiveRemove
  <2>2. s \in Seq(Entry) /\ s # <<>>
    BY <2>1, GivenIs
  <2>3. QED
    BY <2>1, <2>2 DEF GivenStep, Kind
<1>6. CASE GiveSync(p)
  <2>1. PICK s \in Given("sync") : Give(p, "sync", s)
    BY <1>6 DEF GiveSync
  <2>2. config.state # "absent"
    BY <1>6 DEF GiveSync, ExistingHome
  <2>3. QED
    BY <2>1, <2>2, GivenIs DEF GivenStep, Kind
<1>7. QED
  BY <1>1, <1>2, <1>3, <1>4, <1>5, <1>6

\* What a reader of the file gets is a list like any other, and what the file held.
LEMMA StoredIs ==
    ASSUME ConnectorsInv, NEW list \in Stored
    PROVE  /\ list \in Lists
           /\ OneOwner(list)
           /\ SecretsOf(list)
           /\ list = Readable(held)
           /\ config.state \in {"absent", "whole"}
           /\ config.state = "whole" => list = Readable(config.list)
<1>1. CASE config.state = "whole"
  <2>1. list = Readable(config.list) /\ config.list = held
    BY <1>1 DEF Stored, ConnectorsInv, FileIsHeld
  <2>2. config.list \in Lists /\ OneOwner(config.list) /\ SecretsOf(config.list)
    BY DEF ConnectorsInv, AllTyped, Typed, OneNamePerAttr, FileSecrets
  <2>3. QED
    BY <1>1, <2>1, <2>2, WithoutLists DEF Readable
<1>2. CASE config.state # "whole"
  <2>1. config.state = "absent" /\ list = <<>> /\ held = <<>>
    BY <1>2 DEF Stored, ConnectorsInv, FileIsHeld
  <2>2. Readable(held) = <<>>
    <3>1. Readable(held) = [n \in {} |-> held[n]]
      BY <2>1, EmptyList DEF Readable, Without
    <3>2. QED
      BY <3>1
  <2>3. QED
    BY <2>1, <2>2, EmptyList DEF OneOwner, SecretsOf
<1>3. QED
  BY <1>1, <1>2

LEMMA IdleIs ==
    /\ Idle \in Process
    /\ Idle.pc = "idle" /\ Idle.list = <<>>
    /\ OneOwner(<<>>) /\ SecretsOf(<<>>)
<1>1. <<>> \in Seq(Entry)
  OBVIOUS
<1>2. Idle \in Process
  BY <1>1, EmptyList DEF Idle, Process, Place, Kind
<1>3. QED
  BY <1>2, EmptyList DEF Idle, OneOwner, SecretsOf

\* A process is a process after it took in a list and went to another place, ...
LEMMA ProcessWith ==
    ASSUME NEW a \in Process, NEW list \in Lists, NEW pc \in Place
    PROVE  [a EXCEPT !.list = list, !.pc = pc] \in Process
BY DEF Process

\* ... or only went there.
LEMMA ProcessAt ==
    ASSUME NEW a \in Process, NEW pc \in Place
    PROVE  [a EXCEPT !.pc = pc] \in Process
BY DEF Process

LEMMA EndIsMemory ==
    ASSUME NEW p \in Procs, at[p].pc # "idle", End(p), UNCHANGED <<files, held, settled>>
    PROVE  \E r : MemoryStep(p, r)
BY IdleIs DEF End, MemoryStep

LEMMA HoldIsMemory ==
    ASSUME AllTyped, NEW p \in Procs, at[p].pc # "idle",
           NEW list \in Lists, NEW pc \in {"decided", "written"}, Holding(p, list, pc),
           OneOwner(list), SecretsOf(list),
           pc = "decided" /\ at[p].kind # "init" => Keeps(Readable(held), list, at[p].entries),
           pc = "written" => Agreed(list),
           UNCHANGED <<files, held, settled>>
    PROVE  \E r : MemoryStep(p, r)
<1> DEFINE r == [at[p] EXCEPT !.list = list, !.pc = pc]
<1>1. at[p] \in Process /\ pc \in Place
  BY DEF AllTyped, Place
<1>2. r \in Process
  BY <1>1, ProcessWith
<1>3. at' = [at EXCEPT ![p] = r]
  BY DEF Holding, AllTyped
<1>4. /\ r.pc = pc /\ r.list = list
      /\ r.kind = at[p].kind /\ r.entries = at[p].entries /\ r.shared = at[p].shared
  BY <1>1 DEF Process
<1> HIDE DEF r
<1>5. MemoryStep(p, r)
  BY <1>2, <1>3, <1>4 DEF MemoryStep
<1>6. QED
  BY <1>5

LEMMA MemorySteps ==
    ASSUME ConnectorsInv, NEW p \in Procs,
           \/ Import(p) \/ Plan(p) \/ Add(p) \/ Remove(p) \/ Sync(p) \/ Refuse(p) \/ Kill(p)
    PROVE  \E r : MemoryStep(p, r)
<1>0. AllTyped /\ at[p] \in Process
  BY DEF ConnectorsInv, AllTyped
<1>1. CASE Import(p)
  <2>1. /\ at[p].pc = "begun" /\ at[p].kind = "init"
        /\ Holding(p, Imported(at[p].entries), "decided")
        /\ UNCHANGED <<files, held, settled>>
    BY <1>1 DEF Import
  <2>2. at[p].entries \in Seq(Entry) /\ \A i \in DOMAIN at[p].entries : Brings(at[p].entries[i])
    BY <1>0, <2>1 DEF Process, ConnectorsInv, SecretsAreSources
  <2>3. /\ Imported(at[p].entries) \in Lists
        /\ OneOwner(Imported(at[p].entries))
        /\ SecretsOf(Imported(at[p].entries))
    BY <2>2, ImportedIs
  <2>4. QED
    BY <1>0, <2>1, <2>3, HoldIsMemory
<1>2. CASE Plan(p)
  <2>1. /\ at[p].pc = "begun" /\ at[p].kind = "chat"
        /\ at' = [at EXCEPT ![p].pc = "planned"] \/ End(p)
        /\ UNCHANGED <<files, held, settled>>
    BY <1>2 DEF Plan
  <2>2. CASE End(p)
    BY <2>1, <2>2, EndIsMemory
  <2>3. CASE at' = [at EXCEPT ![p].pc = "planned"]
    <3> DEFINE r == [at[p] EXCEPT !.pc = "planned"]
    <3>0. "planned" \in Place
      BY DEF Place
    <3>1. r \in Process
      BY <1>0, <3>0, ProcessAt
    <3>2. at' = [at EXCEPT ![p] = r]
      BY <2>3, <1>0 DEF AllTyped
    <3>3. /\ r.pc = "planned" /\ r.list = at[p].list /\ r.kind = at[p].kind
          /\ r.entries = at[p].entries /\ r.shared = at[p].shared
      BY <1>0 DEF Process
    <3>4. OneOwner(r.list) /\ SecretsOf(r.list)
      BY <3>3 DEF ConnectorsInv, OneNamePerAttr, SecretsAreSources
    <3> HIDE DEF r
    <3>5. MemoryStep(p, r)
      BY <2>1, <3>1, <3>2, <3>3, <3>4 DEF MemoryStep
    <3>6. QED
      BY <3>5
  <2>4. QED
    BY <2>1, <2>2, <2>3
<1>3. CASE Add(p)
  <2>1. PICK list \in Stored : Holding(p, Merge(list, at[p].entries), "decided")
    BY <1>3 DEF Add
  <2>2. /\ at[p].pc \in {"begun", "planned"}
        /\ at[p].pc = "begun" => at[p].kind \in {"add", "import"}
        /\ UNCHANGED <<files, held, settled>>
    BY <1>3 DEF Add
  <2>3. at[p].entries \in Seq(Entry) /\ \A i \in DOMAIN at[p].entries : Brings(at[p].entries[i])
    BY <1>0, <2>2 DEF Process, ConnectorsInv, SecretsAreSources
  <2>4. list \in Lists /\ OneOwner(list) /\ SecretsOf(list) /\ list = Readable(held)
    BY StoredIs
  <2>5. /\ Merge(list, at[p].entries) \in Lists
        /\ OneOwner(Merge(list, at[p].entries))
        /\ SecretsOf(Merge(list, at[p].entries))
        /\ Keeps(list, Merge(list, at[p].entries), at[p].entries)
    BY <2>3, <2>4, MergeIs
  <2>6. QED
    BY <1>0, <2>1, <2>2, <2>4, <2>5, HoldIsMemory
<1>4. CASE Remove(p)
  <2> DEFINE n == at[p].entries[1].name
  <2>1. /\ at[p].pc = "begun" /\ at[p].kind = "remove"
        /\ UNCHANGED <<files, held, settled>>
    BY <1>4 DEF Remove
  <2>2. PICK list \in Stored :
            IF n \in DOMAIN list THEN Holding(p, Without(list, {n}), "decided") ELSE End(p)
    BY <1>4 DEF Remove
  <2>3. CASE End(p)
    BY <2>1, <2>3, EndIsMemory
  <2>4. CASE Holding(p, Without(list, {n}), "decided")
    <3>1. list \in Lists /\ OneOwner(list) /\ SecretsOf(list) /\ list = Readable(held)
      BY StoredIs
    <3>2. n \in {at[p].entries[i].name : i \in DOMAIN at[p].entries}
      <4>1. at[p].entries \in Seq(Entry) /\ at[p].entries # <<>>
        BY <1>0, <2>1 DEF Process, ConnectorsInv, SecretsAreSources
      <4>2. 1 \in DOMAIN at[p].entries
        BY <4>1
      <4>3. QED
        BY <4>2
    <3> HIDE DEF n
    <3>3. /\ Without(list, {n}) \in Lists
          /\ DOMAIN Without(list, {n}) = DOMAIN list \ {n}
          /\ \A m \in DOMAIN list \ {n} : Without(list, {n})[m] = list[m]
          /\ OneOwner(Without(list, {n})) /\ SecretsOf(Without(list, {n}))
      BY <3>1, WithoutLists
    <3>4. Keeps(list, Without(list, {n}), at[p].entries)
      BY <3>2, <3>3 DEF Keeps
    <3>5. QED
      BY <1>0, <2>1, <2>4, <3>1, <3>3, <3>4, HoldIsMemory
  <2>5. QED
    BY <2>2, <2>3, <2>4
<1>5. CASE Sync(p)
  <2>1. /\ at[p].pc = "begun" /\ at[p].kind = "sync"
        /\ UNCHANGED <<files, held, settled>>
    BY <1>5 DEF Sync
  <2>2. PICK list \in Stored : Holding(p, list, "written")
    BY <1>5 DEF Sync
  <2>3. /\ list \in Lists /\ OneOwner(list) /\ SecretsOf(list)
        /\ config.state \in {"absent", "whole"}
        /\ config.state = "whole" => list = Readable(config.list)
    BY StoredIs
  <2>4. config.state # "absent"
    BY <2>1 DEF ConnectorsInv, FileIsHeld, Active
  <2>5. Readable(list) = list
    <3>1. DOMAIN list \cap Reserved = {}
      BY <2>3, <2>4 DEF Readable, Without
    <3>2. Readable(list) = [n \in DOMAIN list |-> list[n]]
      BY <3>1 DEF Readable, Without
    <3>3. QED
      BY <2>3, <3>2, ListIs
  <2>6. Agreed(list)
    BY <2>3, <2>4, <2>5 DEF Agreed
  <2>7. QED
    BY <1>0, <2>1, <2>2, <2>3, <2>6, HoldIsMemory
<1>6. CASE Refuse(p)
  BY <1>6, EndIsMemory DEF Refuse
<1>7. CASE Kill(p)
  BY <1>7, EndIsMemory DEF Kill
<1>8. QED
  BY <1>1, <1>2, <1>3, <1>4, <1>5, <1>6, <1>7

-----------------------------------------------------------------------------
(* Every step keeps the invariant *)

LEMMA Put ==
    ASSUME AllTyped, NEW p \in Procs, NEW r \in Process, at' = [at EXCEPT ![p] = r]
    PROVE  /\ at' \in [Procs -> Process]
           /\ at'[p] = r
           /\ \A q \in Procs \ {p} : at'[q] = at[q]
BY DEF AllTyped

LEMMA InitHolds == Init => ConnectorsInv
<1> SUFFICES ASSUME Init PROVE ConnectorsInv
  OBVIOUS
<1>1. \A p \in Procs : at[p] = Idle
  BY DEF Init
<1>2. AllTyped
  <2>1. at \in [Procs -> Process]
    BY IdleIs DEF Init
  <2>2. <<>> \in Lists /\ <<>> \in Rows
    <3>1. <<>> \in [{} -> [cred : Credential, tools : BOOLEAN]]
      OBVIOUS
    <3>2. QED
      BY <3>1, EmptyList DEF Rows
  <2>3. \A p \in Procs : at[p].pc \in Place /\ at[p].list \in Lists
    BY <2>1 DEF Process
  <2>4. QED
    BY <2>1, <2>2, <2>3 DEF Init, AllTyped, Typed
<1>3. Active = {}
  BY <1>1, IdleIs DEF Active
<1>4. OneNamePerAttr
  BY <1>1, IdleIs, EmptyList DEF Init, OneNamePerAttr, OneOwner
<1>5. FileSecrets
  BY IdleIs DEF Init, FileSecrets
<1>6. SecretsAreSources
  BY <1>1, IdleIs DEF SecretsAreSources
<1>7. CompanyIsKnown /\ DecidedKeeps /\ LoneProgress
  BY <1>3 DEF CompanyIsKnown, DecidedKeeps, LoneProgress
<1>8. FileIsHeld
  BY <1>3 DEF Init, FileIsHeld
<1>9. QuietHomeAgrees /\ QuietIsQuiet
  BY DEF Init, QuietHomeAgrees, QuietIsQuiet
<1>10. QED
  BY <1>2, <1>4, <1>5, <1>6, <1>7, <1>8, <1>9 DEF ConnectorsInv

\* Where the files are left alone, so is what is said of them.
LEMMA FilesFrame ==
    ASSUME UNCHANGED <<files, held>>
    PROVE  /\ \A list : Agreed(list)' = Agreed(list) /\ Tabled(list)' = Tabled(list)
           /\ Tooled' = Tooled
           /\ OneOwner(config.list)' = OneOwner(config.list)
           /\ OneOwner(table)' = OneOwner(table)
           /\ FileSecrets' = FileSecrets
BY DEF files, Agreed, Tabled, Tooled, OneOwner, FileSecrets, SecretsOf, BroughtIn, Readable, Without

LEMMA GivenKeeps ==
    ASSUME ConnectorsInv, NEW p \in Procs, GivenStep(p)
    PROVE  ConnectorsInv'
<1>1. PICK kind \in Kind, entries \in Seq(Entry) :
        /\ Give(p, kind, entries)
        /\ kind \in {"init", "add", "import", "chat"} => \A i \in DOMAIN entries : Brings(entries[i])
        /\ kind = "remove" => entries # <<>>
        /\ kind = "sync" => config.state # "absent"
  BY DEF GivenStep
<1> DEFINE r == [Idle EXCEPT !.pc = "begun", !.kind = kind, !.entries = entries,
                             !.shared = Active # {}]
<1>2. /\ at[p].pc = "idle"
      /\ at' = [q \in Procs |-> IF q = p THEN r
                                ELSE IF q \in Active THEN [at[q] EXCEPT !.shared = TRUE]
                                ELSE at[q]]
      /\ UNCHANGED <<files, held, settled>>
  BY <1>1 DEF Give
<1>3. /\ r \in Process /\ r.pc = "begun" /\ r.kind = kind /\ r.entries = entries
      /\ r.list = <<>> /\ r.shared = (Active # {})
  BY IdleIs DEF Idle, Process, Place
<1> HIDE DEF r
<1>4. \A q \in Procs : at[q] \in Process
  BY DEF ConnectorsInv, AllTyped
<1>5. at'[p] = r
  BY <1>2
<1>6. ASSUME NEW q \in Procs \ {p}
      PROVE  /\ at'[q] \in Process
             /\ at'[q].pc = at[q].pc /\ at'[q].kind = at[q].kind /\ at'[q].entries = at[q].entries
             /\ at'[q].list = at[q].list /\ at'[q].up = at[q].up
             /\ q \in Active => at'[q].shared = TRUE
  <2>1. CASE q \in Active
    <3>1. at'[q] = [at[q] EXCEPT !.shared = TRUE]
      BY <1>2, <2>1
    <3>2. QED
      BY <1>4, <3>1 DEF Process
  <2>2. CASE q \notin Active
    BY <1>2, <1>4, <2>2
  <2>3. QED
    BY <2>1, <2>2
<1>7. at' \in [Procs -> Process]
  <2>1. \A q \in Procs : at'[q] \in Process
    BY <1>3, <1>5, <1>6
  <2>2. QED
    BY <1>2, <2>1
<1>8. Active' = Active \cup {p} /\ p \notin Active
  BY <1>2, <1>3, <1>5, <1>6 DEF Active
<1>9. AllTyped'
  <2>1. \A q \in Procs : at'[q].pc \in Place /\ at'[q].list \in Lists
    BY <1>7 DEF Process
  <2>2. QED
    BY <1>2, <1>7, <2>1 DEF ConnectorsInv, AllTyped, Typed, files
<1>10. OneNamePerAttr'
  <2>1. \A q \in Procs : OneOwner(at'[q].list)
    BY <1>3, <1>5, <1>6, IdleIs DEF ConnectorsInv, OneNamePerAttr
  <2>2. QED
    BY <1>2, <2>1, FilesFrame DEF ConnectorsInv, OneNamePerAttr
<1>11. FileSecrets'
  BY <1>2, FilesFrame DEF ConnectorsInv
<1>12. SecretsAreSources'
  <2>1. ASSUME NEW q \in Procs
        PROVE  /\ SecretsOf(at'[q].list)
               /\ at'[q].pc = "planned" => at'[q].kind = "chat"
               /\ at'[q].pc \in {"begun", "planned"} =>
                     /\ at'[q].kind \in {"init", "add", "import", "chat"} =>
                           \A i \in DOMAIN at'[q].entries : Brings(at'[q].entries[i])
                     /\ at'[q].kind = "remove" => at'[q].entries # <<>>
    <3>1. CASE q = p
      BY <1>1, <1>3, <1>5, <3>1, IdleIs
    <3>2. CASE q # p
      BY <1>6, <3>2 DEF ConnectorsInv, SecretsAreSources
    <3>3. QED
      BY <3>1, <3>2
  <2>2. QED
    BY <2>1 DEF SecretsAreSources, SecretsOf, Brings, BroughtIn
<1>13. CompanyIsKnown'
  BY <1>3, <1>5, <1>6, <1>8 DEF CompanyIsKnown, Active
<1>14. FileIsHeld'
  BY <1>1, <1>2, <1>3, <1>5, <1>6, <1>8 DEF ConnectorsInv, FileIsHeld, files, Active
<1>15. DecidedKeeps'
  <2>1. \A q \in Active' : ~at'[q].shared => q = p
    BY <1>6, <1>8 DEF Active
  <2>2. QED
    BY <1>3, <1>5, <2>1 DEF DecidedKeeps
<1>16. LoneProgress'
  <2>1. \A q \in Active' : ~at'[q].shared => q = p
    BY <1>6, <1>8 DEF Active
  <2>2. QED
    BY <1>3, <1>5, <2>1 DEF LoneProgress
<1>17. QuietHomeAgrees'
  BY <1>2 DEF ConnectorsInv, QuietHomeAgrees, files, Tooled, Readable, Without
<1>18. QuietIsQuiet'
  BY <1>2, <1>3, <1>5, <1>6 DEF ConnectorsInv, QuietIsQuiet
<1>19. QED
  BY <1>9, <1>10, <1>11, <1>12, <1>13, <1>14, <1>15, <1>16, <1>17, <1>18 DEF ConnectorsInv

LEMMA MemoryKeeps ==
    ASSUME ConnectorsInv, NEW p \in Procs, NEW r, MemoryStep(p, r)
    PROVE  ConnectorsInv'
<1>1. /\ at[p].pc # "idle" /\ r \in Process
      /\ at' = [at EXCEPT ![p] = r]
      /\ UNCHANGED <<files, held, settled>>
  BY DEF MemoryStep
<1>2. /\ at' \in [Procs -> Process]
      /\ at'[p] = r
      /\ \A q \in Procs \ {p} : at'[q] = at[q]
  BY <1>1, Put DEF ConnectorsInv
<1>3. /\ r.pc # "idle" =>
            /\ r.pc \in {"planned", "decided", "written"}
            /\ r.kind = at[p].kind /\ r.entries = at[p].entries /\ r.shared = at[p].shared
            /\ r.pc = "planned" => r.kind = "chat" /\ at[p].pc = "begun"
            /\ r.pc = "decided" /\ r.kind # "init" => Keeps(Readable(held), r.list, r.entries)
            /\ r.pc = "written" => Agreed(r.list)
      /\ r.pc \in {"idle", "planned", "decided", "written"}
      /\ OneOwner(r.list) /\ SecretsOf(r.list)
  BY IdleIs DEF MemoryStep
<1>4. Active' \subseteq Active /\ p \in Active
  BY <1>1, <1>2 DEF Active
<1>5. AllTyped'
  <2>1. \A q \in Procs : at'[q].pc \in Place /\ at'[q].list \in Lists
    BY <1>2 DEF Process
  <2>2. QED
    BY <1>1, <1>2, <2>1 DEF ConnectorsInv, AllTyped, Typed, files
<1>6. OneNamePerAttr'
  <2>1. \A q \in Procs : OneOwner(at'[q].list)
    BY <1>2, <1>3 DEF ConnectorsInv, OneNamePerAttr
  <2>2. QED
    BY <1>1, <2>1, FilesFrame DEF ConnectorsInv, OneNamePerAttr
<1>7. FileSecrets'
  BY <1>1, FilesFrame DEF ConnectorsInv
<1>8. SecretsAreSources'
  <2>1. ASSUME NEW q \in Procs
        PROVE  /\ SecretsOf(at'[q].list)
               /\ at'[q].pc = "planned" => at'[q].kind = "chat"
               /\ at'[q].pc \in {"begun", "planned"} =>
                     /\ at'[q].kind \in {"init", "add", "import", "chat"} =>
                           \A i \in DOMAIN at'[q].entries : Brings(at'[q].entries[i])
                     /\ at'[q].kind = "remove" => at'[q].entries # <<>>
    <3>1. CASE q = p
      BY <1>2, <1>3, <3>1 DEF ConnectorsInv, SecretsAreSources
    <3>2. CASE q # p
      BY <1>2, <3>2 DEF ConnectorsInv, SecretsAreSources
    <3>3. QED
      BY <3>1, <3>2
  <2>2. QED
    BY <2>1 DEF SecretsAreSources, SecretsOf, Brings, BroughtIn
<1>9. CompanyIsKnown'
  BY <1>2, <1>3, <1>4 DEF ConnectorsInv, CompanyIsKnown, Active
<1>10. FileIsHeld'
  BY <1>1, <1>2, <1>3, <1>4 DEF ConnectorsInv, FileIsHeld, files, Active
<1>11. DecidedKeeps'
  <2>1. ASSUME NEW q \in Active', at'[q].pc \in {"decided", "truncated"},
               at'[q].kind # "init", ~at'[q].shared
        PROVE  Keeps(Readable(held), at'[q].list, at'[q].entries)
    <3>1. CASE q = p
      BY <1>2, <1>3, <2>1, <3>1
    <3>2. CASE q # p
      BY <1>2, <1>4, <2>1, <3>2 DEF ConnectorsInv, DecidedKeeps, Active
    <3>3. QED
      BY <3>1, <3>2
  <2>2. held' = held
    BY <1>1
  <2>3. QED
    BY <2>1, <2>2 DEF DecidedKeeps, Keeps, Readable, Without, OnlyPlaceholders
<1>12. LoneProgress'
  <2>1. ASSUME NEW q \in Active', ~at'[q].shared
        PROVE  /\ at'[q].pc = "truncated" => config.state = "empty"
               /\ at'[q].pc \in {"written", "persisted", "cleared", "stubbed"} =>
                     Agreed(at'[q].list)
               /\ at'[q].pc \in {"persisted", "cleared", "stubbed"} =>
                     Tabled(at'[q].list) /\ at'[q].up = Tooled
               /\ at'[q].pc = "cleared" => pyi = {}
               /\ at'[q].pc = "stubbed" => pyi = at'[q].up
    <3>1. CASE q = p
      BY <1>2, <1>3, <3>1
    <3>2. CASE q # p
      BY <1>2, <1>4, <2>1, <3>2 DEF ConnectorsInv, LoneProgress, Active
    <3>3. QED
      BY <3>1, <3>2
  <2>2. config' = config /\ table' = table /\ pyi' = pyi
    BY <1>1 DEF files
  <2>3. QED
    BY <2>1, <2>2 DEF LoneProgress, Agreed, Tabled, Tooled, Readable, Without
<1>13. QuietHomeAgrees'
  BY <1>1 DEF ConnectorsInv, QuietHomeAgrees, files, Tooled, Readable, Without
<1>14. QuietIsQuiet'
  BY <1>1, <1>2, <1>3 DEF ConnectorsInv, QuietIsQuiet
<1>15. QED
  BY <1>5, <1>6, <1>7, <1>8, <1>9, <1>10, <1>11, <1>12, <1>13, <1>14 DEF ConnectorsInv

\* A command that is past its decision goes on, or is done.
MovesTo(p, r) ==
    /\ at[p].pc # "idle"
    /\ r \in Process
    /\ at' = [at EXCEPT ![p] = r]
    /\ \/ r = Idle
       \/ /\ r.pc \in {"truncated", "written", "persisted", "cleared", "stubbed"}
          /\ r.kind = at[p].kind /\ r.entries = at[p].entries
          /\ r.list = at[p].list /\ r.shared = at[p].shared

\* Whatever it does to the files, this is as it was.
LEMMA MoveFrame ==
    ASSUME ConnectorsInv, NEW p \in Procs, NEW r, MovesTo(p, r)
    PROVE  /\ at' \in [Procs -> Process]
           /\ at'[p] = r
           /\ \A q \in Procs \ {p} : at'[q] = at[q]
           /\ \A q \in Procs : at'[q].pc \in Place /\ at'[q].list \in Lists /\ OneOwner(at'[q].list)
           /\ SecretsAreSources'
           /\ CompanyIsKnown'
           /\ \A q \in Active' : at'[q].kind = "sync" => config.state # "absent"
           /\ \A q \in Active' : q # p => at'[q].shared
           /\ ~at[p].shared => Active' \subseteq {p}
<1>1. /\ at' \in [Procs -> Process]
      /\ at'[p] = r
      /\ \A q \in Procs \ {p} : at'[q] = at[q]
  BY Put DEF ConnectorsInv, MovesTo
<1>2. /\ r.pc # "idle" => /\ r.kind = at[p].kind /\ r.entries = at[p].entries
                          /\ r.shared = at[p].shared
      /\ r.pc \notin {"begun", "planned"}
      /\ r.list = at[p].list \/ r.list = <<>>
  BY IdleIs DEF MovesTo
<1>3. Active' \subseteq Active /\ p \in Active
  BY <1>1 DEF Active, MovesTo
<1>4. \A q \in Procs : at'[q].pc \in Place /\ at'[q].list \in Lists /\ OneOwner(at'[q].list)
  <2>1. \A q \in Procs : at'[q].pc \in Place /\ at'[q].list \in Lists
    BY <1>1 DEF Process
  <2>2. \A q \in Procs : OneOwner(at'[q].list)
    BY <1>1, <1>2, IdleIs DEF ConnectorsInv, OneNamePerAttr
  <2>3. QED
    BY <2>1, <2>2
<1>5. SecretsAreSources'
  <2>1. ASSUME NEW q \in Procs
        PROVE  /\ SecretsOf(at'[q].list)
               /\ at'[q].pc = "planned" => at'[q].kind = "chat"
               /\ at'[q].pc \in {"begun", "planned"} =>
                     /\ at'[q].kind \in {"init", "add", "import", "chat"} =>
                           \A i \in DOMAIN at'[q].entries : Brings(at'[q].entries[i])
                     /\ at'[q].kind = "remove" => at'[q].entries # <<>>
    <3>1. CASE q = p
      BY <1>1, <1>2, <3>1, IdleIs DEF ConnectorsInv, SecretsAreSources
    <3>2. CASE q # p
      BY <1>1, <3>2 DEF ConnectorsInv, SecretsAreSources
    <3>3. QED
      BY <3>1, <3>2
  <2>2. QED
    BY <2>1 DEF SecretsAreSources, SecretsOf, Brings, BroughtIn
<1>6. CompanyIsKnown'
  BY <1>1, <1>2, <1>3 DEF ConnectorsInv, CompanyIsKnown, Active
<1>7. \A q \in Active' : at'[q].kind = "sync" => config.state # "absent"
  BY <1>1, <1>2, <1>3 DEF ConnectorsInv, FileIsHeld, Active
<1>8. /\ \A q \in Active' : q # p => at'[q].shared
      /\ ~at[p].shared => Active' \subseteq {p}
  BY <1>1, <1>3 DEF ConnectorsInv, CompanyIsKnown, Active
<1>9. QED
  BY <1>1, <1>4, <1>5, <1>6, <1>7, <1>8

\* A process at its next place.
Moved(p, pc) == [at[p] EXCEPT !.pc = pc]

LEMMA PlaceIsMove ==
    ASSUME AllTyped, NEW p \in Procs, at[p].pc # "idle", NEW pc,
           pc \in {"truncated", "written", "persisted", "cleared", "stubbed"},
           at' = [at EXCEPT ![p].pc = pc]
    PROVE  /\ MovesTo(p, Moved(p, pc))
           /\ Moved(p, pc).pc = pc /\ Moved(p, pc).kind = at[p].kind
           /\ Moved(p, pc).entries = at[p].entries /\ Moved(p, pc).list = at[p].list
           /\ Moved(p, pc).shared = at[p].shared /\ Moved(p, pc).up = at[p].up
<1> DEFINE r == Moved(p, pc)
<1>1. pc \in Place /\ at[p] \in Process
  BY DEF Place, AllTyped
<1>2. r \in Process
  BY <1>1, ProcessAt DEF Moved
<1>3. at' = [at EXCEPT ![p] = r]
  BY DEF AllTyped, Moved
<1>4. /\ r.pc = pc /\ r.kind = at[p].kind /\ r.entries = at[p].entries
      /\ r.list = at[p].list /\ r.shared = at[p].shared /\ r.up = at[p].up
  BY <1>1 DEF Process, Moved
<1> HIDE DEF r
<1>5. MovesTo(p, r)
  BY <1>2, <1>3, <1>4 DEF MovesTo
<1>6. QED
  BY <1>4, <1>5 DEF r

LEMMA TruncateKeeps ==
    ASSUME ConnectorsInv, NEW p \in Procs, Truncate(p)
    PROVE  ConnectorsInv'
<1>1. /\ at[p].pc = "decided"
      /\ config' = [state |-> "empty", list |-> <<>>]
      /\ at' = [at EXCEPT ![p].pc = "truncated"]
      /\ settled' = FALSE
      /\ table' = table /\ pyi' = pyi /\ ctx' = ctx /\ held' = held
  BY DEF Truncate
<1> DEFINE r == Moved(p, "truncated")
<1>2. /\ MovesTo(p, r) /\ r.pc = "truncated" /\ r.kind = at[p].kind
      /\ r.entries = at[p].entries /\ r.list = at[p].list /\ r.shared = at[p].shared
  BY <1>1, PlaceIsMove DEF ConnectorsInv
<1> HIDE DEF r
<1>3. /\ at' \in [Procs -> Process]
      /\ at'[p] = r
      /\ \A q \in Procs \ {p} : at'[q] = at[q]
      /\ \A q \in Procs : at'[q].pc \in Place /\ at'[q].list \in Lists /\ OneOwner(at'[q].list)
      /\ SecretsAreSources' /\ CompanyIsKnown'
      /\ \A q \in Active' : q # p => at'[q].shared
  BY <1>2, MoveFrame
<1>4. AllTyped'
  BY <1>1, <1>3, EmptyList DEF ConnectorsInv, AllTyped, Typed
<1>5. OneNamePerAttr'
  BY <1>1, <1>3, IdleIs DEF ConnectorsInv, OneNamePerAttr, OneOwner
<1>6. FileSecrets'
  BY <1>1, IdleIs DEF FileSecrets, SecretsOf, BroughtIn
<1>7. FileIsHeld'
  BY <1>1 DEF FileIsHeld
<1>8. DecidedKeeps'
  <2>1. \A q \in Active' : ~at'[q].shared => q = p
    BY <1>3
  <2>2. at[p].kind # "init" /\ ~at[p].shared => Keeps(Readable(held), at[p].list, at[p].entries)
    BY <1>1 DEF ConnectorsInv, DecidedKeeps, Active
  <2>3. QED
    BY <1>1, <1>2, <1>3, <2>1, <2>2 DEF DecidedKeeps, Keeps, Readable, Without, OnlyPlaceholders
<1>9. LoneProgress'
  <2>1. \A q \in Active' : ~at'[q].shared => q = p
    BY <1>3
  <2>2. QED
    BY <1>1, <1>2, <1>3, <2>1 DEF LoneProgress
<1>10. QuietHomeAgrees' /\ QuietIsQuiet'
  BY <1>1 DEF QuietHomeAgrees, QuietIsQuiet
<1>11. QED
  BY <1>3, <1>4, <1>5, <1>6, <1>7, <1>8, <1>9, <1>10 DEF ConnectorsInv

LEMMA WriteKeeps ==
    ASSUME ConnectorsInv, NEW p \in Procs, Write(p)
    PROVE  ConnectorsInv'
<1>1. /\ at[p].pc = "truncated"
      /\ \/ config' = [state |-> "whole", list |-> at[p].list] /\ held' = at[p].list
         \/ config' = [state |-> "mixed", list |-> <<>>] /\ held' = held
      /\ ~at[p].shared => config' = [state |-> "whole", list |-> at[p].list]
      /\ at' = [at EXCEPT ![p].pc = "written"]
      /\ table' = table /\ pyi' = pyi /\ ctx' = ctx /\ settled' = settled
  BY DEF Write, ConnectorsInv, LoneProgress, Active
<1> DEFINE r == Moved(p, "written")
<1>2. /\ MovesTo(p, r) /\ r.pc = "written" /\ r.kind = at[p].kind
      /\ r.entries = at[p].entries /\ r.list = at[p].list /\ r.shared = at[p].shared
  BY <1>1, PlaceIsMove DEF ConnectorsInv
<1> HIDE DEF r
<1>3. /\ at' \in [Procs -> Process]
      /\ at'[p] = r
      /\ \A q \in Procs : at'[q].pc \in Place /\ at'[q].list \in Lists /\ OneOwner(at'[q].list)
      /\ SecretsAreSources' /\ CompanyIsKnown'
      /\ \A q \in Active' : q # p => at'[q].shared
  BY <1>2, MoveFrame
<1>4. at[p].list \in Lists /\ OneOwner(at[p].list) /\ SecretsOf(at[p].list)
  BY DEF ConnectorsInv, AllTyped, Typed, OneNamePerAttr, SecretsAreSources
<1>5. AllTyped'
  BY <1>1, <1>3, <1>4, EmptyList DEF ConnectorsInv, AllTyped, Typed
<1>6. OneNamePerAttr'
  BY <1>1, <1>3, <1>4, EmptyList DEF ConnectorsInv, OneNamePerAttr, OneOwner
<1>7. FileSecrets'
  BY <1>1, <1>4, EmptyList DEF FileSecrets, SecretsOf, BroughtIn
<1>8. FileIsHeld'
  BY <1>1 DEF FileIsHeld
<1>9. \A q \in Active' : ~at'[q].shared => q = p
  BY <1>3
<1>10. DecidedKeeps'
  BY <1>2, <1>3, <1>9 DEF DecidedKeeps
<1>11. LoneProgress'
  BY <1>1, <1>2, <1>3, <1>9 DEF LoneProgress, Agreed, Readable, Without
<1>12. ~settled
  BY <1>1 DEF ConnectorsInv, QuietIsQuiet
<1>13. QuietHomeAgrees' /\ QuietIsQuiet'
  BY <1>1, <1>12 DEF QuietHomeAgrees, QuietIsQuiet
<1>14. QED
  BY <1>3, <1>5, <1>6, <1>7, <1>8, <1>10, <1>11, <1>13 DEF ConnectorsInv

LEMMA PersistKeeps ==
    ASSUME ConnectorsInv, NEW p \in Procs, Persist(p)
    PROVE  ConnectorsInv'
<1> DEFINE list == at[p].list
<1>1. PICK up \in SUBSET DOMAIN list :
        /\ table' = [n \in DOMAIN list |-> [cred |-> list[n], tools |-> n \in up]]
        /\ at' = [at EXCEPT ![p].pc = "persisted", ![p].up = {Attr[n] : n \in up}]
  BY DEF Persist
<1>2. /\ at[p].pc = "written"
      /\ settled' = FALSE
      /\ config' = config /\ pyi' = pyi /\ ctx' = ctx /\ held' = held
  BY DEF Persist
<1>3. AllTyped /\ at[p] \in Process /\ list \in Lists /\ OneOwner(list)
  BY DEF ConnectorsInv, AllTyped, Typed, OneNamePerAttr
<1>4. /\ DOMAIN list \in SUBSET Names
      /\ \A n \in DOMAIN list : list[n] \in Credential
  BY <1>3, ListIs
<1> DEFINE r == [at[p] EXCEPT !.pc = "persisted", !.up = {Attr[n] : n \in up}]
<1>5. /\ r \in Process
      /\ r.pc = "persisted" /\ r.kind = at[p].kind /\ r.entries = at[p].entries
      /\ r.list = list /\ r.shared = at[p].shared /\ r.up = {Attr[n] : n \in up}
  <2>1. {Attr[n] : n \in up} \in SUBSET Attrs
    BY <1>4 DEF Attrs
  <2>2. "persisted" \in Place
    BY DEF Place
  <2>3. QED
    BY <1>3, <2>1, <2>2 DEF Process
<1>6. at' = [at EXCEPT ![p] = r]
  BY <1>1, <1>3 DEF AllTyped
<1> HIDE DEF list, r
<1>7. MovesTo(p, r)
  BY <1>2, <1>5, <1>6 DEF MovesTo, list
<1>8. /\ at' \in [Procs -> Process]
      /\ at'[p] = r
      /\ \A q \in Procs : at'[q].pc \in Place /\ at'[q].list \in Lists /\ OneOwner(at'[q].list)
      /\ SecretsAreSources' /\ CompanyIsKnown'
      /\ \A q \in Active' : at'[q].kind = "sync" => config.state # "absent"
      /\ \A q \in Active' : q # p => at'[q].shared
  BY <1>7, MoveFrame
<1>9. /\ DOMAIN table' = DOMAIN list
      /\ \A n \in DOMAIN list : table'[n].cred = list[n] /\ table'[n].tools = (n \in up)
  BY <1>1
<1>10. table' \in Rows
  <2>1. \A n \in DOMAIN list :
          [cred |-> list[n], tools |-> n \in up] \in [cred : Credential, tools : BOOLEAN]
    BY <1>4
  <2>2. table' \in [DOMAIN list -> [cred : Credential, tools : BOOLEAN]]
    BY <1>1, <2>1
  <2>3. QED
    BY <1>4, <2>2 DEF Rows
<1>11. AllTyped'
  BY <1>2, <1>8, <1>10 DEF ConnectorsInv, AllTyped, Typed
<1>12. OneNamePerAttr'
  <2>1. OneOwner(table')
    BY <1>3, <1>9 DEF OneOwner
  <2>2. QED
    BY <1>2, <1>8, <2>1 DEF ConnectorsInv, OneNamePerAttr, OneOwner
<1>13. FileSecrets'
  BY <1>2 DEF ConnectorsInv, FileSecrets, SecretsOf, BroughtIn
<1>14. FileIsHeld'
  BY <1>2, <1>8 DEF ConnectorsInv, FileIsHeld
<1>15. \A q \in Active' : ~at'[q].shared => q = p
  BY <1>8
<1>16. DecidedKeeps'
  BY <1>5, <1>8, <1>15 DEF DecidedKeeps
<1>17. LoneProgress'
  <2>1. {Attr[n] : n \in up} = {Attr[n] : n \in {m \in DOMAIN table' : table'[m].tools}}
    BY <1>1, <1>9
  <2>2. r.up = Tooled'
    BY <1>5, <2>1 DEF Tooled
  <2>3. ~at[p].shared => Agreed(list)
    BY <1>2 DEF ConnectorsInv, LoneProgress, Active, list
  <2>4. /\ ~at[p].shared => config'.state = "whole" /\ Readable(config.list)' = Readable(list)
        /\ DOMAIN table' = DOMAIN list
        /\ \A n \in DOMAIN list : table'[n].cred = list[n]
    BY <1>2, <1>9, <2>3 DEF Agreed, Readable, Without
  <2>5. ~at'[p].shared => /\ config'.state = "whole"
                          /\ Readable(config.list)' = Readable(at'[p].list)
                          /\ DOMAIN table' = DOMAIN at'[p].list
                          /\ \A n \in DOMAIN at'[p].list : table'[n].cred = at'[p].list[n]
                          /\ at'[p].up = Tooled'
    BY <1>5, <1>8, <2>2, <2>4
  <2>6. at'[p].pc = "persisted"
    BY <1>5, <1>8
  <2>7. QED
    BY <1>15, <2>5, <2>6 DEF LoneProgress, Agreed, Tabled, Readable, Without
<1>18. QuietHomeAgrees' /\ QuietIsQuiet'
  BY <1>2 DEF QuietHomeAgrees, QuietIsQuiet
<1>19. QED
  BY <1>8, <1>11, <1>12, <1>13, <1>14, <1>16, <1>17, <1>18 DEF ConnectorsInv

\* The stubs are cleared and written: by then the home is not called quiet.
LEMMA StubsKeep ==
    ASSUME ConnectorsInv, NEW p \in Procs, NEW pc,
           \/ ClearStubs(p) /\ pc = "cleared"
           \/ WriteStubs(p) /\ pc = "stubbed"
    PROVE  ConnectorsInv'
<1>1. /\ at[p].pc \in {"persisted", "cleared"}
      /\ at' = [at EXCEPT ![p].pc = pc]
      /\ config' = config /\ table' = table /\ ctx' = ctx
      /\ held' = held /\ settled' = settled
      /\ pc = "cleared" => pyi' = {}
      /\ pc = "stubbed" => pyi' = pyi \cup at[p].up /\ at[p].pc = "cleared"
      /\ pc \in {"cleared", "stubbed"}
  BY DEF ClearStubs, WriteStubs
<1>2. AllTyped /\ at[p] \in Process
  BY DEF ConnectorsInv, AllTyped
<1> DEFINE r == Moved(p, pc)
<1>3. /\ MovesTo(p, r) /\ r.pc = pc
      /\ r.list = at[p].list /\ r.shared = at[p].shared /\ r.up = at[p].up
  <2>1. at[p].pc # "idle"
    BY <1>1
  <2>2. pc \in {"truncated", "written", "persisted", "cleared", "stubbed"}
    BY <1>1
  <2>3. at' = [at EXCEPT ![p].pc = pc]
    BY <1>1
  <2>4. QED
    BY <1>2, <2>1, <2>2, <2>3, PlaceIsMove
<1> HIDE DEF r
<1>4. /\ at' \in [Procs -> Process]
      /\ at'[p] = r
      /\ \A q \in Procs : at'[q].pc \in Place /\ at'[q].list \in Lists /\ OneOwner(at'[q].list)
      /\ SecretsAreSources' /\ CompanyIsKnown'
      /\ \A q \in Active' : at'[q].kind = "sync" => config.state # "absent"
      /\ \A q \in Active' : q # p => at'[q].shared
  BY <1>3, MoveFrame
<1>5. AllTyped'
  <2>1. at[p].up \subseteq Attrs /\ pyi \subseteq Attrs
    BY <1>2 DEF Process, AllTyped, Typed
  <2>2. pyi' \subseteq Attrs
    BY <1>1, <2>1
  <2>3. QED
    BY <1>1, <1>2, <1>4, <2>2 DEF AllTyped, Typed
<1>6. OneNamePerAttr'
  BY <1>1, <1>4 DEF ConnectorsInv, OneNamePerAttr, OneOwner
<1>7. FileSecrets'
  BY <1>1 DEF ConnectorsInv, FileSecrets, SecretsOf, BroughtIn
<1>8. FileIsHeld'
  BY <1>1, <1>4 DEF ConnectorsInv, FileIsHeld
<1>9. \A q \in Active' : ~at'[q].shared => q = p
  BY <1>4
<1>10. DecidedKeeps'
  BY <1>1, <1>3, <1>4, <1>9 DEF DecidedKeeps
<1>11. LoneProgress'
  <2>1. ~at[p].shared =>
          /\ Agreed(at[p].list) /\ Tabled(at[p].list) /\ at[p].up = Tooled
          /\ at[p].pc = "cleared" => pyi = {}
    BY <1>1 DEF ConnectorsInv, LoneProgress, Active
  <2>2. ~at[p].shared =>
          /\ Agreed(at[p].list) /\ Tabled(at[p].list) /\ at[p].up = Tooled
          /\ pc = "cleared" => pyi' = {}
          /\ pc = "stubbed" => pyi' = at[p].up
    BY <1>1, <2>1
  <2>3. ~at'[p].shared =>
          /\ config'.state = "whole" /\ Readable(config.list)' = Readable(at'[p].list)
          /\ DOMAIN table' = DOMAIN at'[p].list
          /\ \A n \in DOMAIN at'[p].list : table'[n].cred = at'[p].list[n]
          /\ at'[p].up = Tooled'
          /\ at'[p].pc = "cleared" => pyi' = {}
          /\ at'[p].pc = "stubbed" => pyi' = at'[p].up
    BY <1>1, <1>3, <1>4, <2>2 DEF Agreed, Tabled, Tooled, Readable, Without
  <2>4. at'[p].pc # "truncated"
    BY <1>1, <1>3, <1>4
  <2>5. QED
    BY <1>9, <2>3, <2>4 DEF LoneProgress, Agreed, Tabled, Readable, Without
<1>12. ~settled
  BY <1>1 DEF ConnectorsInv, QuietIsQuiet
<1>13. QuietHomeAgrees' /\ QuietIsQuiet'
  BY <1>1, <1>12 DEF QuietHomeAgrees, QuietIsQuiet
<1>14. QED
  BY <1>4, <1>5, <1>6, <1>7, <1>8, <1>10, <1>11, <1>13 DEF ConnectorsInv

LEMMA WriteCtxKeeps ==
    ASSUME ConnectorsInv, NEW p \in Procs, WriteCtx(p)
    PROVE  ConnectorsInv'
<1>1. /\ at[p].pc = "stubbed"
      /\ ctx' = at[p].up
      /\ settled' = ~at[p].shared
      /\ at' = [at EXCEPT ![p] = Idle]
      /\ config' = config /\ table' = table /\ pyi' = pyi /\ held' = held
  BY DEF WriteCtx, End
<1>2. AllTyped /\ at[p] \in Process
  BY DEF ConnectorsInv, AllTyped
<1>3. MovesTo(p, Idle)
  BY <1>1, IdleIs DEF MovesTo
<1>4. /\ at' \in [Procs -> Process]
      /\ at'[p] = Idle
      /\ \A q \in Procs : at'[q].pc \in Place /\ at'[q].list \in Lists /\ OneOwner(at'[q].list)
      /\ SecretsAreSources' /\ CompanyIsKnown'
      /\ \A q \in Active' : at'[q].kind = "sync" => config.state # "absent"
      /\ \A q \in Active' : q # p => at'[q].shared
      /\ ~at[p].shared => Active' \subseteq {p}
  BY <1>3, MoveFrame
<1>5. p \notin Active'
  BY <1>4, IdleIs DEF Active
<1>6. AllTyped'
  <2>1. at[p].up \subseteq Attrs /\ at[p].shared \in BOOLEAN
    BY <1>2 DEF Process
  <2>2. QED
    BY <1>1, <1>2, <1>4, <2>1 DEF AllTyped, Typed
<1>7. OneNamePerAttr'
  BY <1>1, <1>4 DEF ConnectorsInv, OneNamePerAttr, OneOwner
<1>8. FileSecrets'
  BY <1>1 DEF ConnectorsInv, FileSecrets, SecretsOf, BroughtIn
<1>9. FileIsHeld'
  BY <1>1, <1>4 DEF ConnectorsInv, FileIsHeld
<1>10. DecidedKeeps' /\ LoneProgress'
  <2>1. \A q \in Active' : at'[q].shared
    BY <1>4, <1>5
  <2>2. QED
    BY <2>1 DEF DecidedKeeps, LoneProgress
<1>11. QuietHomeAgrees'
  <2>1. ~at[p].shared =>
          /\ Agreed(at[p].list) /\ Tabled(at[p].list) /\ at[p].up = Tooled /\ pyi = at[p].up
    BY <1>1 DEF ConnectorsInv, LoneProgress, Active
  <2>2. ASSUME ~at[p].shared
        PROVE  /\ config.state = "whole"
               /\ DOMAIN Readable(config.list) = DOMAIN table \ Reserved
               /\ \A n \in DOMAIN table \ Reserved : table[n].cred = config.list[n]
               /\ pyi = Tooled /\ at[p].up = Tooled
    <3>1. /\ config.state = "whole" /\ Readable(config.list) = Readable(at[p].list)
          /\ DOMAIN table = DOMAIN at[p].list
          /\ \A n \in DOMAIN at[p].list : table[n].cred = at[p].list[n]
      BY <2>1, <2>2 DEF Agreed, Tabled
    <3>2. at[p].list \in Lists /\ config.list \in Lists
      BY <1>2 DEF AllTyped, Typed
    <3>3. /\ DOMAIN Readable(at[p].list) = DOMAIN at[p].list \ Reserved
          /\ \A n \in DOMAIN at[p].list \ Reserved : Readable(at[p].list)[n] = at[p].list[n]
          /\ DOMAIN Readable(config.list) = DOMAIN config.list \ Reserved
          /\ \A n \in DOMAIN config.list \ Reserved : Readable(config.list)[n] = config.list[n]
      BY <3>2, WithoutLists DEF Readable
    <3>4. \A n \in DOMAIN table \ Reserved : table[n].cred = config.list[n]
      BY <3>1, <3>3
    <3>5. QED
      BY <2>1, <2>2, <3>1, <3>3, <3>4
  <2>3. QED
    BY <1>1, <2>2 DEF QuietHomeAgrees, Tooled, Readable, Without
<1>12. QuietIsQuiet'
  <2>1. settled' => Active' = {}
    BY <1>1, <1>4, <1>5
  <2>2. Active' = {} => \A q \in Procs : at'[q].pc = "idle"
    BY DEF Active
  <2>3. QED
    BY <2>1, <2>2 DEF QuietIsQuiet
<1>13. QED
  BY <1>4, <1>6, <1>7, <1>8, <1>9, <1>10, <1>11, <1>12 DEF ConnectorsInv

\* A step that changes nothing.
LEMMA StutterKeeps ==
    ASSUME ConnectorsInv, UNCHANGED vars
    PROVE  ConnectorsInv'
<1>1. /\ config' = config /\ table' = table /\ pyi' = pyi /\ ctx' = ctx
      /\ at' = at /\ held' = held /\ settled' = settled
  BY DEF vars
<1>2. AllTyped' /\ OneNamePerAttr' /\ FileSecrets'
  BY <1>1 DEF ConnectorsInv, AllTyped, Typed, OneNamePerAttr, OneOwner, FileSecrets
<1>3. SecretsAreSources'
  BY <1>1 DEF ConnectorsInv, SecretsAreSources, SecretsOf, Brings, BroughtIn
<1>4. CompanyIsKnown' /\ FileIsHeld'
  BY <1>1 DEF ConnectorsInv, CompanyIsKnown, FileIsHeld, Active
<1>5. DecidedKeeps'
  BY <1>1 DEF ConnectorsInv, DecidedKeeps, Active, Keeps, Readable, Without, OnlyPlaceholders
<1>6. LoneProgress'
  BY <1>1 DEF ConnectorsInv, LoneProgress, Active, Agreed, Tabled, Tooled, Readable, Without
<1>7. QuietHomeAgrees' /\ QuietIsQuiet'
  BY <1>1 DEF ConnectorsInv, QuietHomeAgrees, QuietIsQuiet, Tooled, Readable, Without
<1>8. QED
  BY <1>2, <1>3, <1>4, <1>5, <1>6, <1>7 DEF ConnectorsInv

LEMMA ConnectorsInductive ==
    ASSUME ConnectorsInv, [Next]_vars
    PROVE  ConnectorsInv'
<1>1. ASSUME NEW p \in Procs,
             \/ GiveInit(p) \/ GiveAdd(p)    \/ GiveImport(p)
             \/ GiveChat(p) \/ GiveRemove(p) \/ GiveSync(p)
      PROVE  ConnectorsInv'
  BY <1>1, GivenSteps, GivenKeeps
<1>2. ASSUME NEW p \in Procs,
             \/ Import(p) \/ Plan(p) \/ Add(p) \/ Remove(p) \/ Sync(p) \/ Refuse(p) \/ Kill(p)
      PROVE  ConnectorsInv'
  BY <1>2, MemorySteps, MemoryKeeps
<1>3. ASSUME NEW p \in Procs, FileStep(p)
      PROVE  ConnectorsInv'
  BY <1>3, TruncateKeeps, WriteKeeps, PersistKeeps, StubsKeep, WriteCtxKeeps DEF FileStep
<1>4. ASSUME Next
      PROVE  ConnectorsInv'
  BY <1>1, <1>2, <1>3, <1>4 DEF Next, FileStep
<1>5. QED
  BY <1>4, StutterKeeps

-----------------------------------------------------------------------------
(* What holds of every behaviour *)

\* The invariant of the connectors, for any processes, names and commands.
THEOREM ConnectorsInvariant == Spec => []ConnectorsInv
<1>1. Init => ConnectorsInv
  BY InitHolds
<1>2. ConnectorsInv /\ [Next]_vars => ConnectorsInv'
  BY ConnectorsInductive
<1>3. QED
  BY <1>1, <1>2, PTL DEF Spec

\* The invariant says all of FileIsSound.
LEMMA SoundIs == ConnectorsInv => FileIsSound
<1> SUFFICES ASSUME ConnectorsInv PROVE FileIsSound
  OBVIOUS
<1>1. \A f \in Lists : ByName(f, Credential)
  BY ListIs DEF ByName
<1>2. ByName(table, [cred : Credential, tools : BOOLEAN])
  BY DEF ConnectorsInv, AllTyped, Typed, Rows, ByName
<1>3. TypeOK
  BY <1>1, <1>2 DEF ConnectorsInv, AllTyped, Typed, TypeOK
<1>4. SecretsStayOut
  BY DEF ConnectorsInv, FileSecrets, SecretsAreSources, SecretsOf, SecretsStayOut
<1>5. QED
  BY <1>3, <1>4 DEF ConnectorsInv, FileIsSound

\* The list of connectors, in the file or on its way there, is always fit to be read, to
\* be put in the table and to be shown: one name to an attribute (connect_cmd.py:135-148,
\* config.py:240), and no literal but where it was given, in a slot that check_headers or
\* check_env knows only by a source of an init (connect_cmd.py:70-91, 355-375).
THEOREM TheFileIsSound == Spec => []FileIsSound
BY SoundIs, ConnectorsInvariant, PTL

\* After a command that ran alone the file, the table and the stubs agree,
\* whatever was torn before it (connect_cmd.py:195-208, init_cmd.py:132-205).
THEOREM AQuietHomeAgrees == Spec => []QuietHomeAgrees
<1>1. ConnectorsInv => QuietHomeAgrees
  BY DEF ConnectorsInv
<1>2. QED
  BY <1>1, ConnectorsInvariant, PTL

\* What a command that is alone writes keeps what the file held last.
LEMMA WhatIsWritten ==
    ASSUME ConnectorsInv, NEW p \in Procs, Write(p), at[p].kind # "init", ~at[p].shared
    PROVE  Keeps(Readable(held), held', at[p].entries)
<1>1. at[p].pc = "truncated" /\ held' = at[p].list
  BY DEF Write, ConnectorsInv, LoneProgress, Active
<1>2. Keeps(Readable(held), at[p].list, at[p].entries)
  BY <1>1 DEF ConnectorsInv, DecidedKeeps, Active
<1>3. QED
  BY <1>1, <1>2

\* No command that is alone, but an init, takes a connector it did not name from
\* the file, or changes it (connect_cmd.py:211-241).
THEOREM NothingIsDropped == Spec => NothingSilentlyDropped
<1> DEFINE Kept(p) ==
        Write(p) /\ at[p].kind # "init" /\ ~at[p].shared =>
            LET touched == {at[p].entries[i].name : i \in DOMAIN at[p].entries}
            IN  \A n \in DOMAIN Readable(held) \ touched :
                    n \in DOMAIN held' /\ held'[n] = held[n]
<1>1. ASSUME ConnectorsInv, NEW p \in Procs
      PROVE  Kept(p)
  <2>1. Readable(held) = [n \in DOMAIN held \ Reserved |-> held[n]]
    BY DEF Readable, Without
  <2>2. QED
    BY <1>1, <2>1, WhatIsWritten DEF Keeps
<1>2. ConnectorsInv => [\A p \in Procs : Kept(p)]_vars
  BY <1>1
<1>3. QED
  BY <1>2, ConnectorsInvariant, PTL DEF NothingSilentlyDropped

\* Nor does it replace a header that works where it brings only placeholders in the
\* same spelling (connect_cmd.py:108-122).
THEOREM WorkingCredentialsSurvive == Spec => WorkingCredentialSurvives
<1> DEFINE Kept(p, n, s) ==
          /\ Write(p) /\ at[p].kind # "init" /\ ~at[p].shared
          /\ n \in DOMAIN Readable(held) /\ n \in DOMAIN held'
          /\ held[n][s] \in Working
          /\ \A i \in DOMAIN at[p].entries :
                at[p].entries[i].name = n => at[p].entries[i].cred[s] = "generated"
          => held'[n][s] = held[n][s]
<1>1. ASSUME ConnectorsInv, NEW p \in Procs, NEW n \in Names, NEW s \in Headers
      PROVE  Kept(p, n, s)
  <2>1. Readable(held) = [m \in DOMAIN held \ Reserved |-> held[m]]
    BY DEF Readable, Without
  <2>2. QED
    BY <1>1, <2>1, WhatIsWritten DEF Keeps, OnlyPlaceholders
<1>2. ConnectorsInv => [\A p \in Procs, n \in Names, s \in Headers : Kept(p, n, s)]_vars
  BY <1>1
<1>3. QED
  BY <1>2, ConnectorsInvariant, PTL DEF WorkingCredentialSurvives

=============================================================================
