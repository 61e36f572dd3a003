--------------------------- MODULE WebFormsProofs ---------------------------
(* The forms of the web page.  The import of servers stores what its       *)
(* preview showed and the user decided, whatever the files and the lists.  *)
(* The configuration form shows the configuration, or edits that are       *)
(* marked and on the screen, and nothing else takes them away.             *)
EXTENDS WebConfig, ServerImport, FiniteSetTheorems, WellFoundedInduction, TLAPS

-----------------------------------------------------------------------------
(* A list is imported row by row.                                          *)

\* Every set of numbers has a least one: what a recursive function computes is proved by
\* looking at the first number where it would not.
LEMMA LeastNumber ==
    ASSUME NEW T \in SUBSET Nat, T # {}
    PROVE  \E n \in T : \A m \in T : n <= m
<1> DEFINE Less == OpToRel(<, Nat)
<1>1. IsWellFoundedOn(Less, Nat)
    BY NatLessThanWellFounded
<1>2. \A m, n \in Nat : <<m, n>> \in Less <=> m < n
    BY DEF OpToRel
<1> HIDE DEF Less
<1>3. PICK n \in T : \A m \in T : ~(<<m, n>> \in Less)
    BY <1>1, WFMin
<1>4. ASSUME NEW m \in T  PROVE n <= m
    <2>1. m \in Nat /\ n \in Nat
        OBVIOUS
    <2>2. ~(m < n)
        BY <1>2, <1>3, <2>1
    <2> QED BY <2>1, <2>2
<1> QED BY <1>4

\* The recursion of Progress is that of a function.
Begin(L, last) == [list |-> L, last |-> last, failed |-> FALSE]

\* The steps up to row n.
StepsTo(f, L, last, csv, dec, n) ==
    f = [i \in 0..n |-> IF i = 0 THEN Begin(L, last) ELSE ImportRow(f[i - 1], csv, dec, i)]

LEMMA StepsExist ==
    ASSUME NEW L, NEW last, NEW csv, NEW dec, NEW n \in Nat
    PROVE  \E f : StepsTo(f, L, last, csv, dec, n)
<1> DEFINE T == {k \in Nat : ~ \E f : StepsTo(f, L, last, csv, dec, k)}
<1> SUFFICES ASSUME T # {} PROVE FALSE
    OBVIOUS
<1>1. PICK k \in T : \A m \in T : k <= m
    BY LeastNumber
<1>2. CASE k = 0
    <2> DEFINE f == [i \in 0..0 |-> Begin(L, last)]
    <2>1. StepsTo(f, L, last, csv, dec, 0)
        BY DEF StepsTo
    <2> HIDE DEF f
    <2> QED BY <1>1, <1>2, <2>1
<1>3. CASE k # 0
    <2>1. k - 1 \in Nat /\ k - 1 \notin T /\ k \in Nat
        BY <1>1, <1>3
    <2>2. PICK g : StepsTo(g, L, last, csv, dec, k - 1)
        BY <2>1
    <2> DEFINE f == [i \in 0..k |-> IF i = k THEN ImportRow(g[k - 1], csv, dec, k) ELSE g[i]]
    <2>3. ASSUME NEW i \in 0..k
          PROVE  f[i] = IF i = 0 THEN Begin(L, last) ELSE ImportRow(f[i - 1], csv, dec, i)
        <3>1. CASE i = k
            BY <1>3, <2>1, <3>1
        <3>2. CASE i # k
            <4>1. i \in 0..(k - 1) /\ (i # 0 => i - 1 \in 0..(k - 1) /\ i - 1 # k)
                BY <2>1, <3>2
            <4>2. g[i] = IF i = 0 THEN Begin(L, last) ELSE ImportRow(g[i - 1], csv, dec, i)
                BY <2>2, <4>1 DEF StepsTo
            <4>3. f[i] = g[i] /\ (i # 0 => f[i - 1] = g[i - 1])
                BY <2>1, <3>2, <4>1
            <4> HIDE DEF f
            <4> QED BY <4>2, <4>3
        <3> QED BY <3>1, <3>2
    <2>4. f = [i \in 0..k |-> f[i]]
        OBVIOUS
    <2> HIDE DEF f
    <2>5. StepsTo(f, L, last, csv, dec, k)
        BY <2>3, <2>4 DEF StepsTo
    <2> QED BY <1>1, <2>5
<1> QED BY <1>2, <1>3

LEMMA ProgressIs ==
    ASSUME NEW L, NEW last, NEW csv, NEW dec, Len(csv) \in Nat
    PROVE  /\ Progress(L, last, csv, dec)[0] = Begin(L, last)
           /\ \A i \in 1..Len(csv) :
                 Progress(L, last, csv, dec)[i]
                     = ImportRow(Progress(L, last, csv, dec)[i - 1], csv, dec, i)
<1> DEFINE n == Len(csv)
           h == CHOOSE f : f = [i \in 0..n |-> IF i = 0 THEN [list |-> L, last |-> last, failed |-> FALSE]
                                               ELSE ImportRow(f[i - 1], csv, dec, i)]
<1>1. \E f : f = [i \in 0..n |-> IF i = 0 THEN [list |-> L, last |-> last, failed |-> FALSE]
                                 ELSE ImportRow(f[i - 1], csv, dec, i)]
    <2>1. PICK f : StepsTo(f, L, last, csv, dec, n)
        BY StepsExist
    <2> QED BY <2>1 DEF StepsTo, Begin
<1>2. h = [i \in 0..n |-> IF i = 0 THEN [list |-> L, last |-> last, failed |-> FALSE]
                          ELSE ImportRow(h[i - 1], csv, dec, i)]
    BY <1>1
<1>3. Progress(L, last, csv, dec) = h
    BY DEF Progress
<1> HIDE DEF h
<1>4. h[0] = Begin(L, last)
    BY <1>2 DEF Begin
<1>5. ASSUME NEW i \in 1..n  PROVE h[i] = ImportRow(h[i - 1], csv, dec, i)
    <2>1. i \in 0..n /\ i # 0
        OBVIOUS
    <2> QED BY <1>2, <2>1
<1> QED BY <1>3, <1>4, <1>5

\* The rows of an address up to row n that are not skipped.
Taken(csv, dec, n, k) ==
    {i \in 1..n : csv[i].key = k /\ (i \in DOMAIN dec => dec[i] = "overwrite")}

\* The decisions are about the conflicts of a file without errors.
Decided(L, csv, dec) ==
    /\ L \in Lists /\ csv \in Files /\ ~HasErrors(L, csv)
    /\ DOMAIN dec = Conflicts(L, csv) /\ \A i \in DOMAIN dec : dec[i] \in RowActions

\* What is known of an address after n rows: nothing new, or what its last row says.
AddressDone(L, now, csv, dec, n, k) ==
    IF Taken(csv, dec, n, k) = {} THEN Matches(now, k) = Matches(L, k)
    ELSE \E s \in Servers, i \in Taken(csv, dec, n, k) :
            /\ Matches(now, k) = {s} /\ s.content = csv[i].content
            /\ \A j \in Taken(csv, dec, n, k) : j <= i
            /\ {t.id : t \in Matches(L, k)} \subseteq {s.id}

\* What a row leaves.
Accs == [list: Lists, last: Nat, failed: BOOLEAN]

\* And the rows before have an address each that is known by now.
RowsDone(acc, L, csv, dec, n) ==
    /\ acc \in Accs /\ ~acc.failed
    /\ \A k \in Keys : AddressDone(L, acc.list, csv, dec, n, k)
    /\ \A i \in 1..n : Matches(acc.list, csv[i].key) # {}

LEMMA FileIs ==
    ASSUME NEW csv \in Files
    PROVE  /\ Len(csv) \in Nat /\ DOMAIN csv = 1..Len(csv)
           /\ \A i \in 1..Len(csv) : csv[i].key \in Keys \cup {BadKey} /\ csv[i].content \in Contents
<1>1. csv \in Seq(CSVRows)
    BY FilesAssumption
<1>2. Len(csv) \in Nat /\ DOMAIN csv = 1..Len(csv) /\ \A i \in 1..Len(csv) : csv[i] \in CSVRows
    BY <1>1
<1> QED BY <1>2 DEF CSVRows

\* A row without an error is about one server or none.
LEMMA FewMatches ==
    ASSUME NEW L \in Lists, NEW k, ~(Cardinality(Matches(L, k)) > 1)
    PROVE  Matches(L, k) = {} \/ (Cardinality(Matches(L, k)) = 1 /\ \E s \in L : Matches(L, k) = {s})
<1>1. Matches(L, k) \subseteq L /\ IsFiniteSet(Matches(L, k))
    BY FS_Subset DEF Matches, Lists
<1>2. Cardinality(Matches(L, k)) \in Nat /\ (Cardinality(Matches(L, k)) = 0 <=> Matches(L, k) = {})
    BY <1>1, FS_CardinalityType, FS_EmptySet
<1>3. CASE Cardinality(Matches(L, k)) = 1
    <2>1. PICK s : Matches(L, k) = {s}
        BY <1>1, <1>3, FS_Singleton
    <2> QED BY <1>1, <1>3, <2>1
<1> QED BY <1>2, <1>3

LEMMA ServerAdded ==
    ASSUME NEW L \in Lists, NEW s \in Servers
    PROVE  /\ L \cup {s} \in Lists
           /\ Matches(L \cup {s}, s.key) = Matches(L, s.key) \cup {s}
           /\ \A k : k # s.key => Matches(L \cup {s}, k) = Matches(L, k)
BY FS_AddElement DEF Lists, Matches

LEMMA ServerChanged ==
    ASSUME NEW L \in Lists, NEW s \in L, NEW new \in Servers, new.key = s.key
    PROVE  /\ (L \ {s}) \cup {new} \in Lists
           /\ Matches(L, s.key) = {s} => Matches((L \ {s}) \cup {new}, s.key) = {new}
           /\ \A k : k # s.key => Matches((L \ {s}) \cup {new}, k) = Matches(L, k)
<1>1. L \ {s} \in Lists
    BY FS_RemoveElement, FS_Subset DEF Lists
<1>2. (L \ {s}) \cup {new} \in Lists
    BY <1>1, ServerAdded
<1>3. Matches(L, s.key) = {s} => Matches((L \ {s}) \cup {new}, s.key) = {new}
    BY DEF Matches
<1>4. \A k : k # s.key => Matches((L \ {s}) \cup {new}, k) = Matches(L, k)
    BY DEF Matches
<1> QED BY <1>2, <1>3, <1>4

\* A step of the import has the type of one.
LEMMA AccIs ==
    ASSUME NEW acc \in Accs, ~acc.failed, NEW now \in Lists, NEW n \in Nat
    PROVE  /\ [acc EXCEPT !.last = n, !.list = now] \in Accs
           /\ [acc EXCEPT !.last = n, !.list = now].list = now
           /\ ~[acc EXCEPT !.last = n, !.list = now].failed
<1> DEFINE A == Lists
<1>1. now \in A /\ acc \in [list: A, last: Nat, failed: BOOLEAN]
    BY DEF Accs
<1> HIDE DEF A
<1> DEFINE new == [acc EXCEPT !.last = n, !.list = now]
<1>2. new \in [list: A, last: Nat, failed: BOOLEAN] /\ new.list = now /\ ~new.failed
    BY <1>1
<1> QED BY <1>2 DEF A, Accs

\* A row that has to be decided about finds its server, and no other row does.
LEMMA RowFinds ==
    ASSUME NEW L, NEW csv, NEW dec, Decided(L, csv, dec), NEW n \in 1..Len(csv),
           NEW acc, RowsDone(acc, L, csv, dec, n - 1)
    PROVE  LET key == csv[n].key
           IN  /\ key \in Keys
               /\ n \in DOMAIN dec => \E s \in acc.list : Matches(acc.list, key) = {s}
               /\ n \notin DOMAIN dec => /\ Matches(acc.list, key) = {} /\ Matches(L, key) = {}
                                         /\ Taken(csv, dec, n - 1, key) = {}
<1> DEFINE key == csv[n].key
<1>0. /\ L \in Lists /\ csv \in Files /\ Len(csv) \in Nat /\ DOMAIN csv = 1..Len(csv)
      /\ acc.list \in Lists /\ DOMAIN dec = Conflicts(L, csv)
    BY FileIs DEF Decided, RowsDone, Accs
<1>1. key # BadKey /\ ~(Cardinality(Matches(L, key)) > 1)
    BY <1>0 DEF Decided, HasErrors, RowError
<1>2. key \in Keys
    BY <1>0, <1>1, FileIs
<1>3. AddressDone(L, acc.list, csv, dec, n - 1, key)
    BY <1>2 DEF RowsDone
<1>4. Matches(L, key) = {} \/ (Cardinality(Matches(L, key)) = 1 /\ \E s \in L : Matches(L, key) = {s})
    BY <1>0, <1>1, FewMatches
<1>5. n \in DOMAIN dec <=> Cardinality(Matches(L, key)) = 1 \/ Earlier(csv, n)
    BY <1>0, <1>1 DEF Conflicts
<1>6. ASSUME n \in DOMAIN dec  PROVE \E s \in acc.list : Matches(acc.list, key) = {s}
    <2>1. Matches(acc.list, key) # {}
        <3>1. CASE Earlier(csv, n)
            <4>1. PICK j \in 1..(n - 1) : csv[j].key = key
                BY <3>1 DEF Earlier
            <4>2. Matches(acc.list, csv[j].key) # {}
                BY DEF RowsDone
            <4>3. Matches(acc.list, csv[j].key) = Matches(acc.list, key)
                BY <4>1
            <4> HIDE DEF key
            <4> QED BY <4>2, <4>3
        <3>2. CASE Cardinality(Matches(L, key)) = 1
            <4>1. Matches(L, key) # {}
                <5>1. ASSUME Matches(L, key) = {}  PROVE Cardinality(Matches(L, key)) = 0
                    BY <5>1, FS_EmptySet
                <5> HIDE DEF key
                <5> QED BY <3>2, <5>1
            <4> QED BY <1>3, <4>1 DEF AddressDone
        <3> QED BY <1>5, <1>6, <3>1, <3>2
    <2>2. \E s : Matches(acc.list, key) = {s}
        BY <1>3, <1>4, <2>1 DEF AddressDone
    <2> QED BY <2>2 DEF Matches
<1>7. ASSUME n \notin DOMAIN dec
      PROVE  /\ Matches(acc.list, key) = {} /\ Matches(L, key) = {}
             /\ Taken(csv, dec, n - 1, key) = {}
    <2>1. ~Earlier(csv, n) /\ Matches(L, key) = {}
        BY <1>4, <1>5, <1>7
    <2>2. Taken(csv, dec, n - 1, key) = {}
        BY <2>1 DEF Taken, Earlier
    <2> QED BY <1>3, <2>1, <2>2 DEF AddressDone
<1> QED BY <1>2, <1>6, <1>7

\* The rows of an address that are taken, with one row more.
LEMMA TakenIs ==
    ASSUME NEW csv, NEW dec, NEW n \in Nat \ {0}, NEW k
    PROVE  Taken(csv, dec, n, k) =
               IF csv[n].key = k /\ (n \in DOMAIN dec => dec[n] = "overwrite")
               THEN Taken(csv, dec, n - 1, k) \cup {n} ELSE Taken(csv, dec, n - 1, k)
<1>1. 1..n = 1..(n - 1) \cup {n}
    OBVIOUS
<1> QED BY <1>1 DEF Taken

\* The addresses after a row: those that are not its own stay as they are.
LEMMA OthersDone ==
    ASSUME NEW L, NEW csv, NEW dec, NEW n \in Nat \ {0}, NEW was, NEW now, NEW k,
           Matches(now, k) = Matches(was, k),
           csv[n].key # k \/ (n \in DOMAIN dec /\ dec[n] # "overwrite"),
           AddressDone(L, was, csv, dec, n - 1, k)
    PROVE  AddressDone(L, now, csv, dec, n, k)
<1>1. Taken(csv, dec, n, k) = Taken(csv, dec, n - 1, k)
    BY TakenIs
<1> QED BY <1>1 DEF AddressDone

\* Its own is what the row says.
LEMMA OwnDone ==
    ASSUME NEW L, NEW csv, NEW dec, NEW n \in Nat \ {0}, NEW now, NEW s \in Servers,
           n \in DOMAIN dec => dec[n] = "overwrite",
           Matches(now, csv[n].key) = {s}, s.content = csv[n].content,
           {t.id : t \in Matches(L, csv[n].key)} \subseteq {s.id}
    PROVE  AddressDone(L, now, csv, dec, n, csv[n].key)
<1>1. Taken(csv, dec, n, csv[n].key) = Taken(csv, dec, n - 1, csv[n].key) \cup {n}
    BY TakenIs
<1>2. \A j \in Taken(csv, dec, n, csv[n].key) : j <= n
    BY DEF Taken
<1> QED BY <1>1, <1>2 DEF AddressDone

LEMMA RowStep ==
    ASSUME NEW L, NEW csv, NEW dec, Decided(L, csv, dec), NEW n \in 1..Len(csv),
           NEW acc, RowsDone(acc, L, csv, dec, n - 1)
    PROVE  RowsDone(ImportRow(acc, csv, dec, n), L, csv, dec, n)
<1> DEFINE row == csv[n]  new == ImportRow(acc, csv, dec, n)
<1>0. /\ L \in Lists /\ csv \in Files /\ Len(csv) \in Nat /\ n \in Nat \ {0}
      /\ acc \in Accs /\ ~acc.failed /\ acc.list \in Lists /\ acc.last \in Nat
      /\ \A k \in Keys : AddressDone(L, acc.list, csv, dec, n - 1, k)
      /\ \A i \in 1..(n - 1) : Matches(acc.list, csv[i].key) # {}
    BY FileIs DEF Decided, RowsDone, Accs
<1>1. /\ row.key \in Keys
      /\ n \in DOMAIN dec => \E s \in acc.list : Matches(acc.list, row.key) = {s}
      /\ n \notin DOMAIN dec => /\ Matches(acc.list, row.key) = {} /\ Matches(L, row.key) = {}
                                /\ Taken(csv, dec, n - 1, row.key) = {}
    BY RowFinds
<1>2. row.content \in Contents /\ (n \in DOMAIN dec => dec[n] \in RowActions)
    BY <1>0, FileIs DEF Decided
<1>3. AddressDone(L, acc.list, csv, dec, n - 1, row.key)
    BY <1>0, <1>1
\* The rows so far have their address each, if this one's has got one.
<1>4. ASSUME NEW now, Matches(now, row.key) # {},
             \A k : k # row.key => Matches(now, k) = Matches(acc.list, k)
      PROVE  \A i \in 1..n : Matches(now, csv[i].key) # {}
    <2>1. \A i \in 1..n : i = n \/ i \in 1..(n - 1)
        BY <1>0
    <2> QED BY <1>0, <1>4, <2>1
<1>5. CASE n \in DOMAIN dec /\ dec[n] = "skip"
    <2>1. new = acc
        BY <1>5 DEF ImportRow
    <2>2. \A k \in Keys : AddressDone(L, acc.list, csv, dec, n, k)
        BY <1>0, <1>5, OthersDone
    <2>3. \A i \in 1..n : Matches(acc.list, csv[i].key) # {}
        BY <1>1, <1>4, <1>5
    <2> QED BY <1>0, <2>1, <2>2, <2>3 DEF RowsDone
<1>6. CASE n \in DOMAIN dec /\ dec[n] # "skip"
    <2>0. dec[n] = "overwrite"
        BY <1>2, <1>6 DEF RowActions
    <2>1. PICK s \in acc.list : Matches(acc.list, row.key) = {s}
        BY <1>1, <1>6
    <2> DEFINE t == [s EXCEPT !.content = row.content]
               now == (acc.list \ {s}) \cup {t}
    <2>2. s.key = row.key /\ acc.list \in Lists
        BY <1>0, <2>1 DEF Matches
    <2>3. t \in Servers /\ t.id = s.id /\ t.key = s.key /\ t.content = row.content
        <3>1. s \in Servers
            BY <2>1, <2>2 DEF Lists
        <3> QED BY <1>2, <3>1 DEF Servers
    <2>4. /\ t \in Servers /\ t.id = s.id /\ t.content = row.content
          /\ now \in Lists /\ Matches(now, row.key) = {t}
          /\ \A k : k # row.key => Matches(now, k) = Matches(acc.list, k)
        <3> HIDE DEF t
        <3>1. /\ now \in Lists /\ (Matches(acc.list, s.key) = {s} => Matches(now, s.key) = {t})
              /\ \A k : k # s.key => Matches(now, k) = Matches(acc.list, k)
            <4>1. /\ (acc.list \ {s}) \cup {t} \in Lists
                  /\ Matches(acc.list, s.key) = {s} => Matches((acc.list \ {s}) \cup {t}, s.key) = {t}
                  /\ \A k : k # s.key => Matches((acc.list \ {s}) \cup {t}, k) = Matches(acc.list, k)
                <5>1. acc.list \in Lists /\ s \in acc.list /\ t \in Servers /\ t.key = s.key
                    BY <2>1, <2>2, <2>3
                <5> HIDE DEF row
                <5> QED BY <5>1, ServerChanged
            <4> QED BY <4>1
        <3> HIDE DEF row, now
        <3> QED BY <2>1, <2>2, <2>3, <3>1
    <2>5. new = [acc EXCEPT !.last = acc.last, !.list = now]
        <3>1. {[x EXCEPT !.content = row.content] : x \in {s}} = {t}
            OBVIOUS
        <3>2. new = [acc EXCEPT !.list = now]
            BY <1>0, <1>6, <2>1, <3>1 DEF ImportRow
        <3> QED BY <1>0, <3>2
    <2> HIDE DEF t, now, new
    <2>6. new \in Accs /\ new.list = now /\ ~new.failed
        <3>1. acc.last \in Nat
            BY <1>0
        <3>2. acc \in Accs /\ ~acc.failed /\ now \in Lists
            BY <1>0, <2>4
        <3>3. /\ [acc EXCEPT !.last = acc.last, !.list = now] \in Accs
              /\ [acc EXCEPT !.last = acc.last, !.list = now].list = now
              /\ ~[acc EXCEPT !.last = acc.last, !.list = now].failed
            BY <3>1, <3>2, AccIs
        <3> QED BY <2>5, <3>3
    <2>7. {x.id : x \in Matches(L, row.key)} \subseteq {t.id}
        <3>1. CASE Taken(csv, dec, n - 1, row.key) = {}
            <4>1. Matches(L, row.key) = {s}
                BY <1>3, <2>1, <3>1 DEF AddressDone
            <4> QED BY <2>4, <4>1
        <3>2. CASE Taken(csv, dec, n - 1, row.key) # {}
            <4>1. \E x : Matches(acc.list, row.key) = {x} /\ {y.id : y \in Matches(L, row.key)} \subseteq {x.id}
                BY <1>3, <3>2 DEF AddressDone
            <4>2. {y.id : y \in Matches(L, row.key)} \subseteq {s.id}
                BY <2>1, <4>1
            <4> QED BY <2>4, <4>2
        <3> QED BY <3>1, <3>2
    <2>8. AddressDone(L, now, csv, dec, n, row.key)
        BY <1>0, <2>0, <2>4, <2>7, OwnDone
    <2>9. \A k \in Keys : AddressDone(L, now, csv, dec, n, k)
        BY <1>0, <2>4, <2>8, OthersDone
    <2>10. \A i \in 1..n : Matches(now, csv[i].key) # {}
        BY <1>4, <2>4
    <2> QED BY <2>6, <2>9, <2>10 DEF RowsDone, new
<1>7. CASE n \notin DOMAIN dec
    <2> DEFINE t == [id |-> acc.last + 1, key |-> row.key, content |-> row.content]
               now == acc.list \cup {t}
    <2>1. t \in Servers /\ t.key = row.key /\ t.content = row.content
        BY <1>0, <1>1, <1>2 DEF Servers
    <2>2. new = [acc EXCEPT !.last = acc.last + 1, !.list = now]
        BY <1>0, <1>1, <1>7 DEF ImportRow
    <2> HIDE DEF t, new
    <2>3. /\ now \in Lists /\ Matches(now, row.key) = {t}
          /\ \A k : k # row.key => Matches(now, k) = Matches(acc.list, k)
        <3>1. /\ now \in Lists /\ Matches(now, row.key) = Matches(acc.list, row.key) \cup {t}
              /\ \A k : k # row.key => Matches(now, k) = Matches(acc.list, k)
            <4>1. acc.list \in Lists
                BY <1>0
            <4>2. /\ acc.list \cup {t} \in Lists
                  /\ Matches(acc.list \cup {t}, t.key) = Matches(acc.list, t.key) \cup {t}
                  /\ \A k : k # t.key => Matches(acc.list \cup {t}, k) = Matches(acc.list, k)
                BY <2>1, <4>1, ServerAdded
            <4>3. t.key = row.key /\ now = acc.list \cup {t}
                BY <2>1
            <4> HIDE DEF now, row
            <4> QED BY <4>2, <4>3
        <3> HIDE DEF now, row
        <3> QED BY <1>1, <1>7, <3>1
    <2> HIDE DEF now
    <2>4. new \in Accs /\ new.list = now /\ ~new.failed
        <3>1. acc.last + 1 \in Nat
            BY <1>0
        <3>2. acc \in Accs /\ ~acc.failed /\ now \in Lists
            BY <1>0, <2>3
        <3>3. /\ [acc EXCEPT !.last = acc.last + 1, !.list = now] \in Accs
              /\ [acc EXCEPT !.last = acc.last + 1, !.list = now].list = now
              /\ ~[acc EXCEPT !.last = acc.last + 1, !.list = now].failed
            BY <3>1, <3>2, AccIs
        <3> QED BY <2>2, <3>3
    <2>5. {x.id : x \in Matches(L, row.key)} \subseteq {t.id}
        BY <1>1, <1>7
    <2>6. AddressDone(L, now, csv, dec, n, row.key)
        BY <1>0, <1>7, <2>1, <2>3, <2>5, OwnDone
    <2>7. \A k \in Keys : AddressDone(L, now, csv, dec, n, k)
        BY <1>0, <2>3, <2>6, OthersDone
    <2>8. \A i \in 1..n : Matches(now, csv[i].key) # {}
        BY <1>4, <2>3
    <2> QED BY <2>4, <2>7, <2>8 DEF RowsDone, new
<1> QED BY <1>5, <1>6, <1>7

\* A file whose conflicts are decided about is applied without a failure, row by row.
LEMMA AllRowsDone ==
    ASSUME NEW L, NEW last \in Nat, NEW csv, NEW dec, Decided(L, csv, dec)
    PROVE  RowsDone(Imported(L, last, csv, dec), L, csv, dec, Len(csv))
<1>0. csv \in Files /\ Len(csv) \in Nat /\ L \in Lists
    BY FileIs DEF Decided
<1> DEFINE f == Progress(L, last, csv, dec)
           T == {n \in Nat : n <= Len(csv) /\ ~RowsDone(f[n], L, csv, dec, n)}
<1>1. f[0] = Begin(L, last) /\ \A i \in 1..Len(csv) : f[i] = ImportRow(f[i - 1], csv, dec, i)
    BY <1>0, ProgressIs
<1> HIDE DEF f
<1>2. RowsDone(f[0], L, csv, dec, 0)
    <2>1. \A k : Taken(csv, dec, 0, k) = {}
        BY DEF Taken
    <2> QED BY <1>0, <1>1, <2>1 DEF Begin, RowsDone, AddressDone, Accs
<1>3. T = {}
    <2> SUFFICES ASSUME T # {} PROVE FALSE
        OBVIOUS
    <2>1. PICK n \in T : \A m \in T : n <= m
        BY LeastNumber
    <2>2. n # 0 /\ n \in 1..Len(csv) /\ n - 1 \in Nat /\ n - 1 <= Len(csv)
        BY <1>0, <1>2, <2>1
    <2>3. n - 1 \notin T
        BY <2>1, <2>2
    <2>4. RowsDone(f[n - 1], L, csv, dec, n - 1)
        BY <2>2, <2>3
    <2>5. RowsDone(f[n], L, csv, dec, n)
        BY <1>1, <2>2, <2>4, RowStep
    <2> QED BY <2>1, <2>5
<1>4. RowsDone(f[Len(csv)], L, csv, dec, Len(csv))
    BY <1>0, <1>3
<1> QED BY <1>4 DEF Imported, f

-----------------------------------------------------------------------------
(* What every reachable state is like: a preview that can be committed is  *)
(* about the file that is read and has a decision for each of its          *)
(* conflicts, and so has every request that was sent.                      *)

FieldsOK ==
    /\ list \in Lists /\ lastID \in Nat /\ open \in BOOLEAN /\ edits \in 0..MaxEdits
    /\ preview \in [phase: {"none", "sent", "answered"}, of: Lists]

SessionOK(s) ==
    /\ s \in Sessions
    /\ s.busy = "preview" => s.csv \in Files
    /\ s.snapshot # NoSnapshot =>
          \E L \in s.snapshot : /\ s.snapshot = {L} /\ L \in Lists /\ s.csv \in Files
                                /\ s.errors = HasErrors(L, s.csv)
                                /\ DOMAIN s.decisions = Conflicts(L, s.csv)

\* A request that was sent, and one that is over.
UnderWay == [phase: {"sent", "checked"}, csv: Files, snapshot: Lists, decisions: Decisions]
IsOver == [phase: {"ok", "conflict", "lost"}]

JobsOK ==
    /\ jobs \in Seq(Jobs) /\ Len(jobs) <= MaxTries
    /\ \A n \in DOMAIN jobs :
          \/ jobs[n] \in UnderWay /\ Decided(jobs[n].snapshot, jobs[n].csv, jobs[n].decisions)
          \/ jobs[n] \in IsOver

ImportInv == FieldsOK /\ SessionOK(session) /\ JobsOK

LEMMA DecisionsAre ==
    ASSUME NEW dec \in Decisions
    PROVE  /\ DOMAIN dec \subseteq Numbers /\ dec \in [DOMAIN dec -> RowActions]
           /\ \A i \in DOMAIN dec : dec[i] \in RowActions
BY DEF Decisions

LEMMA DecisionsFor ==
    ASSUME NEW S \in SUBSET Numbers, NEW dec \in [S -> RowActions]
    PROVE  dec \in Decisions
BY DEF Decisions

\* What a preview starts with: every conflict is skipped.
LEMMA AllSkipped ==
    ASSUME NEW csv \in Files, NEW L
    PROVE  /\ [i \in Conflicts(L, csv) |-> "skip"] \in Decisions
           /\ DOMAIN [i \in Conflicts(L, csv) |-> "skip"] = Conflicts(L, csv)
<1>1. Conflicts(L, csv) \in SUBSET Numbers
    BY DEF Conflicts, Numbers
<1> DEFINE S == Conflicts(L, csv)
<1> HIDE DEF S
<1>2. [i \in S |-> "skip"] \in [S -> RowActions]
    BY DEF RowActions
<1>3. S \in SUBSET Numbers
    BY <1>1 DEF S
<1>4. [i \in S |-> "skip"] \in Decisions
    BY <1>2, <1>3, DecisionsFor
<1> QED BY <1>4 DEF S

LEMMA DecidedAnew ==
    ASSUME NEW dec \in Decisions, NEW rows, NEW action \in RowActions
    PROVE  /\ [i \in DOMAIN dec |-> IF i \in rows THEN action ELSE dec[i]] \in Decisions
           /\ DOMAIN [i \in DOMAIN dec |-> IF i \in rows THEN action ELSE dec[i]] = DOMAIN dec
<1>1. DOMAIN dec \in SUBSET Numbers /\ \A i \in DOMAIN dec : dec[i] \in RowActions
    BY DecisionsAre
<1> DEFINE S == DOMAIN dec
           new == [i \in S |-> IF i \in rows THEN action ELSE dec[i]]
<1>2. new \in [S -> RowActions] /\ DOMAIN new = S
    BY <1>1
<1> HIDE DEF new
<1>3. new \in Decisions
    BY <1>1, <1>2, DecisionsFor
<1> QED BY <1>2, <1>3 DEF new

-----------------------------------------------------------------------------
(* The session keeps its promise, handler by handler.                      *)

LEMMA NewSessionOK == SessionOK(NewSession)
<1>1. NoDecisions \in [{} -> RowActions]
    BY DEF NoDecisions
<1>2. NoDecisions \in Decisions
    BY <1>1, DecisionsFor
<1> QED BY <1>2 DEF SessionOK, Sessions, NewSession, NoSnapshot

\* Nothing is promised once the snapshot is dropped, but that what is previewed was read.
LEMMA DroppedOK ==
    ASSUME NEW s, SessionOK(s), NEW csv \in Files \cup {NoFile}, NEW rows \in BOOLEAN,
           NEW busy \in {"no", "read", "preview", "commit"}, busy = "preview" => csv \in Files
    PROVE  SessionOK([s EXCEPT !.csv = csv, !.snapshot = NoSnapshot, !.rows = rows, !.busy = busy])
BY DEF SessionOK, Sessions, NoSnapshot

\* What was promised is left alone while the page is idle, or busy with the commit.
LEMMA WaitsOK ==
    ASSUME NEW s, SessionOK(s), NEW busy \in {"no", "read", "commit"}
    PROVE  SessionOK([s EXCEPT !.busy = busy])
<1> DEFINE t == [s EXCEPT !.busy = busy]
<1>1. /\ t \in Sessions /\ t.busy # "preview" /\ t.snapshot = s.snapshot /\ t.csv = s.csv
      /\ t.errors = s.errors /\ t.decisions = s.decisions
    BY DEF SessionOK, Sessions
<1> HIDE DEF t
<1>2. SessionOK(t)
    BY <1>1 DEF SessionOK
<1> QED BY <1>2 DEF t

LEMMA AnsweredOK ==
    ASSUME NEW s, SessionOK(s), s.busy = "preview", NEW L \in Lists
    PROVE  SessionOK([s EXCEPT !.snapshot = {L}, !.rows = TRUE, !.errors = HasErrors(L, s.csv),
                               !.decisions = [i \in Conflicts(L, s.csv) |-> "skip"], !.busy = "no"])
<1> DEFINE dec == [i \in Conflicts(L, s.csv) |-> "skip"]
           t == [s EXCEPT !.snapshot = {L}, !.rows = TRUE, !.errors = HasErrors(L, s.csv),
                          !.decisions = dec, !.busy = "no"]
<1>1. s.csv \in Files /\ s \in Sessions
    BY DEF SessionOK
<1>2. dec \in Decisions /\ DOMAIN dec = Conflicts(L, s.csv)
    BY <1>1, AllSkipped
<1>3. HasErrors(L, s.csv) \in BOOLEAN
    BY DEF HasErrors
<1> HIDE DEF dec
<1>4. /\ t \in Sessions /\ t.busy = "no" /\ t.snapshot = {L} /\ t.csv = s.csv
      /\ t.errors = HasErrors(L, s.csv) /\ t.decisions = dec
    BY <1>1, <1>2, <1>3 DEF Sessions
<1> HIDE DEF t
<1>5. SessionOK(t)
    BY <1>1, <1>2, <1>4 DEF SessionOK
<1> QED BY <1>5 DEF t, dec

LEMMA DecideOK ==
    ASSUME NEW s, SessionOK(s), NEW rows, NEW action \in RowActions
    PROVE  SessionOK([s EXCEPT !.decisions =
                         [i \in DOMAIN @ |-> IF i \in rows THEN action ELSE @[i]]])
<1> DEFINE dec == [i \in DOMAIN s.decisions |-> IF i \in rows THEN action ELSE s.decisions[i]]
           t == [s EXCEPT !.decisions = dec]
<1>1. s \in Sessions /\ s.decisions \in Decisions
    BY DEF SessionOK, Sessions
<1>2. dec \in Decisions /\ DOMAIN dec = DOMAIN s.decisions
    BY <1>1, DecidedAnew
<1> HIDE DEF dec
<1>3. /\ t \in Sessions /\ t.busy = s.busy /\ t.snapshot = s.snapshot /\ t.csv = s.csv
      /\ t.errors = s.errors /\ t.decisions = dec
    BY <1>1, <1>2 DEF Sessions
<1> HIDE DEF t
<1>4. SessionOK(t)
    BY <1>2, <1>3 DEF SessionOK
<1> QED BY <1>4 DEF t, dec

-----------------------------------------------------------------------------
(* So does every request.                                                  *)

\* A request that is not over is decided about the list it names.
LEMMA UnderWayIs ==
    ASSUME JobsOK, NEW n \in DOMAIN jobs, jobs[n].phase \in {"sent", "checked"}
    PROVE  jobs[n] \in UnderWay /\ Decided(jobs[n].snapshot, jobs[n].csv, jobs[n].decisions)
BY DEF JobsOK, IsOver

LEMMA OneJobChanges ==
    ASSUME JobsOK, NEW n \in DOMAIN jobs, NEW j,
           \/ j \in UnderWay /\ Decided(j.snapshot, j.csv, j.decisions)
           \/ j \in IsOver,
           jobs' = [jobs EXCEPT ![n] = j]
    PROVE  JobsOK'
<1>1. jobs \in Seq(Jobs) /\ Len(jobs) <= MaxTries
    BY DEF JobsOK
<1>2. j \in Jobs
    BY DEF Jobs, UnderWay, IsOver
<1>3. jobs' \in Seq(Jobs) /\ Len(jobs') = Len(jobs) /\ DOMAIN jobs' = DOMAIN jobs
    BY <1>1, <1>2
<1>4. \A m \in DOMAIN jobs : jobs'[m] = IF m = n THEN j ELSE jobs[m]
    BY <1>1
<1> QED BY <1>1, <1>3, <1>4 DEF JobsOK

LEMMA AnswerOK ==
    ASSUME JobsOK, NEW n \in DOMAIN jobs, NEW phase \in {"ok", "conflict", "lost"},
           Answer(n, phase)
    PROVE  JobsOK'
<1>1. [phase |-> phase] \in IsOver
    BY DEF IsOver
<1> QED BY <1>1, OneJobChanges DEF Answer

LEMMA CheckedOK ==
    ASSUME JobsOK, NEW n \in DOMAIN jobs, jobs[n].phase = "sent",
           jobs' = [jobs EXCEPT ![n].phase = "checked"]
    PROVE  JobsOK'
<1> DEFINE j == [jobs[n] EXCEPT !.phase = "checked"]
<1>1. jobs[n] \in UnderWay /\ Decided(jobs[n].snapshot, jobs[n].csv, jobs[n].decisions)
    BY UnderWayIs
<1>2. /\ j \in UnderWay /\ j.snapshot = jobs[n].snapshot /\ j.csv = jobs[n].csv
      /\ j.decisions = jobs[n].decisions
    BY <1>1 DEF UnderWay
<1>3. jobs' = [jobs EXCEPT ![n] = j]
    OBVIOUS
<1> HIDE DEF j
<1>4. Decided(j.snapshot, j.csv, j.decisions)
    BY <1>1, <1>2
<1> QED BY <1>2, <1>3, <1>4, OneJobChanges

LEMMA SentOK ==
    ASSUME JobsOK, Len(jobs) < MaxTries, NEW j \in UnderWay,
           Decided(j.snapshot, j.csv, j.decisions), jobs' = Append(jobs, j)
    PROVE  JobsOK'
<1>1. jobs \in Seq(Jobs) /\ Len(jobs) <= MaxTries /\ MaxTries \in Nat /\ Len(jobs) \in Nat
    BY FilesAssumption DEF JobsOK
<1>2. j \in Jobs
    BY DEF Jobs, UnderWay
<1>3. jobs' \in Seq(Jobs) /\ Len(jobs') = Len(jobs) + 1 /\ Len(jobs') <= MaxTries
    BY <1>1, <1>2
<1>4. \A m \in DOMAIN jobs' : jobs'[m] = j \/ (m \in DOMAIN jobs /\ jobs'[m] = jobs[m])
    BY <1>1, <1>2
<1> QED BY <1>3, <1>4 DEF JobsOK

-----------------------------------------------------------------------------
(* The invariant, action by action.                                        *)

LEMMA ImportBegins == ImportInit => ImportInv
<1> SUFFICES ASSUME ImportInit PROVE ImportInv
    OBVIOUS
<1>1. {} \in Lists
    BY FS_EmptySet DEF Lists
<1>2. FieldsOK
    <2>1. list \in Lists /\ lastID \in Nat /\ open \in BOOLEAN
        BY FilesAssumption DEF ImportInit
    <2>2. edits \in 0..MaxEdits
        BY FilesAssumption DEF ImportInit
    <2>3. preview \in [phase: {"none", "sent", "answered"}, of: Lists]
        BY <1>1 DEF ImportInit
    <2> QED BY <2>1, <2>2, <2>3 DEF FieldsOK
<1>3. SessionOK(session)
    BY NewSessionOK DEF ImportInit
<1>4. JobsOK
    BY FilesAssumption DEF ImportInit, JobsOK
<1> QED BY <1>2, <1>3, <1>4 DEF ImportInv

\* The steps of the page that send nothing.
LEMMA PageStep ==
    ASSUME ImportInv, OpenImport \/ Close \/ ReadImportFile \/ PreviewAgain \/ FileRead
    PROVE  ImportInv'
<1>0. FieldsOK /\ SessionOK(session) /\ JobsOK
    BY DEF ImportInv
<1>1. JobsOK'
    BY <1>0 DEF OpenImport, Close, ReadImportFile, PreviewAgain, FileRead, JobsOK
<1>2. FieldsOK'
    BY <1>0 DEF FieldsOK, OpenImport, Close, ReadImportFile, PreviewAgain, FileRead, PreviewImport
\* A preview is asked for: nothing is promised until it is answered.
<1>3. ASSUME NEW csv \in Files, PreviewImport([session EXCEPT !.csv = csv])
      PROVE  SessionOK(session')
    <2>1. session \in Sessions
        BY <1>0 DEF SessionOK
    <2>2. session' = [session EXCEPT !.csv = csv, !.snapshot = NoSnapshot,
                                     !.rows = session.rows, !.busy = "preview"]
        BY <1>3, <2>1 DEF PreviewImport, Sessions
    <2>3. session.rows \in BOOLEAN
        BY <2>1 DEF Sessions
    <2> QED BY <1>0, <2>2, <2>3, DroppedOK
<1>4. CASE OpenImport
    <2>1. SessionOK(session')
        BY <1>4, NewSessionOK DEF OpenImport
    <2> QED BY <1>1, <1>2, <2>1 DEF ImportInv
<1>5. CASE Close
    <2>1. SessionOK(session')
        BY <1>0, <1>5 DEF Close
    <2> QED BY <1>1, <1>2, <2>1 DEF ImportInv
<1>6. CASE ReadImportFile
    <2>1. SessionOK(session')
        BY <1>0, <1>6, DroppedOK DEF ReadImportFile
    <2> QED BY <1>1, <1>2, <2>1 DEF ImportInv
<1>7. CASE PreviewAgain
    <2>1. session \in Sessions /\ session.csv \in Files
        BY <1>0, <1>7 DEF PreviewAgain, SessionOK, Sessions
    <2>2. session = [session EXCEPT !.csv = session.csv]
        BY <2>1 DEF Sessions
    <2>3. SessionOK(session')
        BY <1>3, <1>7, <2>1, <2>2 DEF PreviewAgain
    <2> QED BY <1>1, <1>2, <2>3 DEF ImportInv
<1>8. CASE FileRead
    <2>1. CASE session' = [session EXCEPT !.busy = "no"]
        <3>1. SessionOK(session')
            BY <1>0, <2>1, WaitsOK
        <3> QED BY <1>1, <1>2, <3>1 DEF ImportInv
    <2>2. CASE \E f \in Files : PreviewImport([session EXCEPT !.csv = f])
        <3>1. SessionOK(session')
            BY <1>3, <2>2
        <3> QED BY <1>1, <1>2, <3>1 DEF ImportInv
    <2> QED BY <1>8, <2>1, <2>2 DEF FileRead
<1> QED BY <1>4, <1>5, <1>6, <1>7, <1>8

LEMMA PreviewStep ==
    ASSUME ImportInv, ServePreview \/ PreviewAnswered
    PROVE  ImportInv'
<1>0. FieldsOK /\ SessionOK(session) /\ JobsOK
    BY DEF ImportInv
<1>1. JobsOK'
    BY <1>0 DEF ServePreview, PreviewAnswered, JobsOK
<1>2. CASE ServePreview
    <2>1. FieldsOK'
        BY <1>0, <1>2 DEF FieldsOK, ServePreview
    <2>2. SessionOK(session')
        BY <1>0, <1>2 DEF ServePreview
    <2> QED BY <1>1, <2>1, <2>2 DEF ImportInv
<1>3. CASE PreviewAnswered
    <2>1. {} \in Lists
        BY FS_EmptySet DEF Lists
    <2>2. FieldsOK'
        BY <1>0, <1>3, <2>1 DEF FieldsOK, PreviewAnswered
    <2>3. session.busy = "preview" /\ preview.of \in Lists /\ session \in Sessions
        BY <1>0, <1>3 DEF PreviewAnswered, FieldsOK, SessionOK
    <2>4. CASE PreviewFails
        <3>1. session' = [session EXCEPT !.csv = session.csv, !.snapshot = NoSnapshot,
                                         !.rows = session.rows, !.busy = "no"]
            BY <2>3, <2>4 DEF PreviewFails, Sessions
        <3>2. session.rows \in BOOLEAN /\ session.csv \in Files \cup {NoFile}
            BY <2>3 DEF Sessions
        <3>3. SessionOK(session')
            BY <1>0, <3>1, <3>2, DroppedOK
        <3> QED BY <1>1, <2>2, <3>3 DEF ImportInv
    <2>5. CASE ~PreviewFails
        <3>1. session' = [session EXCEPT !.snapshot = {preview.of}, !.rows = TRUE,
                                         !.errors = HasErrors(preview.of, session.csv),
                                         !.decisions = [i \in Conflicts(preview.of, session.csv) |-> "skip"],
                                         !.busy = "no"]
            BY <1>3, <2>5 DEF PreviewAnswered
        <3>2. SessionOK(session')
            BY <1>0, <2>3, <3>1, AnsweredOK
        <3> QED BY <1>1, <2>2, <3>2 DEF ImportInv
    <2> QED BY <2>4, <2>5
<1> QED BY <1>2, <1>3

LEMMA DecideStep ==
    ASSUME ImportInv, NEW rows, NEW action \in RowActions, Decide(rows, action)
    PROVE  ImportInv'
<1>0. FieldsOK /\ SessionOK(session) /\ JobsOK
    BY DEF ImportInv
<1>1. JobsOK' /\ FieldsOK'
    BY <1>0 DEF Decide, JobsOK, FieldsOK
<1>2. SessionOK(session')
    BY <1>0, DecideOK DEF Decide
<1> QED BY <1>1, <1>2 DEF ImportInv

LEMMA CommitStep ==
    ASSUME ImportInv, CommitImport \/ CommitAnswered
    PROVE  ImportInv'
<1>0. FieldsOK /\ SessionOK(session) /\ JobsOK
    BY DEF ImportInv
<1>1. FieldsOK'
    BY <1>0 DEF FieldsOK, CommitImport, CommitAnswered
<1>2. CASE CommitImport
    <2>1. SessionOK(session')
        BY <1>0, <1>2, WaitsOK DEF CommitImport
    <2>2. PICK L \in session.snapshot :
              /\ session.snapshot = {L} /\ L \in Lists /\ session.csv \in Files
              /\ session.errors = HasErrors(L, session.csv)
              /\ DOMAIN session.decisions = Conflicts(L, session.csv)
        BY <1>0, <1>2 DEF CommitImport, SessionOK
    <2>3. (CHOOSE x \in session.snapshot : TRUE) = L
        BY <2>2
    <2> DEFINE j == [phase |-> "sent", csv |-> session.csv, snapshot |-> L,
                     decisions |-> session.decisions]
    <2>4. session.decisions \in Decisions /\ ~session.errors
        BY <1>0, <1>2 DEF SessionOK, Sessions, CommitImport
    <2>5. j \in UnderWay
        BY <2>2, <2>4 DEF UnderWay
    <2>6. Decided(L, session.csv, session.decisions)
        BY <2>2, <2>4, DecisionsAre DEF Decided
    <2>7. jobs' = Append(jobs, j) /\ Len(jobs) < MaxTries
        BY <1>2, <2>3 DEF CommitImport
    <2>8. j.snapshot = L /\ j.csv = session.csv /\ j.decisions = session.decisions
        OBVIOUS
    <2> HIDE DEF j
    <2>9. JobsOK'
        <3>1. Decided(j.snapshot, j.csv, j.decisions)
            BY <2>6, <2>8
        <3> QED BY <1>0, <2>5, <2>7, <3>1, SentOK
    <2> QED BY <1>1, <2>1, <2>9 DEF ImportInv
<1>3. CASE CommitAnswered
    <2>1. JobsOK'
        BY <1>0, <1>3 DEF CommitAnswered, JobsOK
    <2>2. CASE session' = [session EXCEPT !.busy = "no"]
        <3>1. SessionOK(session')
            BY <1>0, <2>2, WaitsOK
        <3> QED BY <1>1, <2>1, <3>1 DEF ImportInv
    <2>3. CASE session' = [session EXCEPT !.snapshot = NoSnapshot, !.busy = "no"]
        <3>1. session \in Sessions
            BY <1>0 DEF SessionOK
        <3>2. session' = [session EXCEPT !.csv = session.csv, !.snapshot = NoSnapshot,
                                         !.rows = session.rows, !.busy = "no"]
            BY <2>3, <3>1 DEF Sessions
        <3>3. session.rows \in BOOLEAN /\ session.csv \in Files \cup {NoFile}
            BY <3>1 DEF Sessions
        <3>4. SessionOK(session')
            BY <1>0, <3>2, <3>3, DroppedOK
        <3> QED BY <1>1, <2>1, <3>4 DEF ImportInv
    <2> QED BY <1>3, <2>2, <2>3 DEF CommitAnswered
<1> QED BY <1>2, <1>3


LEMMA ServerStep ==
    ASSUME ImportInv, NEW n \in DOMAIN jobs, LoseCommit(n) \/ CheckImport(n) \/ ApplyImport(n)
    PROVE  ImportInv'
<1>0. FieldsOK /\ SessionOK(session) /\ JobsOK
    BY DEF ImportInv
<1>1. SessionOK(session')
    BY <1>0 DEF LoseCommit, CheckImport, ApplyImport
<1>2. CASE LoseCommit(n)
    <2>1. JobsOK'
        BY <1>0, <1>2, AnswerOK DEF LoseCommit
    <2>2. FieldsOK'
        BY <1>0, <1>2 DEF LoseCommit, FieldsOK
    <2> QED BY <1>1, <2>1, <2>2 DEF ImportInv
<1>3. CASE CheckImport(n)
    <2>1. FieldsOK'
        BY <1>0, <1>3 DEF CheckImport, FieldsOK
    <2>2. Decided(jobs[n].snapshot, jobs[n].csv, jobs[n].decisions)
        BY <1>0, <1>3, UnderWayIs DEF CheckImport
    <2>3. CASE jobs[n].snapshot # list
        <3>1. Answer(n, "conflict")
            BY <1>3, <2>3 DEF CheckImport
        <3>2. JobsOK'
            BY <1>0, <3>1, AnswerOK
        <3> QED BY <1>1, <2>1, <3>2 DEF ImportInv
    <2>4. CASE jobs[n].snapshot = list
        <3>1. ~HasErrors(list, jobs[n].csv) /\ DOMAIN jobs[n].decisions = Conflicts(list, jobs[n].csv)
            BY <2>2, <2>4 DEF Decided
        <3>2. jobs[n].phase = "sent" /\ jobs' = [jobs EXCEPT ![n].phase = "checked"]
            BY <1>3, <2>4, <3>1 DEF CheckImport
        <3>3. JobsOK'
            BY <1>0, <3>2, CheckedOK
        <3> QED BY <1>1, <2>1, <3>3 DEF ImportInv
    <2> QED BY <2>3, <2>4
<1>4. CASE ApplyImport(n)
    <2> DEFINE result == Imported(list, lastID, jobs[n].csv, jobs[n].decisions)
    <2>1. Decided(jobs[n].snapshot, jobs[n].csv, jobs[n].decisions)
        BY <1>0, <1>4, UnderWayIs DEF ApplyImport
    <2>2. CASE jobs[n].snapshot # list
        <3>1. Answer(n, "conflict") /\ UNCHANGED <<list, lastID, open, session, preview, edits>>
            BY <1>4, <2>2 DEF ApplyImport
        <3>2. JobsOK'
            BY <1>0, <3>1, AnswerOK
        <3>3. FieldsOK'
            BY <1>0, <3>1 DEF FieldsOK
        <3> QED BY <1>1, <3>2, <3>3 DEF ImportInv
    <2>3. CASE jobs[n].snapshot = list
        <3>1. RowsDone(result, list, jobs[n].csv, jobs[n].decisions, Len(jobs[n].csv))
            <4>1. Decided(list, jobs[n].csv, jobs[n].decisions) /\ lastID \in Nat
                BY <1>0, <2>1, <2>3 DEF FieldsOK
            <4> QED BY <4>1, AllRowsDone
        <3> HIDE DEF result
        <3>2. ~result.failed /\ result.list \in Lists /\ result.last \in Nat
            BY <3>1 DEF RowsDone, Accs
        <3>3. list' = result.list /\ lastID' = result.last /\ Answer(n, "ok")
            BY <1>4, <2>3, <3>2 DEF ApplyImport, result
        <3>4. JobsOK'
            BY <1>0, <3>3, AnswerOK
        <3>5. UNCHANGED <<open, session, preview, edits>>
            BY <1>4 DEF ApplyImport
        <3>6. FieldsOK'
            BY <1>0, <3>2, <3>3, <3>5 DEF FieldsOK
        <3> QED BY <1>1, <3>4, <3>6 DEF ImportInv
    <2> QED BY <2>2, <2>3
<1> QED BY <1>2, <1>3, <1>4

LEMMA EditStep ==
    ASSUME ImportInv, EditElsewhere
    PROVE  ImportInv'
<1>0. FieldsOK /\ SessionOK(session) /\ JobsOK
    BY DEF ImportInv
<1>1. SessionOK(session') /\ JobsOK'
    BY <1>0 DEF EditElsewhere, JobsOK
<1>2. list \in Lists /\ lastID \in Nat /\ edits' \in 0..MaxEdits
    BY <1>0, FilesAssumption DEF FieldsOK, EditElsewhere
<1>3. list' \in Lists /\ lastID' \in Nat
    <2>1. CASE /\ lastID' = lastID + 1
               /\ \E k \in Keys, c \in Contents :
                     list' = list \cup {[id |-> lastID + 1, key |-> k, content |-> c]}
        <3>1. PICK k \in Keys, c \in Contents :
                  list' = list \cup {[id |-> lastID + 1, key |-> k, content |-> c]}
            BY <2>1
        <3> DEFINE s == [id |-> lastID + 1, key |-> k, content |-> c]
        <3>2. s \in Servers
            BY <1>2 DEF Servers
        <3> HIDE DEF s
        <3>3. list \cup {s} \in Lists
            BY <1>2, <3>2, ServerAdded
        <3>4. list' = list \cup {s}
            BY <3>1 DEF s
        <3> QED BY <1>2, <2>1, <3>3, <3>4
    <2>2. CASE /\ lastID' = lastID
               /\ \E s \in list, c \in Contents :
                     c # s.content /\ list' = (list \ {s}) \cup {[s EXCEPT !.content = c]}
        <3>1. PICK s \in list, c \in Contents :
                  list' = (list \ {s}) \cup {[s EXCEPT !.content = c]}
            BY <2>2
        <3> DEFINE t == [s EXCEPT !.content = c]
        <3>2. s \in Servers
            BY <1>2 DEF Lists
        <3>3. t \in Servers /\ t.key = s.key
            BY <3>2 DEF Servers
        <3>4. list' = (list \ {s}) \cup {t}
            BY <3>1
        <3> HIDE DEF t
        <3>5. (list \ {s}) \cup {t} \in Lists
            BY <1>2, <3>3, ServerChanged
        <3> QED BY <1>2, <2>2, <3>4, <3>5
    <2>3. CASE lastID' = lastID /\ \E s \in list : list' = list \ {s}
        <3>1. \A s \in list : list \ {s} \in Lists
            BY <1>2, FS_RemoveElement, FS_Subset DEF Lists
        <3> QED BY <1>2, <2>3, <3>1
    <2> QED BY <2>1, <2>2, <2>3 DEF EditElsewhere
<1>4. open' = open /\ preview' = preview
    BY DEF EditElsewhere
<1>5. FieldsOK'
    BY <1>0, <1>2, <1>3, <1>4 DEF FieldsOK
<1> QED BY <1>1, <1>5 DEF ImportInv

LEMMA ImportSteps == ImportInv /\ [ImportNext]_importVars => ImportInv'
<1> SUFFICES ASSUME ImportInv, [ImportNext]_importVars PROVE ImportInv'
    OBVIOUS
<1>1. CASE OpenImport \/ Close \/ ReadImportFile \/ PreviewAgain \/ FileRead
    BY <1>1, PageStep
<1>2. CASE CommitImport \/ CommitAnswered
    BY <1>2, CommitStep
<1>3. ASSUME NEW rows, NEW action \in RowActions, Decide(rows, action)  PROVE ImportInv'
    BY <1>3, DecideStep
<1>4. CASE ServePreview \/ PreviewAnswered
    BY <1>4, PreviewStep
<1>5. ASSUME NEW n \in DOMAIN jobs, LoseCommit(n) \/ CheckImport(n) \/ ApplyImport(n)
      PROVE  ImportInv'
    BY <1>5, ServerStep
<1>6. CASE EditElsewhere
    BY <1>6, EditStep
<1>7. CASE UNCHANGED importVars
    <2>1. FieldsOK' /\ SessionOK(session') /\ JobsOK'
        BY <1>7 DEF ImportInv, FieldsOK, JobsOK, importVars
    <2> QED BY <2>1 DEF ImportInv
<1> QED BY <1>1, <1>2, <1>3, <1>4, <1>5, <1>6, <1>7 DEF ImportNext, ImportUser, Server

LEMMA ImportHolds == ImportSpec => []ImportInv
BY ImportBegins, ImportSteps, PTL DEF ImportSpec

-----------------------------------------------------------------------------
(* What follows from it.                                                   *)

\* Only the transaction answers that an import was applied.
LEMMA AppliedBy ==
    ASSUME ImportInv, [ImportNext]_importVars, NEW n \in DOMAIN jobs, Applied(n)
    PROVE  /\ ApplyImport(n) /\ list = jobs[n].snapshot
           /\ list' = Imported(list, lastID, jobs[n].csv, jobs[n].decisions).list
<1>0. jobs \in Seq(Jobs) /\ jobs[n].phase = "checked" /\ jobs'[n].phase = "ok"
    BY DEF ImportInv, JobsOK, Applied
<1>1. jobs' # jobs
    BY <1>0
<1>2. ~CommitImport
    <2> SUFFICES ASSUME CommitImport PROVE FALSE
        OBVIOUS
    <2>1. PICK j : jobs' = Append(jobs, j)
        BY DEF CommitImport
    <2>2. jobs'[n] = jobs[n]
        BY <1>0, <2>1
    <2> QED BY <1>0, <2>2
<1>3. PICK m \in DOMAIN jobs : LoseCommit(m) \/ CheckImport(m) \/ ApplyImport(m)
    BY <1>1, <1>2 DEF ImportNext, ImportUser, Server, OpenImport, Close, ReadImportFile,
       PreviewAgain, Decide, FileRead, PreviewAnswered, CommitAnswered, ServePreview,
       EditElsewhere, importVars
<1>4. m # n => jobs'[n] = jobs[n]
    BY <1>0, <1>3 DEF LoseCommit, CheckImport, ApplyImport, Answer
<1>5. m = n
    BY <1>0, <1>4
<1>6. ApplyImport(n)
    BY <1>0, <1>3, <1>5 DEF LoseCommit, CheckImport
<1>7. ~Answer(n, "conflict") /\ ~Answer(n, "refused")
    BY <1>0 DEF Answer
<1> QED BY <1>6, <1>7 DEF ApplyImport

\* Every variable has its type: the list is always a finite set of servers, whose ids are
\* numbers from 1, and a request under way has a file, a list and decisions that are actions
\* on rows of a file (app.js:1797-1902).
THEOREM ImportTyped == ImportSpec => []ImportTypeOK
<1>1. ImportInv => ImportTypeOK
    BY DEF ImportInv, FieldsOK, SessionOK, JobsOK, ImportTypeOK
<1> QED BY <1>1, ImportHolds, PTL

\* The server never turns down what the page sends, neither when it checks the request nor
\* in the transaction, where no row can fail (server_csv.go:241-270, import.go:57-136).
THEOREM PageIsNeverRefused == ImportSpec => []NeverRefused
<1>1. ImportInv => NeverRefused
    BY DEF ImportInv, JobsOK, UnderWay, IsOver, NeverRefused
<1> QED BY <1>1, ImportHolds, PTL

\* The list an import changes is the one its preview showed (import.go:54-56).
THEOREM ImportsWhatWasShown == ImportSpec => AppliesToWhatWasShown
<1>1. ImportInv /\ [ImportNext]_importVars => \A n \in DOMAIN jobs : Applied(n) => list = jobs[n].snapshot
    <2> SUFFICES ASSUME ImportInv, [ImportNext]_importVars, NEW n \in DOMAIN jobs, Applied(n)
                 PROVE  list = jobs[n].snapshot
        OBVIOUS
    <2> QED BY AppliedBy
<1> QED BY <1>1, ImportHolds, PTL DEF ImportSpec, AppliesToWhatWasShown


\* The last of the rows that are taken is the highest.
LEMMA LastTaken ==
    ASSUME NEW S \in SUBSET Nat, NEW i \in S, \A j \in S : j <= i
    PROVE  Max(S) = i
<1>1. i \in S /\ \A y \in S : i >= y
    OBVIOUS
<1>2. \A x \in S : (\A y \in S : x >= y) => x = i
    <2> SUFFICES ASSUME NEW x \in S, \A y \in S : x >= y PROVE x = i
        OBVIOUS
    <2>1. x >= i /\ x <= i /\ x \in Nat /\ i \in Nat
        OBVIOUS
    <2> QED BY <2>1
<1> QED BY <1>1, <1>2 DEF Max

\* What an import has stored is what the rows that are taken say, address by address
\* (import.go:57-136).
THEOREM ImportStoresDecisions == ImportSpec => StoresWhatWasDecided
<1>1. ASSUME ImportInv, [ImportNext]_importVars, NEW n \in DOMAIN jobs, Applied(n), NEW k \in Keys
      PROVE  LET csv == jobs[n].csv
                 dec == jobs[n].decisions
                 taken == {i \in DOMAIN csv : csv[i].key = k
                             /\ (i \in DOMAIN dec => dec[i] = "overwrite")}
                 before == Matches(list, k)
                 after == Matches(list', k)
             IN  IF taken = {} THEN after = before
                 ELSE \E s \in after :
                         /\ after = {s} /\ s.content = csv[Max(taken)].content
                         /\ {t.id : t \in before} \subseteq {s.id}
    <2> DEFINE csv == jobs[n].csv
               dec == jobs[n].decisions
               taken == {i \in DOMAIN csv : csv[i].key = k
                            /\ (i \in DOMAIN dec => dec[i] = "overwrite")}
    <2>1. ApplyImport(n) /\ list = jobs[n].snapshot /\ list' = Imported(list, lastID, csv, dec).list
        BY <1>1, AppliedBy
    <2>2. Decided(list, csv, dec) /\ lastID \in Nat
        <3>1. JobsOK /\ FieldsOK /\ jobs[n].phase \in {"sent", "checked"}
            BY <1>1 DEF ImportInv, Applied
        <3>2. Decided(jobs[n].snapshot, csv, dec)
            BY <3>1, UnderWayIs
        <3> QED BY <2>1, <3>1, <3>2 DEF FieldsOK
    <2> HIDE DEF csv, dec
    <2>3. csv \in Files /\ DOMAIN csv = 1..Len(csv) /\ Len(csv) \in Nat
        BY <2>2, FileIs DEF Decided
    <2>4. AddressDone(list, list', csv, dec, Len(csv), k)
        <3>1. RowsDone(Imported(list, lastID, csv, dec), list, csv, dec, Len(csv))
            BY <2>2, AllRowsDone
        <3> QED BY <1>1, <2>1, <3>1 DEF RowsDone
    <2>5. taken = Taken(csv, dec, Len(csv), k)
        BY <2>3 DEF Taken
    <2>6. taken \in SUBSET Nat
        BY <2>3
    <2> HIDE DEF taken
    <2>7. CASE taken = {}
        <3>1. Matches(list', k) = Matches(list, k)
            BY <2>4, <2>5, <2>7 DEF AddressDone
        <3> QED BY <2>7, <3>1 DEF taken, csv, dec
    <2>8. CASE taken # {}
        <3>1. PICK s \in Servers, i \in Taken(csv, dec, Len(csv), k) :
                  /\ Matches(list', k) = {s} /\ s.content = csv[i].content
                  /\ \A j \in Taken(csv, dec, Len(csv), k) : j <= i
                  /\ {t.id : t \in Matches(list, k)} \subseteq {s.id}
            <4>1. Taken(csv, dec, Len(csv), k) # {}
                BY <2>5, <2>8
            <4> QED BY <2>4, <4>1 DEF AddressDone
        <3>2. /\ Matches(list', k) = {s} /\ s.content = csv[i].content /\ i \in taken
              /\ \A j \in taken : j <= i
              /\ {t.id : t \in Matches(list, k)} \subseteq {s.id}
            BY <2>5, <3>1
        <3>3. Max(taken) = i
            BY <2>6, <3>2, LastTaken
        <3>4. \E x \in Matches(list', k) :
                  /\ Matches(list', k) = {x} /\ x.content = csv[Max(taken)].content
                  /\ {t.id : t \in Matches(list, k)} \subseteq {x.id}
            BY <3>2, <3>3
        <3> QED BY <2>8, <3>4 DEF taken, csv, dec
    <2> QED BY <2>7, <2>8
<1>2. ImportInv /\ [ImportNext]_importVars =>
         \A n \in DOMAIN jobs : Applied(n) =>
            LET csv == jobs[n].csv
                dec == jobs[n].decisions
                taken(k) == {i \in DOMAIN csv : csv[i].key = k
                                /\ (i \in DOMAIN dec => dec[i] = "overwrite")}
            IN  \A k \in Keys :
                  LET before == Matches(list, k)
                      after == Matches(list', k)
                  IN  IF taken(k) = {} THEN after = before
                      ELSE \E s \in after :
                              /\ after = {s} /\ s.content = csv[Max(taken(k))].content
                              /\ {t.id : t \in before} \subseteq {s.id}
    BY <1>1
<1> QED BY <1>2, ImportHolds, PTL DEF ImportSpec, StoresWhatWasDecided

-----------------------------------------------------------------------------
(* The configuration form.                                                 *)

\* A save sends a valid draft, and a good answer carries a configuration.
RequestsOK ==
    /\ put.on => put.body # Blank
    /\ fetch.answer = "ok" => fetch.config \in Configs

FormInv ==
    /\ TypeOK
    /\ RequestsOK
    /\ FormIsConfig
    /\ EditsAreSeen

USE DraftsAssumption

\* What fills the form leaves a draft of the form, clean if it comes from the data.
LEMMA PopulateIsForm ==
    ASSUME NEW f \in Forms, NEW d \in Configs \cup {NoConfig}
    PROVE  /\ Populate(f, d) \in Forms
           /\ d # NoConfig => Populate(f, d) = [draft |-> d, dirty |-> FALSE, late |-> FALSE]
           /\ d = NoConfig => Populate(f, d) = f
BY DEF Populate, Forms

\* A form that shows a configuration shows a valid draft that the server keeps as it is.
LEMMA FilledIsCanon ==
    ASSUME NEW d \in Configs, NEW f, f = [draft |-> d, dirty |-> FALSE, late |-> FALSE]
    PROVE  ~f.dirty /\ f.draft # Blank /\ Canon[f.draft] = d
BY Zenon

LEMMA RefillIsForm ==
    ASSUME NEW f \in Forms, NEW d \in Configs \cup {NoConfig}
    PROVE  /\ Refill(f, d) \in Forms
           /\ f.dirty => Refill(f, d) = f
           /\ page = "config" /\ ~f.dirty => Refill(f, d) = Populate(f, d)
           /\ page # "config" => Refill(f, d) = f
<1>1. Populate(f, d) \in Forms BY PopulateIsForm
<1> QED BY <1>1 DEF Refill

\* The records that the actions build out of older ones.
LEMMA CleanForm ==
    ASSUME NEW f \in Forms, NEW b \in BOOLEAN
    PROVE  LET g == [f EXCEPT !.dirty = FALSE]
               h == [f EXCEPT !.dirty = FALSE, !.late = b]
           IN  /\ g \in Forms /\ ~g.dirty /\ g.draft = f.draft /\ g.late = f.late
               /\ h \in Forms /\ ~h.dirty /\ h.draft = f.draft /\ h.late = b
BY DEF Forms

LEMMA InitHolds == Init => FormInv
<1> SUFFICES ASSUME Init PROVE FormInv
    OBVIOUS
<1> USE DEF Init
<1>1. form \in Forms /\ ~form.dirty /\ page \in Pages
    BY DEF Forms, Pages
<1>2. fetch \in Fetches /\ fetch.answer = "none" /\ put \in Puts /\ put.on = FALSE
    BY DEF Fetches, Puts, NoFetch, NoPut, Answers
<1>3. confirm \in Confirms
    BY DEF Confirms
<1> QED BY <1>1, <1>2, <1>3 DEF FormInv, TypeOK, RequestsOK, FormIsConfig, EditsAreSeen

\* A refresh that begins.
LEMMA RefreshBegins ==
    ASSUME fetch \in Fetches, RequestsOK, NEW i \in BOOLEAN, NEW s \in BOOLEAN,
           RefreshState(i, s)
    PROVE  fetch' \in Fetches /\ (fetch'.answer = "ok" => fetch'.config \in Configs)
<1> DEFINE r == [NoFetch EXCEPT !.on = TRUE, !.initial = i, !.save = s]
<1>1. r \in Fetches /\ r.answer = "none"
    BY DEF NoFetch, Fetches, Answers
<1>2. fetch' = fetch \/ fetch' = r
    BY DEF RefreshState
<1> QED BY <1>1, <1>2 DEF RequestsOK

\* A form filled again, or not, while page and data stay, still shows the configuration.
LEMMA RefilledIsConfig ==
    ASSUME FormInv, form' \in {form, Refill(form, data)}, data' = data, page' = page
    PROVE  FormIsConfig' /\ EditsAreSeen'
<1> USE DEF FormInv
<1>1. data \in Configs \cup {NoConfig} /\ form \in Forms
    BY DEF TypeOK
<1>2. CASE form' = form
    BY <1>2 DEF FormIsConfig, EditsAreSeen
<1>3. CASE form' # form
    <2>1. page = "config" /\ ~form.dirty /\ data # NoConfig
          /\ form' = [draft |-> data, dirty |-> FALSE, late |-> FALSE]
        BY <1>1, <1>3, RefillIsForm, PopulateIsForm
    <2>2. ~form'.dirty /\ form'.draft # Blank /\ Canon[form'.draft] = data
        BY <1>1, <2>1, FilledIsCanon
    <2> QED BY <2>2 DEF FormIsConfig, EditsAreSeen
<1> QED BY <1>2, <1>3

\* The user's actions.
LEMMA UserKeeps ==
    ASSUME FormInv,
           \/ Login \/ Logout \/ Reload \/ SaveConfig \/ SetLanguage \/ ConfirmYes \/ ConfirmNo
    PROVE  FormInv'
<1> USE DEF FormInv
<1>0. TypeOK /\ RequestsOK /\ FormIsConfig /\ EditsAreSeen
    OBVIOUS
<1>d. data \in Configs \cup {NoConfig} /\ form \in Forms
    BY DEF TypeOK
<1>r. Refill(form, data) \in Forms /\ (form.dirty => Refill(form, data) = form)
    BY <1>d, RefillIsForm
<1>1. CASE Login
    <2>1. RefreshState(TRUE, FALSE) /\ form' = Refill(form, data) /\ signed' = TRUE
          /\ UNCHANGED <<page, data, stored, put, confirm, leaving, serviceBusy>>
        BY <1>1 DEF Login
    <2>2. fetch' \in Fetches /\ (fetch'.answer = "ok" => fetch'.config \in Configs)
        BY <2>1, RefreshBegins DEF TypeOK
    <2>3. TypeOK'
        BY <2>1, <2>2, <1>r DEF TypeOK
    <2>4. RequestsOK'
        BY <2>1, <2>2 DEF RequestsOK
    <2>5. FormIsConfig' /\ EditsAreSeen'
        BY <2>1, RefilledIsConfig
    <2> QED BY <2>3, <2>4, <2>5
<1>2. CASE Logout
    <2>1. TypeOK'
        <3>1. [for |-> "logout", page |-> "config"] \in Confirms
            BY DEF Confirms
        <3> QED BY <1>2, <3>1 DEF Logout, TypeOK
    <2> QED BY <1>2, <2>1 DEF Logout, RequestsOK, FormIsConfig, EditsAreSeen
<1>3. CASE Reload
    <2>1. form' \in Forms /\ ~form'.dirty /\ data' = NoConfig /\ page' \in Pages
        BY <1>3 DEF Reload, Forms, TypeOK, Pages
    <2>2. fetch' \in Fetches /\ fetch'.answer = "none" /\ put' \in Puts /\ put'.on = FALSE
        BY <1>3 DEF Reload, TypeOK, Fetches, Puts, NoFetch, NoPut, Answers
    <2>3. confirm' \in Confirms /\ leaving' = FALSE /\ serviceBusy' = FALSE
          /\ UNCHANGED <<signed, stored>>
        BY <1>3 DEF Reload, Confirms
    <2> QED BY <2>1, <2>2, <2>3 DEF TypeOK, RequestsOK, FormIsConfig, EditsAreSeen
<1>4. CASE SaveConfig
    <2>1. put' = [on |-> TRUE, body |-> form.draft, answer |-> "none"] /\ form.draft # Blank
          /\ UNCHANGED <<signed, page, form, data, stored, fetch, confirm, leaving, serviceBusy>>
        BY <1>4 DEF SaveConfig
    <2>2. put' \in Puts
        BY <2>1, <1>d DEF Puts, Answers, Forms
    <2> QED BY <2>1, <2>2 DEF TypeOK, RequestsOK, FormIsConfig, EditsAreSeen
<1>5. CASE SetLanguage
    <2>1. form' \in {form, Refill(form, data)}
          /\ UNCHANGED <<signed, page, data, stored, fetch, put, confirm, leaving, serviceBusy>>
        BY <1>5 DEF SetLanguage
    <2>2. TypeOK' /\ RequestsOK'
        BY <2>1, <1>r DEF TypeOK, RequestsOK
    <2>3. FormIsConfig' /\ EditsAreSeen'
        BY <2>1, RefilledIsConfig
    <2> QED BY <2>2, <2>3
<1>6. CASE ConfirmYes
    <2> DEFINE g == [form EXCEPT !.dirty = FALSE]
    <2>1. g \in Forms /\ ~g.dirty /\ g.draft = form.draft /\ g.late = form.late
        BY <1>d, CleanForm
    <2> HIDE DEF g
    <2>2. Populate(g, data) \in Forms
          /\ (data # NoConfig => Populate(g, data)
                                 = [draft |-> data, dirty |-> FALSE, late |-> FALSE])
          /\ (data = NoConfig => Populate(g, data) = g)
        BY <2>1, <1>d, PopulateIsForm
    <2>3. confirm' = NoConfirm /\ confirm' \in Confirms
        BY <1>6 DEF ConfirmYes, Confirms
    <2>4. UNCHANGED <<signed, data, stored, fetch, put>>
          /\ leaving' \in BOOLEAN /\ serviceBusy' \in BOOLEAN
        BY <1>6 DEF ConfirmYes, TypeOK, StartService
    <2>5. CASE confirm.for = "navigate"
        <3>1. confirm.page \in Pages
            BY <2>5 DEF TypeOK, Confirms, NoConfirm
        <3>2. page' = confirm.page
              /\ form' = IF page' = "config" THEN Populate(g, data) ELSE g
            BY <1>6, <2>5 DEF ConfirmYes, GoTo, g
        <3>3. TypeOK' /\ RequestsOK'
            BY <2>1, <2>2, <2>3, <2>4, <3>1, <3>2 DEF TypeOK, RequestsOK
        <3>4. CASE page' = "config" /\ data # NoConfig
            <4>1. ~form'.dirty /\ form'.draft # Blank /\ Canon[form'.draft] = data
                BY <1>d, <2>2, <3>2, <3>4, FilledIsCanon
            <4> QED BY <2>4, <3>3, <4>1 DEF FormIsConfig, EditsAreSeen
        <3>5. CASE ~(page' = "config" /\ data # NoConfig)
            <4>1. ~form'.dirty
                BY <2>1, <2>2, <3>2, <3>5
            <4> QED BY <2>4, <3>3, <3>5, <4>1 DEF FormIsConfig, EditsAreSeen
        <3> QED BY <3>4, <3>5
    <2>6. CASE confirm.for # "navigate"
        <3>1. UNCHANGED <<page, form>>
            BY <1>6, <2>6 DEF ConfirmYes
        <3> QED BY <2>3, <2>4, <3>1 DEF TypeOK, RequestsOK, FormIsConfig, EditsAreSeen
    <2> QED BY <2>5, <2>6
<1>7. CASE ConfirmNo
    <2>1. confirm' \in Confirms
        BY <1>7 DEF ConfirmNo, Confirms
    <2> QED BY <1>7, <2>1 DEF ConfirmNo, TypeOK, RequestsOK, FormIsConfig, EditsAreSeen
<1> QED BY <1>1, <1>2, <1>3, <1>4, <1>5, <1>6, <1>7

\* Edits, the ways between the pages, and the service page.
LEMMA PagesKeep ==
    ASSUME FormInv,
           \/ \E d \in Drafts : Edit(d)
           \/ \E p \in Pages : Navigate(p)
           \/ \E a \in Actions : ServiceAction(a)
    PROVE  FormInv'
<1> USE DEF FormInv
<1>0. TypeOK /\ RequestsOK /\ FormIsConfig /\ EditsAreSeen
    OBVIOUS
<1>d. data \in Configs \cup {NoConfig} /\ form \in Forms
    BY DEF TypeOK
<1>1. ASSUME NEW d \in Drafts, Edit(d) PROVE FormInv'
    <2>1. form' = [draft |-> d, dirty |-> TRUE, late |-> FALSE] /\ page = "config"
          /\ UNCHANGED <<signed, page, data, stored, fetch, put, confirm, leaving, serviceBusy>>
        BY <1>1 DEF Edit
    <2>2. form' \in Forms /\ form'.dirty
        BY <2>1 DEF Forms
    <2> QED BY <2>1, <2>2 DEF TypeOK, RequestsOK, FormIsConfig, EditsAreSeen
<1>2. ASSUME NEW p \in Pages, Navigate(p) PROVE FormInv'
    <2>1. UNCHANGED <<signed, data, stored, fetch, put, leaving, serviceBusy>>
        BY <1>2 DEF Navigate
    <2>2. CASE page = "config" /\ form.dirty
        <3>1. confirm' = [for |-> "navigate", page |-> p] /\ UNCHANGED <<page, form>>
            BY <1>2, <2>2 DEF Navigate
        <3>2. confirm' \in Confirms
            BY <3>1 DEF Confirms
        <3> QED BY <2>1, <3>1, <3>2 DEF TypeOK, RequestsOK, FormIsConfig, EditsAreSeen
    <2>3. CASE ~(page = "config" /\ form.dirty)
        <3>1. page' = p /\ confirm' = confirm /\ ~form.dirty
              /\ form' = IF p = "config" THEN Populate(form, data) ELSE form
            BY <1>2, <2>3 DEF Navigate, GoTo, EditsAreSeen
        <3>2. /\ Populate(form, data) \in Forms
              /\ data # NoConfig => Populate(form, data)
                                    = [draft |-> data, dirty |-> FALSE, late |-> FALSE]
              /\ data = NoConfig => Populate(form, data) = form
            BY <1>d, PopulateIsForm
        <3>3. TypeOK' /\ RequestsOK'
            BY <2>1, <3>1, <3>2 DEF TypeOK, RequestsOK
        <3>4. CASE p = "config" /\ data # NoConfig
            <4>1. ~form'.dirty /\ form'.draft # Blank /\ Canon[form'.draft] = data
                BY <1>d, <3>1, <3>2, <3>4, FilledIsCanon
            <4> QED BY <2>1, <3>3, <4>1 DEF FormIsConfig, EditsAreSeen
        <3>5. CASE ~(p = "config" /\ data # NoConfig)
            <4>1. form' = form
                BY <3>1, <3>2, <3>5
            <4> QED BY <2>1, <3>1, <3>3, <3>5, <4>1 DEF FormIsConfig, EditsAreSeen
        <3> QED BY <3>4, <3>5
    <2> QED BY <2>2, <2>3
<1>3. ASSUME NEW a \in Actions, ServiceAction(a) PROVE FormInv'
    <2>1. UNCHANGED <<signed, page, form, data, stored, fetch, put, leaving>>
          /\ confirm' \in {confirm, [for |-> "service", page |-> "config"]}
          /\ serviceBusy' \in {serviceBusy, TRUE}
        BY <1>3 DEF ServiceAction, StartService
    <2>2. confirm' \in Confirms /\ serviceBusy' \in BOOLEAN
        <3>1. [for |-> "service", page |-> "config"] \in Confirms
            BY DEF Confirms
        <3> QED BY <2>1, <3>1 DEF TypeOK
    <2> QED BY <2>1, <2>2 DEF TypeOK, RequestsOK, FormIsConfig, EditsAreSeen
<1> QED BY <1>1, <1>2, <1>3

\* Answers that arrive, and what the server does.
LEMMA AnswersKeep ==
    ASSUME FormInv, LeftSession \/ PutAnswered \/ Refresh \/ FetchAnswered \/ Served \/ OtherSave
    PROVE  FormInv'
<1> USE DEF FormInv
<1>0. TypeOK /\ RequestsOK /\ FormIsConfig /\ EditsAreSeen
    OBVIOUS
<1>d. data \in Configs \cup {NoConfig} /\ form \in Forms
    BY DEF TypeOK
<1>1. CASE LeftSession
    <2>1. form' = [form EXCEPT !.dirty = FALSE] /\ data' = NoConfig /\ leaving' = FALSE
          /\ signed' = FALSE /\ confirm' = NoConfirm
          /\ UNCHANGED <<page, stored, fetch, put, serviceBusy>>
        BY <1>1 DEF LeftSession, ResetSession
    <2>2. form' \in Forms /\ ~form'.dirty
        BY <1>d, <2>1, CleanForm
    <2> QED BY <2>1, <2>2 DEF TypeOK, RequestsOK, FormIsConfig, EditsAreSeen, Confirms
<1>2. CASE PutAnswered
    <2>1. put' = NoPut /\ put.on /\ UNCHANGED <<page, stored, leaving, serviceBusy>>
        BY <1>2 DEF PutAnswered
    <2>2. put' \in Puts /\ put'.on = FALSE
        BY <2>1 DEF Puts, NoPut, Answers
    <2>3. CASE put.answer = "ok" /\ data # NoConfig
        <3>1. /\ data' = Canon[put.body]
              /\ form' = [form EXCEPT !.dirty = FALSE, !.late = form.draft # put.body]
              /\ UNCHANGED <<signed, confirm>>
              /\ RefreshState(FALSE, TRUE)
            BY <1>2, <2>3 DEF PutAnswered
        <3>2. fetch' \in Fetches /\ (fetch'.answer = "ok" => fetch'.config \in Configs)
            BY <3>1, RefreshBegins DEF TypeOK
        <3>3. form' \in Forms /\ ~form'.dirty /\ form'.draft = form.draft
              /\ form'.late = (form.draft # put.body)
            BY <1>d, <3>1, CleanForm
        <3>4. put.body \in Drafts \ {Blank}
            BY <2>1 DEF TypeOK, RequestsOK, Puts
        <3>5. data' \in Configs
            BY <3>1, <3>4
        <3>6. TypeOK' /\ RequestsOK'
            BY <2>1, <2>2, <3>1, <3>2, <3>3, <3>5 DEF TypeOK, RequestsOK
        <3>7. FormIsConfig' /\ EditsAreSeen'
            BY <3>1, <3>3, <3>4 DEF FormIsConfig, EditsAreSeen
        <3> QED BY <3>6, <3>7
    <2>4. CASE ~(put.answer = "ok" /\ data # NoConfig)
        <3>1. UNCHANGED <<data, form, fetch>>
            BY <1>2, <2>4 DEF PutAnswered
        <3>2. IF put.answer = "denied" THEN ResetSession ELSE UNCHANGED <<signed, confirm>>
            BY <1>2, <2>4 DEF PutAnswered
        <3>3. signed' \in BOOLEAN /\ confirm' \in Confirms
            BY <3>2 DEF ResetSession, TypeOK, Confirms
        <3> QED BY <2>1, <2>2, <3>1, <3>3 DEF TypeOK, RequestsOK, FormIsConfig, EditsAreSeen
    <2> QED BY <2>3, <2>4
<1>3. CASE Refresh
    <2>1. RefreshState(FALSE, FALSE) /\ signed' = signed
          /\ UNCHANGED <<page, form, data, stored, put, confirm, leaving, serviceBusy>>
        BY <1>3 DEF Refresh
    <2>2. fetch' \in Fetches /\ (fetch'.answer = "ok" => fetch'.config \in Configs)
        BY <2>1, RefreshBegins DEF TypeOK
    <2> QED BY <2>1, <2>2 DEF TypeOK, RequestsOK, FormIsConfig, EditsAreSeen
<1>4. CASE FetchAnswered
    <2>1. fetch' = NoFetch /\ UNCHANGED <<page, stored, put, leaving, serviceBusy>>
          /\ IF fetch.answer = "denied" THEN ResetSession ELSE UNCHANGED <<signed, confirm>>
        BY <1>4 DEF FetchAnswered
    <2>2. fetch' \in Fetches /\ fetch'.answer = "none" /\ signed' \in BOOLEAN
          /\ confirm' \in Confirms
        <3>1. fetch' \in Fetches /\ fetch'.answer = "none"
            BY <2>1 DEF Fetches, NoFetch, Answers
        <3>2. signed' \in BOOLEAN /\ confirm' \in Confirms
            BY <2>1 DEF ResetSession, TypeOK, Confirms
        <3> QED BY <3>1, <3>2
    <2>3. CASE fetch.answer = "ok"
        <3>1. data' = fetch.config /\ fetch.config \in Configs
              /\ form' = IF fetch.initial THEN Populate(form, fetch.config)
                         ELSE Refill(form, fetch.config)
            BY <1>4, <2>3 DEF FetchAnswered, RequestsOK
        <3>2. /\ Populate(form, fetch.config) \in Forms
              /\ Populate(form, fetch.config)
                    = [draft |-> fetch.config, dirty |-> FALSE, late |-> FALSE]
            BY <1>d, <3>1, PopulateIsForm
        <3>3. form' \in Forms /\ (form' = form \/ form' = Populate(form, fetch.config))
              /\ (page = "config" /\ ~form.dirty => form' = Populate(form, fetch.config))
            BY <1>d, <3>1, <3>2, RefillIsForm
        <3>4. TypeOK' /\ RequestsOK'
            BY <2>1, <2>2, <3>1, <3>3 DEF TypeOK, RequestsOK
        <3>5. CASE form' # Populate(form, fetch.config)
            BY <2>1, <3>2, <3>3, <3>4, <3>5 DEF FormIsConfig, EditsAreSeen
        <3>6. CASE form' = Populate(form, fetch.config)
            <4>1. ~form'.dirty /\ form'.draft # Blank /\ Canon[form'.draft] = fetch.config
                BY <3>1, <3>2, <3>6, FilledIsCanon
            <4> QED BY <3>1, <3>4, <4>1 DEF FormIsConfig, EditsAreSeen
        <3> QED BY <3>3, <3>5, <3>6
    <2>4. CASE fetch.answer # "ok"
        <3>1. UNCHANGED <<data, form>>
            BY <1>4, <2>4 DEF FetchAnswered
        <3> QED BY <2>1, <2>2, <3>1 DEF TypeOK, RequestsOK, FormIsConfig, EditsAreSeen
    <2> QED BY <2>3, <2>4
<1>5. ASSUME NEW answer \in Answers \ {"none"}, ServeState(answer) PROVE FormInv'
    <2>1. fetch' = [fetch EXCEPT !.answer = answer,
                                 !.config = IF answer = "ok" THEN stored ELSE NoConfig]
          /\ UNCHANGED <<signed, page, form, data, stored, put, confirm, leaving, serviceBusy>>
        BY <1>5 DEF ServeState
    <2>2. fetch' \in Fetches /\ (fetch'.answer = "ok" => fetch'.config \in Configs)
        BY <2>1 DEF Fetches, TypeOK
    <2> QED BY <2>1, <2>2 DEF TypeOK, RequestsOK, FormIsConfig, EditsAreSeen
<1>6. ASSUME NEW answer \in Answers \ {"none"}, ServePut(answer) PROVE FormInv'
    <2>1. put' = [put EXCEPT !.answer = answer] /\ put.on
          /\ stored' \in {stored, Canon[put.body]}
          /\ UNCHANGED <<signed, page, form, data, fetch, confirm, leaving, serviceBusy>>
        BY <1>6 DEF ServePut
    <2>2. put' \in Puts /\ put'.body = put.body
        BY <2>1 DEF Puts, TypeOK
    <2>3. stored' \in Configs
        <3>1. put.body \in Drafts \ {Blank}
            BY <2>1 DEF TypeOK, RequestsOK, Puts
        <3> QED BY <2>1, <3>1 DEF TypeOK
    <2> QED BY <2>1, <2>2, <2>3 DEF TypeOK, RequestsOK, FormIsConfig, EditsAreSeen
<1>7. CASE OtherSave
    BY <1>7 DEF OtherSave, TypeOK, RequestsOK, FormIsConfig, EditsAreSeen
<1> QED BY <1>1, <1>2, <1>3, <1>4, <1>5, <1>6, <1>7 DEF Served

LEMMA FormInvariant == Spec => []FormInv
<1>1. FormInv /\ [Next]_vars => FormInv'
    <2>1. ASSUME FormInv, UNCHANGED vars PROVE FormInv'
        BY <2>1 DEF vars, FormInv, TypeOK, RequestsOK, FormIsConfig, EditsAreSeen
    <2> QED BY <2>1, UserKeeps, PagesKeep, AnswersKeep DEF Next, User
<1> QED BY <1>1, InitHolds, PTL DEF Spec

\* The page's state has its types, whatever is answered when.
THEOREM TypesHold == Spec => []TypeOK
<1>1. FormInv => TypeOK
    BY DEF FormInv
<1> QED BY <1>1, FormInvariant, PTL

\* A clean form shows the configuration that the page last heard of (app.js:1293-1307).
THEOREM FormShowsConfig == Spec => []FormIsConfig
<1>1. FormInv => FormIsConfig
    BY DEF FormInv
<1> QED BY <1>1, FormInvariant, PTL

\* Marked edits are on the screen (app.js:1177-1183).
THEOREM EditsStayOnScreen == Spec => []EditsAreSeen
<1>1. FormInv => EditsAreSeen
    BY DEF FormInv
<1> QED BY <1>1, FormInvariant, PTL

\* What may happen to marked edits.
EditsGo ==
    \/ form'.dirty /\ \E d \in Drafts : Edit(d)
    \/ ConfirmYes /\ confirm.for = "navigate"
    \/ PutAnswered /\ put.answer = "ok"
    \/ FetchAnswered /\ fetch.initial
    \/ LeftSession \/ Reload

\* No timer, language or late answer of another kind takes edits away (app.js:891,
\* 1177-1183, 1315-1338).
THEOREM DraftIsKept == Spec => DraftKept
<1>1. FormInv /\ [Next]_vars => [form.dirty /\ form' # form => EditsGo]_vars
    <2> SUFFICES ASSUME FormInv, Next, form.dirty, form' # form PROVE EditsGo
        BY DEF vars
    <2> USE DEF EditsGo
    <2>d. data \in Configs \cup {NoConfig} /\ form \in Forms
        BY DEF FormInv, TypeOK
    <2>r. Refill(form, data) = form
        BY <2>d, RefillIsForm
    <2>1. CASE Login \/ SetLanguage
        BY <2>1, <2>r DEF Login, SetLanguage
    <2>2. CASE Logout \/ SaveConfig \/ ConfirmNo \/ Refresh \/ OtherSave
        BY <2>2 DEF Logout, SaveConfig, ConfirmNo, Refresh, OtherSave
    <2>3. CASE Reload \/ LeftSession
        BY <2>3
    <2>4. CASE ConfirmYes
        BY <2>4 DEF ConfirmYes
    <2>5. ASSUME NEW d \in Drafts, Edit(d) PROVE EditsGo
        <3>1. form'.dirty
            BY <2>5 DEF Edit
        <3> QED BY <2>5, <3>1
    <2>6. ASSUME NEW p \in Pages, Navigate(p) PROVE EditsGo
        BY <2>6 DEF Navigate, FormInv, EditsAreSeen
    <2>7. ASSUME NEW a \in Actions, ServiceAction(a) PROVE EditsGo
        BY <2>7 DEF ServiceAction
    <2>8. CASE PutAnswered
        BY <2>8 DEF PutAnswered
    <2>9. CASE FetchAnswered
        <3>1. CASE fetch.initial
            BY <2>9, <3>1
        <3>2. CASE ~fetch.initial
            <4>1. form' = form \/ (fetch.answer = "ok" /\ form' = Refill(form, fetch.config))
                BY <2>9, <3>2 DEF FetchAnswered
            <4>2. fetch.answer = "ok" => fetch.config \in Configs
                BY DEF FormInv, RequestsOK
            <4> QED BY <2>d, <4>1, <4>2, RefillIsForm
        <3> QED BY <3>1, <3>2
    <2>10. CASE Served
        BY <2>10 DEF Served, ServeState, ServePut
    <2> QED BY <2>1, <2>2, <2>3, <2>4, <2>5, <2>6, <2>7, <2>8, <2>9, <2>10 DEF Next, User
<1>2. [][form.dirty /\ form' # form => EditsGo]_vars => DraftKept
    BY DEF DraftKept, EditsGo
<1> QED BY <1>1, <1>2, FormInvariant, PTL DEF Spec

=============================================================================
