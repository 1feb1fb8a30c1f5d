----------------------------- MODULE FilesProofs -----------------------------
(***************************************************************************)
(* The file manager for every tree, every set of paths and every           *)
(* behaviour of the disk: its types, the agreement of what is on the       *)
(* screen, and that Back and Forward implement the tape of History; all of *)
(* it also in the window around the file manager, and beside a search.     *)
(* And the search, for every tree and all limits: what it reports of a tree*)
(* at rest, and what it does not miss when others change the tree.         *)
(***************************************************************************)
EXTENDS Files, SequenceTheorems, FiniteSetTheorems, WellFoundedInduction, TLAPS

(* The types the screen needs to agree with itself, and the reverse.        *)
BrowserInv == TypeOK /\ ScreenIsOfOneDirectory

-----------------------------------------------------------------------------
(* Sequences. *)

LEMMA ReverseProperties ==
  ASSUME NEW S, NEW s \in Seq(S)
  PROVE  /\ Reverse(s) \in Seq(S)
         /\ Len(Reverse(s)) = Len(s)
         /\ \A i \in 1..Len(s) : Reverse(s)[i] = s[Len(s) - i + 1]
BY DEF Reverse

LEMMA FrontLast ==
  ASSUME NEW S, NEW s \in Seq(S), s # <<>>
  PROVE  /\ Front(s) \in Seq(S)
         /\ Len(Front(s)) = Len(s) - 1
         /\ \A i \in 1..(Len(s) - 1) : Front(s)[i] = s[i]
         /\ Last(s) \in S
         /\ Append(Front(s), Last(s)) = s
<1>1. Len(s) \in Nat /\ Len(s) > 0
  BY EmptySeq
<1>2. /\ Front(s) \in Seq(S)
      /\ Len(Front(s)) = Len(s) - 1
      /\ \A i \in 1..(Len(s) - 1) : Front(s)[i] = s[i]
  <2>1. Len(s) - 1 \in 0..Len(s) /\ 1 \in 1..(Len(s) + 1)
    BY <1>1
  <2> DEFINE n == Len(s) - 1
  <2>2. n \in Nat /\ n <= Len(s)
    BY <1>1
  <2> HIDE DEF n
  <2>3. /\ SubSeq(s, 1, n) \in Seq(S)
        /\ Len(SubSeq(s, 1, n)) = n
        /\ \A i \in 1..n : SubSeq(s, 1, n)[i] = s[i]
    BY <2>2, <1>1
  <2> QED BY <2>3 DEF Front, n
<1>3. Last(s) \in S
  BY <1>1, ElementOfSeq DEF Last
<1>4. Append(Front(s), Last(s)) = s
  <2>1. /\ Append(Front(s), Last(s)) \in Seq(S)
        /\ Len(Append(Front(s), Last(s))) = Len(s)
        /\ \A i \in 1..(Len(s) - 1) : Append(Front(s), Last(s))[i] = s[i]
        /\ Append(Front(s), Last(s))[Len(s)] = s[Len(s)]
    BY <1>1, <1>2, <1>3, AppendProperties DEF Last
  <2>2. ASSUME NEW i \in 1..Len(s) PROVE Append(Front(s), Last(s))[i] = s[i]
    BY <1>1, <2>1
  <2> QED BY <1>1, <2>1, <2>2, SeqEqual
<1> QED BY <1>2, <1>3, <1>4

(* The pages behind, the page shown, and the pages ahead, nearest last. *)
Laid(behind, shown, ahead) == Append(behind, shown) \o Reverse(ahead)

(* The same, entry by entry. *)
IsLaid(t, b, c, f) ==
  /\ Len(t) = Len(b) + 1 + Len(f)
  /\ \A i \in 1..Len(b) : t[i] = b[i]
  /\ t[Len(b) + 1] = c
  /\ \A i \in 1..Len(f) : t[Len(b) + 1 + i] = f[Len(f) - i + 1]

LEMMA LaidProperties ==
  ASSUME NEW S, NEW b \in Seq(S), NEW c \in S, NEW f \in Seq(S)
  PROVE  /\ Laid(b, c, f) \in Seq(S)
         /\ IsLaid(Laid(b, c, f), b, c, f)
<1> DEFINE left == Append(b, c)
           right == Reverse(f)
<1>1. Len(b) \in Nat /\ Len(f) \in Nat
  BY LenProperties
<1>2. /\ left \in Seq(S)
      /\ Len(left) = Len(b) + 1
      /\ \A i \in 1..Len(b) : left[i] = b[i]
      /\ left[Len(b) + 1] = c
  BY AppendProperties
<1>3. /\ right \in Seq(S)
      /\ Len(right) = Len(f)
      /\ \A i \in 1..Len(f) : right[i] = f[Len(f) - i + 1]
  BY ReverseProperties
<1> HIDE DEF left, right
<1>4. /\ left \o right \in Seq(S)
      /\ Len(left \o right) = Len(left) + Len(right)
      /\ \A i \in 1..Len(left) : (left \o right)[i] = left[i]
      /\ \A i \in 1..Len(right) : (left \o right)[Len(left) + i] = right[i]
  <2>1. /\ left \o right \in Seq(S)
        /\ Len(left \o right) = Len(left) + Len(right)
        /\ \A i \in 1..(Len(left) + Len(right)) : (left \o right)[i] =
             IF i <= Len(left) THEN left[i] ELSE right[i - Len(left)]
    BY <1>2, <1>3, ConcatProperties
  <2>2. Len(left) \in Nat /\ Len(right) \in Nat
    BY <1>2, <1>3, LenProperties
  <2>3. ASSUME NEW i \in 1..Len(left) PROVE (left \o right)[i] = left[i]
    BY <2>1, <2>2
  <2>4. ASSUME NEW i \in 1..Len(right)
        PROVE  (left \o right)[Len(left) + i] = right[i]
    <3>1. /\ Len(left) + i \in 1..(Len(left) + Len(right))
          /\ ~(Len(left) + i <= Len(left))
          /\ Len(left) + i - Len(left) = i
      BY <2>2
    <3> QED BY <2>1, <3>1
  <2> QED BY <2>1, <2>3, <2>4
<1>5. Laid(b, c, f) = left \o right
  BY DEF Laid, left, right
<1>6. Len(b) + 1 \in 1..Len(left) /\ \A i \in 1..Len(b) : i \in 1..Len(left)
  BY <1>1, <1>2
<1>7. /\ Laid(b, c, f) \in Seq(S)
      /\ Len(Laid(b, c, f)) = Len(b) + 1 + Len(f)
  BY <1>2, <1>3, <1>4, <1>5
<1>8. ASSUME NEW i \in 1..Len(b) PROVE Laid(b, c, f)[i] = b[i]
  BY <1>2, <1>4, <1>5, <1>6
<1>9. Laid(b, c, f)[Len(b) + 1] = c
  BY <1>2, <1>4, <1>5, <1>6
<1>10. ASSUME NEW i \in 1..Len(f)
       PROVE  Laid(b, c, f)[Len(b) + 1 + i] = f[Len(f) - i + 1]
  BY <1>2, <1>3, <1>4, <1>5
<1> QED BY <1>7, <1>8, <1>9, <1>10 DEF IsLaid

(* What determines how pages are laid out. *)
LEMMA LaidEqual ==
  ASSUME NEW S, NEW b \in Seq(S), NEW c \in S, NEW f \in Seq(S),
         NEW t \in Seq(S), IsLaid(t, b, c, f)
  PROVE  t = Laid(b, c, f)
<1> DEFINE all == Laid(b, c, f)
<1>1. Len(b) \in Nat /\ Len(f) \in Nat
  BY LenProperties
<1>2. /\ all \in Seq(S)
      /\ Len(all) = Len(b) + 1 + Len(f)
      /\ \A i \in 1..Len(b) : all[i] = b[i]
      /\ all[Len(b) + 1] = c
      /\ \A i \in 1..Len(f) : all[Len(b) + 1 + i] = f[Len(f) - i + 1]
  <2> HIDE DEF all
  <2>1. all \in Seq(S) /\ IsLaid(all, b, c, f)
    BY LaidProperties DEF all
  <2> QED BY <2>1 DEF IsLaid
<1> HIDE DEF all
<1>0. /\ Len(t) = Len(b) + 1 + Len(f)
      /\ \A i \in 1..Len(b) : t[i] = b[i]
      /\ t[Len(b) + 1] = c
      /\ \A i \in 1..Len(f) : t[Len(b) + 1 + i] = f[Len(f) - i + 1]
  BY DEF IsLaid
<1>3. ASSUME NEW i \in 1..Len(t) PROVE t[i] = all[i]
  <2>1. CASE i \in 1..Len(b)
    BY <2>1, <1>2, <1>0
  <2>2. CASE i = Len(b) + 1
    BY <2>2, <1>2, <1>0
  <2>3. CASE i > Len(b) + 1
    <3> DEFINE j == i - (Len(b) + 1)
    <3>1. j \in 1..Len(f) /\ i = Len(b) + 1 + j
      BY <2>3, <1>1, <1>0
    <3> HIDE DEF j
    <3> QED BY <3>1, <1>2, <1>0
  <2> QED BY <2>1, <2>2, <2>3, <1>1, <1>0
<1>4. t = all
  BY <1>2, <1>3, <1>0, SeqEqual
<1> QED BY <1>4 DEF all

(* A step back or forward lays the same pages out around another one. *)
LEMMA LaidBack ==
  ASSUME NEW S, NEW b \in Seq(S), NEW c \in S, NEW f \in Seq(S), b # <<>>
  PROVE  Laid(Front(b), Last(b), Append(f, c)) = Laid(b, c, f)
<1> DEFINE old == Laid(b, c, f)
           fb == Front(b)
           fc == Append(f, c)
<1>1. Len(b) \in Nat /\ Len(b) > 0 /\ Len(f) \in Nat
  BY EmptySeq, LenProperties
<1>2. /\ fb \in Seq(S)
      /\ Len(fb) = Len(b) - 1
      /\ \A i \in 1..(Len(b) - 1) : fb[i] = b[i]
      /\ Last(b) \in S
  BY FrontLast
<1>3. /\ fc \in Seq(S)
      /\ Len(fc) = Len(f) + 1
      /\ \A i \in 1..Len(f) : fc[i] = f[i]
      /\ fc[Len(f) + 1] = c
  BY AppendProperties
<1>4. /\ old \in Seq(S)
      /\ Len(old) = Len(b) + 1 + Len(f)
      /\ \A i \in 1..Len(b) : old[i] = b[i]
      /\ old[Len(b) + 1] = c
      /\ \A i \in 1..Len(f) : old[Len(b) + 1 + i] = f[Len(f) - i + 1]
  <2> HIDE DEF old
  <2>1. old \in Seq(S) /\ IsLaid(old, b, c, f)
    BY LaidProperties DEF old
  <2> QED BY <2>1 DEF IsLaid
<1> HIDE DEF old, fb, fc
<1>5. Len(old) = Len(fb) + 1 + Len(fc)
  BY <1>1, <1>2, <1>3, <1>4
<1>6. \A i \in 1..Len(fb) : old[i] = fb[i]
  BY <1>1, <1>2, <1>4
<1>7. old[Len(fb) + 1] = Last(b)
  <2>1. Len(fb) + 1 = Len(b) /\ Len(b) \in 1..Len(b)
    BY <1>1, <1>2
  <2> QED BY <2>1, <1>4 DEF Last
<1>8. ASSUME NEW i \in 1..Len(fc)
      PROVE  old[Len(fb) + 1 + i] = fc[Len(fc) - i + 1]
  <2>1. CASE i = 1
    <3>1. Len(fb) + 1 + i = Len(b) + 1 /\ Len(fc) - i + 1 = Len(f) + 1
      BY <2>1, <1>1, <1>2, <1>3
    <3> QED BY <3>1, <1>3, <1>4
  <2>2. CASE i # 1
    <3> DEFINE j == i - 1
    <3>1. /\ j \in 1..Len(f)
          /\ Len(fb) + 1 + i = Len(b) + 1 + j
          /\ Len(fc) - i + 1 = Len(f) - j + 1
          /\ Len(f) - j + 1 \in 1..Len(f)
      BY <2>2, <1>1, <1>2, <1>3
    <3> HIDE DEF j
    <3> QED BY <3>1, <1>3, <1>4
  <2> QED BY <2>1, <2>2
<1>9. old = Laid(fb, Last(b), fc)
  <2>1. IsLaid(old, fb, Last(b), fc)
    BY <1>4, <1>5, <1>6, <1>7, <1>8 DEF IsLaid
  <2> QED BY <1>2, <1>3, <1>4, <2>1, LaidEqual
<1> QED BY <1>9 DEF old, fb, fc

LEMMA LaidForward ==
  ASSUME NEW S, NEW b \in Seq(S), NEW c \in S, NEW f \in Seq(S), f # <<>>
  PROVE  Laid(Append(b, c), Last(f), Front(f)) = Laid(b, c, f)
<1> DEFINE bc == Append(b, c)
<1>1. Len(b) \in Nat
  BY LenProperties
<1>2. /\ bc \in Seq(S)
      /\ Len(bc) = Len(b) + 1
      /\ bc[Len(b) + 1] = c
      /\ \A i \in 1..Len(b) : bc[i] = b[i]
  BY AppendProperties
<1> HIDE DEF bc
<1>3. bc # <<>>
  BY <1>1, <1>2, EmptySeq
<1>4. Front(f) \in Seq(S) /\ Last(f) \in S /\ Append(Front(f), Last(f)) = f
  BY FrontLast
<1>5. Laid(Front(bc), Last(bc), Append(Front(f), Last(f)))
        = Laid(bc, Last(f), Front(f))
  BY <1>2, <1>3, <1>4, LaidBack
<1>6. Last(bc) = c
  BY <1>2 DEF Last
<1>7. Front(bc) = b
  <2>1. /\ Front(bc) \in Seq(S)
        /\ Len(Front(bc)) = Len(bc) - 1
        /\ \A i \in 1..(Len(bc) - 1) : Front(bc)[i] = bc[i]
    BY <1>2, <1>3, FrontLast
  <2>2. Len(bc) - 1 = Len(b)
    BY <1>1, <1>2
  <2>3. ASSUME NEW i \in 1..Len(b) PROVE Front(bc)[i] = b[i]
    BY <1>2, <2>1, <2>2
  <2> QED BY <2>1, <2>2, <2>3, SeqEqual
<1>8. Laid(b, c, f) = Laid(bc, Last(f), Front(f))
  BY <1>4, <1>5, <1>6, <1>7
<1> QED BY <1>8 DEF bc

(* A visit cuts the tape behind the page shown and adds the new one. *)
LEMMA LaidVisit ==
  ASSUME NEW S, NEW b \in Seq(S), NEW c \in S, NEW f \in Seq(S), NEW p \in S
  PROVE  Laid(Append(b, c), p, <<>>)
           = Append(SubSeq(Laid(b, c, f), 1, Len(b) + 1), p)
<1> DEFINE all == Laid(b, c, f)
           n == Len(b) + 1
           bc == Append(b, c)
<1>1. Len(b) \in Nat /\ Len(f) \in Nat
  BY LenProperties
<1>2. /\ bc \in Seq(S)
      /\ Len(bc) = n
      /\ \A i \in 1..Len(b) : bc[i] = b[i]
      /\ bc[n] = c
  BY AppendProperties
<1>3. /\ all \in Seq(S)
      /\ Len(all) = n + Len(f)
      /\ \A i \in 1..Len(b) : all[i] = b[i]
      /\ all[n] = c
  BY LaidProperties DEF IsLaid
<1>4. n \in Nat /\ n - 1 = Len(b) /\ n <= n + Len(f) /\ n > 0
  BY <1>1
<1> HIDE DEF all, n, bc
<1>5. /\ SubSeq(all, 1, n) \in Seq(S)
      /\ Len(SubSeq(all, 1, n)) = n
      /\ \A i \in 1..n : SubSeq(all, 1, n)[i] = all[i]
  BY <1>1, <1>3, <1>4
<1>6. SubSeq(all, 1, n) = bc
  <2>1. ASSUME NEW i \in 1..n PROVE all[i] = bc[i]
    <3>1. CASE i = n
      BY <3>1, <1>2, <1>3
    <3>2. CASE i # n
      <4>1. i \in 1..Len(b)
        BY <3>2, <1>1, <1>4
      <4> QED BY <4>1, <1>2, <1>3
    <3> QED BY <3>1, <3>2
  <2> QED BY <1>2, <1>5, <2>1, SeqEqual
<1>7. Reverse(<<>>) = <<>>
  <2>1. <<>> \in Seq(S) /\ Len(<<>>) = 0
    BY EmptySeq
  <2>2. Reverse(<<>>) \in Seq(S) /\ Len(Reverse(<<>>)) = 0
    BY <2>1, ReverseProperties
  <2> QED BY <2>2, EmptySeq
<1>8. Append(bc, p) \in Seq(S)
  BY <1>2, AppendProperties
<1>9. Laid(bc, p, <<>>) = Append(bc, p)
  BY <1>7, <1>8, ConcatEmptySeq DEF Laid
<1> QED BY <1>6, <1>9 DEF all, n, bc

-----------------------------------------------------------------------------
(* Paths. *)

LEMMA SpellTyped ==
  ASSUME NEW n \in Places, NEW form \in Forms,
         n = Root => form \notin {"doubled", "dotted"}
  PROVE  Spell(n, form) \in Paths /\ Spell(n, form).node = n
BY DEF Spell, Paths, Forms

(* A listing leads from a path into the nodes below it. *)
LEMMA ChildTyped ==
  ASSUME NEW p \in Paths, NEW n \in Nodes
  PROVE  /\ ChildPath(p, n) \in Paths
         /\ ChildPath(p, n).node = n
         /\ DirOf(ChildPath(p, n)) = n
<1>1. n \in Places /\ n # Root
  BY DirectoriesAssumption DEF Places
<1>2. PICK form \in {"doubled", "plain"} : ChildPath(p, n) = Spell(n, form)
  BY DEF ChildPath
<1>3. ChildPath(p, n) \in Paths /\ ChildPath(p, n).node = n
  BY <1>1, <1>2, SpellTyped DEF Forms
<1>4. ChildPath(p, n).form # "dotted"
  BY <1>2 DEF Spell
<1> QED BY <1>3, <1>4 DEF DirOf

LEMMA ParentTyped ==
  ASSUME NEW p \in Paths, ParentPath(p) # Nothing
  PROVE  ParentPath(p) \in Paths
<1>1. p.node \in Nodes
  BY DEF ParentPath, Paths, Places
<1>2. Up[p.node] \in Places /\ p.node \in Places
  BY <1>1, DirectoriesAssumption DEF Places
<1>3. PICK n \in Places, form \in {"trailing", "trailing2"} :
        ParentPath(p) = Spell(n, form)
  BY <1>1, <1>2, DirectoriesAssumption DEF ParentPath
<1> QED BY <1>3, SpellTyped DEF Forms

LEMMA EntriesTyped ==
  ASSUME NEW p \in Paths
  PROVE  /\ EntriesOf(p) \subseteq Entries
         /\ \A e \in EntriesOf(p) : /\ e.path = ChildPath(p, e.path.node)
                                    /\ Up[DirOf(e.path)] = DirOf(p)
<1> SUFFICES ASSUME NEW e \in EntriesOf(p)
             PROVE  /\ e \in Entries
                    /\ e.path = ChildPath(p, e.path.node)
                    /\ Up[DirOf(e.path)] = DirOf(p)
  OBVIOUS
<1>1. PICK n \in Children(DirOf(p)) :
        e = [path |-> ChildPath(p, n), directory |-> IsDirectory(disk[n])]
  BY DEF EntriesOf
<1>2. n \in Nodes /\ Up[n] = DirOf(p)
  BY DEF Children
<1>3. /\ ChildPath(p, n) \in Paths
      /\ ChildPath(p, n).node = n
      /\ DirOf(ChildPath(p, n)) = n
  BY <1>2, ChildTyped
<1>4. IsDirectory(disk[n]) \in BOOLEAN
  BY DEF IsDirectory
<1> QED BY <1>1, <1>2, <1>3, <1>4 DEF Entries

-----------------------------------------------------------------------------
(* The browser. *)

(* What a listing that worked leaves on the screen. *)
LEMMA ShowKeepsScreen ==
  ASSUME BrowserInv, NEW p \in Paths, Show(p),
         back' \in Seq(Paths), forward' \in Seq(Paths)
  PROVE  BrowserInv'
<1>1. /\ EntriesOf(p) \subseteq Entries
      /\ \A e \in EntriesOf(p) : /\ e.path = ChildPath(p, e.path.node)
                                 /\ Up[DirOf(e.path)] = DirOf(p)
  BY EntriesTyped
<1>2. /\ current' = p /\ entries' = EntriesOf(p) /\ selected' = Nothing
      /\ failed' = FALSE /\ loaded' = TRUE /\ filter' = filter
  BY DEF Show
<1>3. TypeOK'
  BY <1>1, <1>2 DEF BrowserInv, TypeOK
<1>4. ScreenIsOfOneDirectory'
  BY <1>1, <1>2 DEF ScreenIsOfOneDirectory
<1> QED BY <1>3, <1>4 DEF BrowserInv

LEMMA VisitKeepsScreen ==
  ASSUME BrowserInv, NEW p \in Paths, Visit(p)
  PROVE  BrowserInv'
<1>1. Show(p)
  BY DEF Visit
<1>2. back' \in Seq(Paths) /\ forward' \in Seq(Paths)
  <2>1. current \in Paths /\ back \in Seq(Paths) /\ forward \in Seq(Paths)
    BY DEF BrowserInv, TypeOK
  <2>2. Append(back, current) \in Seq(Paths) /\ <<>> \in Seq(Paths)
    BY <2>1, AppendProperties, EmptySeq
  <2>3. CASE p = current
    BY <2>1, <2>3 DEF Visit
  <2>4. CASE p # current
    BY <2>2, <2>4 DEF Visit
  <2> QED BY <2>3, <2>4
<1> QED BY <1>1, <1>2, ShowKeepsScreen

LEMMA InitTyped == Init => BrowserInv
<1> SUFFICES ASSUME Init PROVE BrowserInv
  OBVIOUS
<1>1. /\ back = <<>> /\ forward = <<>> /\ filter = Nodes /\ selected = Nothing
      /\ back \in Seq(Paths) /\ forward \in Seq(Paths)
  BY EmptySeq DEF Init
<1>2. PICK p \in Typed : /\ Shown(p) \/ (Unshown(p) /\ failed = TRUE)
                         /\ failed \in BOOLEAN
  <2>1. PICK preferred, fallback \in Typed :
          \/ CanList(preferred) /\ Shown(preferred) /\ failed = FALSE
          \/ /\ preferred # fallback
             /\ CanList(fallback) /\ Shown(fallback) /\ failed = TRUE
          \/ Unshown(fallback) /\ failed = TRUE
    BY DEF Init
  <2>2. CASE Shown(preferred) /\ failed = FALSE
    BY <2>2
  <2>3. CASE Shown(fallback) /\ failed = TRUE
    BY <2>3
  <2>4. CASE Unshown(fallback) /\ failed = TRUE
    BY <2>4
  <2> QED BY <2>1, <2>2, <2>3, <2>4
<1>3. p \in Paths
  BY FileBrowserAssumption
<1>4. CASE Shown(p)
  <2>1. /\ entries \subseteq Entries
        /\ \A e \in entries : /\ e.path = ChildPath(p, e.path.node)
                              /\ Up[DirOf(e.path)] = DirOf(p)
    BY <1>3, <1>4, EntriesTyped DEF Shown
  <2> QED BY <1>1, <1>2, <1>3, <1>4, <2>1
          DEF Shown, BrowserInv, TypeOK, ScreenIsOfOneDirectory
<1>5. CASE Unshown(p) /\ failed = TRUE
  BY <1>1, <1>3, <1>5 DEF Unshown, BrowserInv, TypeOK, ScreenIsOfOneDirectory
<1> QED BY <1>2, <1>4, <1>5

LEMMA NextKeepsScreen == BrowserInv /\ [Next]_vars => BrowserInv'
<1> SUFFICES ASSUME BrowserInv, [Next]_vars PROVE BrowserInv'
  OBVIOUS
<1>0. current \in Paths /\ back \in Seq(Paths) /\ forward \in Seq(Paths)
  BY DEF BrowserInv, TypeOK
<1>1. CASE Refresh
  BY <1>0, <1>1, ShowKeepsScreen DEF Refresh
<1>2. CASE Submit
  BY <1>2, FileBrowserAssumption, VisitKeepsScreen DEF Submit
<1>3. CASE Parent
  BY <1>0, <1>3, ParentTyped, VisitKeepsScreen DEF Parent
<1>4. CASE Enter
  <2>1. PICK e \in entries : Visit(e.path)
    BY <1>4 DEF Enter, Visible
  <2>2. e.path \in Paths
    BY DEF BrowserInv, TypeOK, Entries
  <2> QED BY <2>1, <2>2, VisitKeepsScreen
<1>5. CASE GoBack
  <2>1. /\ Front(back) \in Seq(Paths) /\ Last(back) \in Paths
        /\ Append(forward, current) \in Seq(Paths)
    BY <1>0, <1>5, FrontLast, AppendProperties DEF GoBack
  <2>2. Show(Last(back)) /\ back' \in Seq(Paths) /\ forward' \in Seq(Paths)
    BY <1>5, <2>1 DEF GoBack
  <2> QED BY <2>1, <2>2, ShowKeepsScreen
<1>6. CASE GoForward
  <2>1. /\ Front(forward) \in Seq(Paths) /\ Last(forward) \in Paths
        /\ Append(back, current) \in Seq(Paths)
    BY <1>0, <1>6, FrontLast, AppendProperties DEF GoForward
  <2>2. Show(Last(forward)) /\ back' \in Seq(Paths) /\ forward' \in Seq(Paths)
    BY <1>6, <2>1 DEF GoForward
  <2> QED BY <2>1, <2>2, ShowKeepsScreen
<1>7. CASE Fail
  BY <1>7 DEF Fail, BrowserInv, TypeOK, ScreenIsOfOneDirectory
<1>8. CASE Select
  <2>1. PICK e \in entries : e.directory /\ selected' = e.path
    BY <1>8 DEF Select, Visible
  <2>2. e.path \in Paths
    BY DEF BrowserInv, TypeOK, Entries
  <2> QED BY <1>8, <2>1, <2>2 DEF Select, BrowserInv, TypeOK, ScreenIsOfOneDirectory
<1>9. CASE SetFilter
  <2>1. filter' \in SUBSET Nodes
    BY <1>9, FileBrowserAssumption DEF SetFilter
  <2> QED BY <1>9, <2>1 DEF SetFilter, BrowserInv, TypeOK, ScreenIsOfOneDirectory
<1>10. CASE UNCHANGED browserVars
  BY <1>10 DEF browserVars, BrowserInv, TypeOK, ScreenIsOfOneDirectory
<1> QED BY <1>1, <1>2, <1>3, <1>4, <1>5, <1>6, <1>7, <1>8, <1>9, <1>10
        DEF Next, Attempt, vars

LEMMA BrowserInvHolds == Spec => []BrowserInv
BY InitTyped, NextKeepsScreen, PTL DEF Spec

(* The variables of the file manager stay in their types: every path it     *)
(* gets to, up or down, is one that can be spelled.                         *)
THEOREM TypesHold == Spec => []TypeOK
<1>1. BrowserInv => TypeOK
  BY DEF BrowserInv
<1> QED BY <1>1, BrowserInvHolds, PTL

(* In every tree, whatever fails and whoever changes the disk: listing,     *)
(* path box and selection are of one directory.                             *)
THEOREM ScreenHolds == Spec => []ScreenIsOfOneDirectory
<1>1. BrowserInv => ScreenIsOfOneDirectory
  BY DEF BrowserInv
<1> QED BY <1>1, BrowserInvHolds, PTL

-----------------------------------------------------------------------------
(* The tape of History. *)

(* Where the page shown lies on the tape. *)
LEMMA TapeShown ==
  ASSUME TypeOK
  PROVE  /\ Laid(back, current, forward)[Len(back) + 1] = current
         /\ Len(Laid(back, current, forward)) = Len(back) + 1 + Len(forward)
         /\ Len(back) \in Nat /\ Len(forward) \in Nat
<1>1. back \in Seq(Paths) /\ forward \in Seq(Paths) /\ current \in Paths
  BY DEF TypeOK
<1>2. IsLaid(Laid(back, current, forward), back, current, forward)
  BY <1>1, LaidProperties
<1> QED BY <1>1, <1>2, LenProperties DEF IsLaid

LEMMA TapeInit == Init => Tape!Init
<1> SUFFICES ASSUME Init PROVE Tape!Init
  OBVIOUS
<1>1. back = <<>> /\ forward = <<>> /\ current \in Paths
  BY InitTyped DEF Init, BrowserInv, TypeOK
<1>2. Reverse(<<>>) = <<>>
  <2>1. <<>> \in Seq(Paths) /\ Len(<<>>) = 0
    BY EmptySeq
  <2>2. Reverse(<<>>) \in Seq(Paths) /\ Len(Reverse(<<>>)) = 0
    BY <2>1, ReverseProperties
  <2> QED BY <2>2, EmptySeq
<1>3. Append(<<>>, current) = <<current>>
  OBVIOUS
<1>4. <<current>> \o <<>> = <<current>>
  <2>1. <<current>> \in Seq(Paths)
    BY <1>1
  <2> QED BY <2>1, ConcatEmptySeq
<1>5. Append(back, current) \o Reverse(forward) = <<current>> /\ Len(back) + 1 = 1
  <2>1. Len(<<>>) + 1 = 1
    OBVIOUS
  <2>2. Append(back, current) = <<current>> /\ Reverse(forward) = <<>>
    BY <1>1, <1>2, <1>3
  <2> QED BY <1>1, <1>4, <2>1, <2>2
<1> QED BY <1>1, <1>5 DEF Tape!Init

LEMMA VisitIsOnTheTape ==
  ASSUME TypeOK, NEW p \in Paths, Visit(p)
  PROVE  [Tape!Next]_(Tape!vars)
<1>1. back \in Seq(Paths) /\ forward \in Seq(Paths) /\ current \in Paths
  BY DEF TypeOK
<1>2. current' = p
  BY DEF Visit, Show
<1>3. CASE p = current
  BY <1>2, <1>3 DEF Visit, Tape!vars
<1>4. CASE p # current
  <2>1. back' = Append(back, current) /\ forward' = <<>>
    BY <1>4 DEF Visit
  <2>2. Len(back') = Len(back) + 1
    BY <1>1, <2>1, AppendProperties
  <2>3. Laid(back', current', forward')
          = Append(SubSeq(Laid(back, current, forward), 1, Len(back) + 1), p)
    BY <1>1, <1>2, <2>1, LaidVisit
  <2>4. p # Laid(back, current, forward)[Len(back) + 1]
    BY <1>4, TapeShown
  <2>5. Tape!Visit(p)
    BY <2>2, <2>3, <2>4 DEF Tape!Visit, Laid
  <2> QED BY <2>5 DEF Tape!Next
<1> QED BY <1>3, <1>4

LEMMA TapeStep == BrowserInv /\ [Next]_vars => [Tape!Next]_(Tape!vars)
<1> SUFFICES ASSUME BrowserInv, [Next]_vars PROVE [Tape!Next]_(Tape!vars)
  OBVIOUS
<1>0. /\ TypeOK
      /\ current \in Paths /\ back \in Seq(Paths) /\ forward \in Seq(Paths)
  BY DEF BrowserInv, TypeOK
<1>1. CASE UNCHANGED <<current, back, forward>>
  BY <1>1 DEF Tape!vars
<1>2. CASE Refresh
  BY <1>1, <1>2 DEF Refresh, Show
<1>3. CASE Submit
  BY <1>0, <1>3, FileBrowserAssumption, VisitIsOnTheTape DEF Submit
<1>4. CASE Parent
  BY <1>0, <1>4, ParentTyped, VisitIsOnTheTape DEF Parent
<1>5. CASE Enter
  <2>1. PICK e \in entries : Visit(e.path)
    BY <1>5 DEF Enter, Visible
  <2>2. e.path \in Paths
    BY DEF BrowserInv, TypeOK, Entries
  <2> QED BY <1>0, <2>1, <2>2, VisitIsOnTheTape
<1>6. CASE GoBack
  <2>1. /\ back # <<>> /\ back' = Front(back) /\ current' = Last(back)
        /\ forward' = Append(forward, current)
    BY <1>6 DEF GoBack, Show
  <2>2. Laid(back', current', forward') = Laid(back, current, forward)
    BY <1>0, <2>1, LaidBack
  <2>3. Len(back') = Len(back) - 1 /\ Len(back) \in Nat /\ Len(back) > 0
    BY <1>0, <2>1, FrontLast, EmptySeq
  <2>4. Len(back) + 1 > 1 /\ Len(back') + 1 = (Len(back) + 1) - 1
    BY <2>3
  <2>5. Tape!Back
    BY <2>2, <2>4 DEF Tape!Back, Laid
  <2> QED BY <2>5 DEF Tape!Next
<1>7. CASE GoForward
  <2>1. /\ forward # <<>> /\ forward' = Front(forward) /\ current' = Last(forward)
        /\ back' = Append(back, current)
    BY <1>7 DEF GoForward, Show
  <2>2. Laid(back', current', forward') = Laid(back, current, forward)
    BY <1>0, <2>1, LaidForward
  <2>3. /\ Len(back') = Len(back) + 1
        /\ Len(forward) \in Nat /\ Len(forward) > 0
    BY <1>0, <2>1, AppendProperties, EmptySeq
  <2>4. /\ Len(back) + 1 < Len(Laid(back, current, forward))
        /\ Len(back') + 1 = (Len(back) + 1) + 1
    BY <1>0, <2>3, TapeShown
  <2>5. Tape!Forward
    BY <2>2, <2>4 DEF Tape!Forward, Laid
  <2> QED BY <2>5 DEF Tape!Next
<1>8. CASE Fail \/ Select \/ SetFilter \/ UNCHANGED browserVars
  BY <1>1, <1>8 DEF Fail, Select, SetFilter, browserVars
<1> QED BY <1>2, <1>3, <1>4, <1>5, <1>6, <1>7, <1>8 DEF Next, Attempt, vars

(* Back, Forward and every visit do to the stacks what History does to its  *)
(* tape, for every history there can be.                                    *)
THEOREM TapeIsKept == Spec => BackAndForwardKeepTheTape
<1>1. Spec => Tape!Init
  BY TapeInit DEF Spec
<1> QED BY <1>1, BrowserInvHolds, TapeStep, PTL
        DEF Spec, BackAndForwardKeepTheTape, Tape!Spec

-----------------------------------------------------------------------------
(* The window. *)

LEMMA WindowStep == [WindowNext]_allVars => [Next]_vars
<1> SUFFICES ASSUME [WindowNext]_allVars PROVE [Next]_vars
  OBVIOUS
<1>1. CASE FileAction
  BY <1>1 DEF FileAction, Next
<1>2. CASE \/ SaveConfig \/ SelectPage \/ SelectInSwitcher \/ ToggleSwitcher
           \/ OpenPanel \/ ClosePanel \/ ClearNotices \/ UNCHANGED allVars
  BY <1>2 DEF SaveConfig, SelectPage, SelectInSwitcher, ToggleSwitcher, OpenPanel,
              ClosePanel, ClearNotices, allVars, vars
<1>3. CASE ChangeDisk /\ UNCHANGED <<browserVars, windowVars>>
  BY <1>3 DEF Next
<1> QED BY <1>1, <1>2, <1>3 DEF WindowNext

LEMMA SearchStep == [SearchRuns]_filesVars => [Next]_vars
<1> SUFFICES ASSUME [SearchRuns]_filesVars PROVE [Next]_vars
  OBVIOUS
<1>1. CASE SearchRuns
  <2>1. SearchNext /\ UNCHANGED browserVars
    BY <1>1 DEF SearchRuns
  <2>2. CASE Start
    BY <2>1, <2>2 DEF Start, vars
  <2>3. CASE ListNext
    <3>1. UNCHANGED disk
      BY <2>3, Zenon DEF ListNext
    <3> QED BY <2>1, <3>1 DEF vars
  <2>4. CASE SkipDenied
    BY <2>1, <2>4 DEF SkipDenied, vars
  <2>5. CASE Abort
    BY <2>1, <2>5 DEF Abort, vars
  <2>6. CASE Change
    <3>1. ChangeDisk
      BY <2>6, Zenon DEF Change, ChangeDisk
    <3> QED BY <2>1, <3>1 DEF Next
  <2> QED BY <2>1, <2>2, <2>3, <2>4, <2>5, <2>6 DEF SearchNext, Search
<1>2. CASE UNCHANGED filesVars
  BY <1>2 DEF filesVars, allVars, vars
<1> QED BY <1>1, <1>2

(* Nothing in the window touches the file manager but its own page, and a   *)
(* search beside it not at all: both run it as it is specified.             *)
THEOREM FilesImplementBrowser == FilesSpec => Spec
<1>1. FilesInit => DiskInit /\ Init
  BY DEF FilesInit, WindowClosed, WindowInit
<1>2. [WindowRuns \/ SearchRuns]_filesVars => [Next]_vars
  <2>1. WindowRuns => [WindowNext]_allVars
    BY DEF WindowRuns
  <2> QED BY <2>1, WindowStep, SearchStep DEF filesVars, allVars
<1> QED BY <1>1, <1>2, PTL DEF FilesSpec, Spec

(* Room for one more in a sequence of at most m. *)
LEMMA RoomIsMade ==
  ASSUME NEW S, NEW s \in Seq(S), NEW e \in S, NEW m \in Nat \ {0}, Len(s) <= m,
         NEW t, t = IF Len(Append(s, e)) > m THEN Tail(Append(s, e)) ELSE Append(s, e)
  PROVE  t \in Seq(S) /\ Len(t) <= m
<1> DEFINE all == Append(s, e)
<1>1. all \in Seq(S) /\ Len(all) = Len(s) + 1 /\ Len(s) \in Nat
  BY AppendProperties, LenProperties
<1> HIDE DEF all
<1>2. all # <<>>
  BY <1>1, EmptySeq
<1>3. Tail(all) \in Seq(S) /\ Len(Tail(all)) = Len(all) - 1
  BY <1>1, <1>2, HeadTailProperties
<1>4. CASE Len(all) > m
  <2>1. t = Tail(all)
    BY <1>4 DEF all
  <2> QED BY <1>1, <1>3, <2>1
<1>5. CASE ~(Len(all) > m)
  <2>1. t = all
    BY <1>5 DEF all
  <2> QED BY <1>1, <1>5, <2>1
<1> QED BY <1>4, <1>5

(* The notices, unread or all of them read. *)
LEMMA Uniform ==
  ASSUME NEW S, NEW n \in Nat, NEW e \in S
  PROVE  /\ [i \in 1..n |-> e] \in Seq(S)
         /\ Len([i \in 1..n |-> e]) = n
OBVIOUS

NoticesOK == notices \in Seq(BOOLEAN) /\ Len(notices) <= MaxNotices

LEMMA PushedTyped ==
  ASSUME NoticesOK, notices' = Pushed
  PROVE  NoticesOK'
<1>1. FALSE \in BOOLEAN
  OBVIOUS
<1>2. notices' = IF Len(Append(notices, FALSE)) > MaxNotices
                 THEN Tail(Append(notices, FALSE)) ELSE Append(notices, FALSE)
  BY Zenon DEF Pushed
<1> QED BY <1>1, <1>2, RoomIsMade, GuiWindowAssumption, Zenon DEF NoticesOK

LEMMA WindowInitTyped == WindowInit => WindowTypeOK
<1> SUFFICES ASSUME WindowInit PROVE WindowTypeOK
  OBVIOUS
<1>1. PICK n \in 0..3 :
        notices = [i \in 1..(IF n < MaxNotices THEN n ELSE MaxNotices) |-> FALSE]
  BY Zenon DEF WindowInit
<1> DEFINE k == IF n < MaxNotices THEN n ELSE MaxNotices
<1>2. k \in Nat /\ k <= MaxNotices
  BY GuiWindowAssumption
<1>3. notices = [i \in 1..k |-> FALSE]
  BY <1>1, Zenon
<1> HIDE DEF k
<1>4. FALSE \in BOOLEAN
  OBVIOUS
<1>5. notices \in Seq(BOOLEAN) /\ Len(notices) = k
  BY <1>2, <1>3, <1>4, Uniform, Zenon
<1> QED BY <1>2, <1>5 DEF WindowInit, WindowTypeOK, Pages

LEMMA WindowNextTyped == WindowTypeOK /\ [WindowNext]_allVars => WindowTypeOK'
<1> SUFFICES ASSUME WindowTypeOK, [WindowNext]_allVars PROVE WindowTypeOK'
  OBVIOUS
<1> DEFINE PanelsOK == page \in Pages /\ switcherOpen \in BOOLEAN /\ panelOpen \in BOOLEAN
<1>0. PanelsOK /\ NoticesOK
  BY DEF WindowTypeOK, NoticesOK
<1>1. NoticesOK'
  <2>1. CASE UNCHANGED notices
    BY <1>0, <2>1 DEF NoticesOK
  <2>2. CASE notices' = Pushed
    BY <1>0, <2>2, PushedTyped
  <2>3. CASE OpenPanel
    <3>1. notices' = [i \in DOMAIN notices |-> TRUE]
      BY <2>3 DEF OpenPanel, AllRead
    <3>2. DOMAIN notices = 1..Len(notices) /\ Len(notices) \in Nat
      BY <1>0, LenProperties DEF NoticesOK
    <3>3. TRUE \in BOOLEAN
      OBVIOUS
    <3>4. notices' \in Seq(BOOLEAN) /\ Len(notices') = Len(notices)
      <4> DEFINE n == Len(notices)
      <4>1. n \in Nat /\ notices' = [i \in 1..n |-> TRUE]
        BY <3>1, <3>2
      <4> HIDE DEF n
      <4>2. notices' \in Seq(BOOLEAN) /\ Len(notices') = n
        BY <3>3, <4>1, Uniform, Zenon
      <4> QED BY <4>2 DEF n
    <3> QED BY <1>0, <3>4 DEF NoticesOK
  <2>4. CASE ClearNotices
    <3>1. notices' = <<>>
      BY <2>4 DEF ClearNotices
    <3>2. <<>> \in Seq(BOOLEAN) /\ Len(<<>>) = 0
      BY EmptySeq
    <3> QED BY <3>1, <3>2, GuiWindowAssumption DEF NoticesOK
  <2> QED BY <2>1, <2>2, <2>3, <2>4
          DEF WindowNext, FileAction, SaveConfig, SelectPage, SelectInSwitcher,
              ToggleSwitcher, ClosePanel, windowVars, allVars
<1>2. PanelsOK'
  <2>1. CASE UNCHANGED <<page, switcherOpen, panelOpen>>
    BY <1>0, <2>1
  <2>2. CASE SelectPage \/ SelectInSwitcher
    BY <1>0, <2>2 DEF SelectPage, SelectInSwitcher
  <2>3. CASE ToggleSwitcher
    BY <1>0, <2>3 DEF ToggleSwitcher
  <2>4. CASE OpenPanel \/ ClosePanel
    BY <1>0, <2>4 DEF OpenPanel, ClosePanel
  <2> QED BY <2>1, <2>2, <2>3, <2>4
          DEF WindowNext, FileAction, SaveConfig, ClearNotices, windowVars, allVars
<1> QED BY <1>1, <1>2 DEF WindowTypeOK, NoticesOK

LEMMA DiskStep == DiskOK /\ [Next]_vars => DiskOK'
<1> SUFFICES ASSUME DiskOK, [Next]_vars PROVE DiskOK'
  OBVIOUS
<1>1. CASE UNCHANGED disk
  BY <1>1 DEF DiskOK
<1>2. CASE ChangeDisk
  BY <1>2 DEF ChangeDisk, ChangeNode
<1> QED BY <1>1, <1>2 DEF Next, Attempt, Refresh, Submit, Parent, Enter, GoBack,
        GoForward, Visit, Show, Fail, Select, SetFilter, vars

LEMMA WalkStep ==
  ASSUME walk \in {"start", "searching", "found", "failed"},
         [WindowRuns \/ SearchRuns]_filesVars
  PROVE  walk' \in {"start", "searching", "found", "failed"}
<1>1. CASE UNCHANGED walk
  BY <1>1
<1>2. CASE Start
  BY <1>2 DEF Start
<1>3. CASE ListNext
  <2>1. walk' \in {"found", "searching"}
    BY <1>3, Zenon DEF ListNext
  <2> QED BY <2>1
<1>4. CASE SkipDenied
  BY <1>4 DEF SkipDenied
<1>5. CASE Abort
  BY <1>5 DEF Abort
<1>6. CASE Change
  BY <1>1, <1>6 DEF Change
<1> QED BY <1>1, <1>2, <1>3, <1>4, <1>5, <1>6
        DEF WindowRuns, SearchRuns, SearchNext, Search,
            filesVars, searchVars

(* The types of the window and of the search, with the bound on the notices *)
(* whatever is told, and a disk on which only directories hold something.   *)
THEOREM FilesTypesHold == FilesSpec => []FilesTypeOK
<1>1. FilesInit => FilesTypeOK
  BY InitTyped, WindowInitTyped
     DEF FilesInit, FilesTypeOK, DiskInit, WindowClosed, WindowInit,
         SearchInit, BrowserInv
<1> DEFINE Rest == /\ DiskOK
                   /\ WindowTypeOK
                   /\ walk \in {"start", "searching", "found", "failed"}
<1>2. Rest /\ [WindowRuns \/ SearchRuns]_filesVars => Rest'
  <2> SUFFICES ASSUME Rest, [WindowRuns \/ SearchRuns]_filesVars PROVE Rest'
    OBVIOUS
  <2>1. CASE [WindowNext]_allVars
    BY <2>1, WindowStep, DiskStep, WindowNextTyped, WalkStep
  <2>2. CASE [SearchRuns]_filesVars
    <3>1. UNCHANGED windowVars
      BY <2>2 DEF SearchRuns, filesVars, allVars
    <3>2. WindowTypeOK'
      BY <3>1 DEF WindowTypeOK, windowVars
    <3> QED BY <2>2, <3>2, SearchStep, DiskStep, WalkStep
  <2>3. WindowRuns => [WindowNext]_allVars
    BY DEF WindowRuns
  <2> QED BY <2>1, <2>2, <2>3
<1>3. FilesTypeOK <=> Rest /\ TypeOK
  BY DEF FilesTypeOK
<1> QED BY <1>1, <1>2, <1>3, FilesImplementBrowser, TypesHold, PTL DEF FilesSpec

-----------------------------------------------------------------------------
(* The tree. *)

LEMMA LeastNumber ==
  ASSUME NEW T, T \subseteq Nat, T # {}
  PROVE  \E x \in T : \A y \in T : x <= y
<1>1. PICK x \in T : \A y \in T : ~(<<y, x>> \in OpToRel(<, Nat))
  BY NatLessThanWellFounded, WFMin
<1>2. \A y \in T : ~(y < x)
  BY <1>1 DEF OpToRel
<1> QED BY <1>2

(* Paths for the nodes of D, which holds with every node those above it.    *)
ArePaths(p, D) ==
  /\ D \subseteq Nodes
  /\ \A n \in D : Up[n] \in D \cup {Root}
  /\ p \in [D \cup {Root} -> Seq(Nodes)]
  /\ p[Root] = <<>>
  /\ \A n \in D : p[n] = Append(p[Up[n]], n)

LEMMA UpIsAPlace == \A n \in Nodes : Up[n] \in Nodes \cup {Root} /\ n # Root
BY DirectoriesAssumption DEF Places

LEMMA PathsGrow ==
  ASSUME NEW D, NEW p, ArePaths(p, D), D # Nodes
  PROVE  \E n \in Nodes \ D : \E q : ArePaths(q, D \cup {n})
<1>1. PICK n \in Nodes \ D : Up[n] \notin Nodes \ D
  BY DirectoriesAssumption DEF ArePaths
<1>2. Up[n] \in D \cup {Root} /\ n # Root
  BY <1>1, UpIsAPlace
<1> DEFINE q == [m \in (D \cup {n}) \cup {Root} |-> IF m = n THEN Append(p[Up[n]], n) ELSE p[m]]
<1>3. \A m \in D \cup {Root} : q[m] = p[m]
  BY <1>1, <1>2
<1>4. q \in [(D \cup {n}) \cup {Root} -> Seq(Nodes)]
  BY <1>1, <1>2 DEF ArePaths
<1>5. q[n] = Append(q[Up[n]], n)
  BY <1>2, <1>3
<1> HIDE DEF q
<1>6. ArePaths(q, D \cup {n})
  BY <1>1, <1>2, <1>3, <1>4, <1>5 DEF ArePaths
<1> QED BY <1>1, <1>6

LEMMA PathsExist == \E p : ArePaths(p, Nodes)
<1> DEFINE Missing(D) == Cardinality(Nodes \ D)
           T == {i \in Nat : \E D \in SUBSET Nodes : Missing(D) = i /\ \E p : ArePaths(p, D)}
<1>1. T # {}
  <2>1. ArePaths([n \in {Root} |-> <<>>], {})
    BY DEF ArePaths
  <2>2. Missing({}) \in Nat
    BY DirectoriesAssumption, FS_CardinalityType
  <2> QED BY <2>1, <2>2
<1>2. PICK i \in T : \A j \in T : i <= j
  BY <1>1, LeastNumber
<1>3. PICK D \in SUBSET Nodes : Missing(D) = i /\ \E p : ArePaths(p, D)
  BY <1>2
<1>4. ASSUME D # Nodes PROVE FALSE
  <2>1. PICK n \in Nodes \ D : \E q : ArePaths(q, D \cup {n})
    BY <1>3, <1>4, PathsGrow
  <2>2. IsFiniteSet(Nodes \ D)
    BY DirectoriesAssumption, FS_Subset
  <2>3. Cardinality((Nodes \ D) \ {n}) = i - 1 /\ IsFiniteSet((Nodes \ D) \ {n})
    BY <1>3, <2>1, <2>2, FS_RemoveElement
  <2>4. (Nodes \ D) \ {n} = Nodes \ (D \cup {n})
    OBVIOUS
  <2>5. Missing(D \cup {n}) = i - 1 /\ i - 1 \in Nat
    BY <2>3, <2>4, FS_CardinalityType
  <2>6. D \cup {n} \in SUBSET Nodes
    BY <2>1
  <2>7. i - 1 \in T
    BY <2>1, <2>5, <2>6
  <2> QED BY <1>2, <2>7
<1> QED BY <1>3, <1>4

(* What holds of the root's children, and of a node when it holds of the    *)
(* directory it is in, holds of all: no set of exceptions.                  *)
LEMMA NoException ==
  ASSUME NEW S \in SUBSET Nodes, \A n \in S : Up[n] \in S
  PROVE  S = {}
BY DirectoriesAssumption

LEMMA PathToProperties ==
  /\ PathTo[Root] = <<>>
  /\ \A n \in Nodes : PathTo[n] = Append(PathTo[Up[n]], n)
  /\ \A n \in Places : PathTo[n] \in Seq(Nodes)
<1> DEFINE Step(p) == [n \in Places |-> IF n = Root THEN <<>> ELSE Append(p[Up[n]], n)]
<1>1. \E p : p = Step(p)
  <2>1. PICK p : ArePaths(p, Nodes)
    BY PathsExist
  <2>2. p = Step(p)
    BY <2>1, DirectoriesAssumption DEF ArePaths, Places
  <2> QED BY <2>2
<1>2. PathTo = Step(PathTo)
  BY <1>1 DEF PathTo
<1>3. /\ PathTo[Root] = <<>>
      /\ \A n \in Nodes : PathTo[n] = Append(PathTo[Up[n]], n)
  BY <1>2, DirectoriesAssumption DEF Places
<1> DEFINE S == {n \in Nodes : PathTo[n] \notin Seq(Nodes)}
<1>4. \A n \in S : Up[n] \in S
  <2> SUFFICES ASSUME NEW n \in S, Up[n] \notin S PROVE FALSE
    OBVIOUS
  <2>1. Up[n] = Root \/ PathTo[Up[n]] \in Seq(Nodes)
    BY UpIsAPlace
  <2>2. PathTo[Up[n]] \in Seq(Nodes)
    BY <1>3, <2>1
  <2>3. PathTo[n] = Append(PathTo[Up[n]], n)
    BY <1>3
  <2>4. PathTo[n] \in Seq(Nodes)
    BY <2>2, <2>3
  <2> QED BY <2>4
<1>5. S = {}
  BY <1>4, NoException
<1>6. <<>> \in Seq(Nodes)
  OBVIOUS
<1>7. \A n \in Nodes : PathTo[n] \in Seq(Nodes)
  BY <1>5
<1> HIDE DEF S
<1> QED BY <1>3, <1>6, <1>7 DEF Places
LEMMA ToSetAppend ==
  ASSUME NEW S, NEW s \in Seq(S), NEW e \in S
  PROVE  ToSet(Append(s, e)) = ToSet(s) \cup {e}
<1>1. /\ Len(Append(s, e)) = Len(s) + 1
      /\ \A i \in 1..Len(s) : Append(s, e)[i] = s[i]
      /\ Append(s, e)[Len(s) + 1] = e
      /\ Len(s) \in Nat
  OBVIOUS
<1>2. /\ DOMAIN s = 1..Len(s)
      /\ DOMAIN Append(s, e) = 1..(Len(s) + 1)
  OBVIOUS
<1> QED BY <1>1, <1>2 DEF ToSet

LEMMA AboveStep ==
  /\ \A n \in Nodes : Up[n] = Root => Above(n) = {Root}
  /\ \A n \in Nodes : Up[n] # Root => Up[n] \in Nodes /\ Above(n) = Above(Up[n]) \cup {Up[n]}
<1>1. ToSet(<<>>) = {}
  BY DEF ToSet
<1>2. ASSUME NEW n \in Nodes, Up[n] = Root PROVE Above(n) = {Root}
  BY <1>1, <1>2, PathToProperties DEF Above
<1>3. ASSUME NEW n \in Nodes, Up[n] # Root
      PROVE  Up[n] \in Nodes /\ Above(n) = Above(Up[n]) \cup {Up[n]}
  <2>1. Up[n] \in Nodes
    BY <1>3, UpIsAPlace
  <2>2. Up[Up[n]] \in Places
    BY <2>1, DirectoriesAssumption
  <2>3. /\ PathTo[Up[n]] = Append(PathTo[Up[Up[n]]], Up[n])
        /\ PathTo[Up[Up[n]]] \in Seq(Nodes)
    BY <2>1, <2>2, PathToProperties
  <2>4. ToSet(PathTo[Up[n]]) = ToSet(PathTo[Up[Up[n]]]) \cup {Up[n]}
    BY <2>1, <2>3, ToSetAppend
  <2> QED BY <2>1, <2>4 DEF Above
<1> QED BY <1>2, <1>3

(* The directories above a node are places, the one it is in among them; of *)
(* those it is not in itself, a child leads to it.                          *)
LEMMA AboveProperties ==
  ASSUME NEW n \in Nodes
  PROVE  /\ Up[n] \in Above(n)
         /\ Root \in Above(n)
         /\ Above(n) \subseteq Places
         /\ \A d \in Above(n) :
              d # Up[n] => \E c \in Nodes : Up[c] = d /\ c \in Above(n)
<1> DEFINE Leads(m) == \A d \in Above(m) :
                         d # Up[m] => \E c \in Nodes : Up[c] = d /\ c \in Above(m)
           OK(m) == /\ Up[m] \in Above(m)
                    /\ Above(m) \subseteq Places
                    /\ Leads(m)
           S == {m \in Nodes : ~OK(m)}
<1>1. \A m \in S : Up[m] \in S
  <2> SUFFICES ASSUME NEW m \in S, Up[m] \notin S PROVE FALSE
    OBVIOUS
  <2>1. CASE Up[m] = Root
    BY <2>1, AboveStep DEF Places
  <2>2. CASE Up[m] # Root
    <3>1. /\ Up[m] \in Nodes
          /\ Above(m) = Above(Up[m]) \cup {Up[m]}
      BY <2>2, AboveStep
    <3>2. OK(Up[m])
      BY <3>1
    <3>3. Leads(m)
      BY <3>1, <3>2
    <3> QED BY <3>1, <3>2, <3>3 DEF Places
  <2> QED BY <2>1, <2>2
<1> HIDE DEF OK
<1>2. OK(n)
  BY <1>1, NoException
<1> QED BY <1>2 DEF OK, Above

(* What is above a directory above a node is above the node, and directories*)
(* get deeper on the way down.                                              *)
LEMMA AboveIsTransitive ==
  ASSUME NEW n \in Nodes, NEW c \in Above(n), c \in Nodes
  PROVE  Above(c) \subseteq Above(n)
<1> DEFINE S == {m \in Nodes : c \in Above(m) /\ ~(Above(c) \subseteq Above(m))}
<1>1. \A m \in S : Up[m] \in S
  <2> SUFFICES ASSUME NEW m \in S, Up[m] \notin S PROVE FALSE
    OBVIOUS
  <2>1. CASE Up[m] = Root
    BY <2>1, AboveStep, UpIsAPlace
  <2>2. CASE Up[m] # Root
    BY <2>2, AboveStep
  <2> QED BY <2>1, <2>2
<1>2. S = {}
  BY <1>1, NoException
<1> QED BY <1>2

Depth(d) == Len(PathTo[d])

LEMMA DepthProperties ==
  /\ Depth(Root) = 0
  /\ \A d \in Places : Depth(d) \in Nat
  /\ \A n \in Nodes : Depth(n) = Depth(Up[n]) + 1
  /\ \A n \in Nodes : \A d \in Above(n) : Depth(d) < Depth(n)
<1>1. Depth(Root) = 0 /\ \A d \in Places : Depth(d) \in Nat
  BY PathToProperties DEF Depth
<1>2. \A n \in Nodes : Depth(n) = Depth(Up[n]) + 1
  <2> SUFFICES ASSUME NEW n \in Nodes PROVE Depth(n) = Depth(Up[n]) + 1
    OBVIOUS
  <2>1. PathTo[n] = Append(PathTo[Up[n]], n) /\ PathTo[Up[n]] \in Seq(Nodes)
    BY PathToProperties, DirectoriesAssumption
  <2> QED BY <2>1 DEF Depth
<1> DEFINE S == {n \in Nodes : ~(\A d \in Above(n) : Depth(d) < Depth(n))}
<1>3. \A n \in S : Up[n] \in S
  <2> SUFFICES ASSUME NEW n \in S, Up[n] \notin S PROVE FALSE
    OBVIOUS
  <2>1. Depth(n) = Depth(Up[n]) + 1 /\ Depth(Up[n]) \in Nat
    BY <1>1, <1>2, DirectoriesAssumption
  <2>2. CASE Up[n] = Root
    BY <2>1, <2>2, AboveStep
  <2>3. CASE Up[n] # Root
    <3>1. Up[n] \in Nodes /\ Above(n) = Above(Up[n]) \cup {Up[n]}
      BY <2>3, AboveStep
    <3>2. \A d \in Above(Up[n]) : Depth(d) < Depth(Up[n]) /\ d \in Places
      BY <3>1, AboveProperties
    <3> QED BY <1>1, <2>1, <3>1, <3>2
  <2> QED BY <2>2, <2>3
<1>4. S = {}
  BY <1>3, NoException
<1> QED BY <1>1, <1>2, <1>4

-----------------------------------------------------------------------------
(* The order of the tree. *)

(* q leads to the right of what p leads to. *)
LeftOf(p, q) ==
  \E i \in 1..Len(q) :
    /\ i <= Len(p)
    /\ \A j \in 1..(i - 1) : p[j] = q[j]
    /\ p[i] < q[i]

LEMMA OrderOfPaths ==
  ASSUME NEW p \in Seq(Nodes), NEW q \in Seq(Nodes)
  PROVE  /\ ~PathBefore(p, p)
         /\ LeftOf(p, q) => PathBefore(p, q)
         /\ \A n \in Nodes : LeftOf(p, q) => LeftOf(Append(p, n), q)
         /\ \A n \in Nodes : PathBefore(p, q) => PathBefore(p, Append(q, n))
         /\ \A n \in Nodes : PathBefore(p, Append(p, n))
         /\ \A n, m \in Nodes : n < m => LeftOf(Append(p, n), Append(p, m))
<1>1. /\ Len(p) \in Nat /\ Len(q) \in Nat
      /\ \A i \in 1..Len(p) : p[i] \in Nat
  <2>1. \A n \in Nodes : n \in Nat
    BY DirectoriesAssumption
  <2>2. \A i \in 1..Len(p) : p[i] \in Nodes
    OBVIOUS
  <2> QED BY <2>1, <2>2
<1>2. \A n \in Nodes : /\ Len(Append(p, n)) = Len(p) + 1
                       /\ \A i \in 1..Len(p) : Append(p, n)[i] = p[i]
                       /\ Append(p, n)[Len(p) + 1] = n
  OBVIOUS
<1>3. \A n \in Nodes : /\ Len(Append(q, n)) = Len(q) + 1
                       /\ \A i \in 1..Len(q) : Append(q, n)[i] = q[i]
  OBVIOUS
<1>4. ~PathBefore(p, p)
  BY <1>1 DEF PathBefore
<1>5. LeftOf(p, q) => PathBefore(p, q)
  BY <1>1 DEF PathBefore, LeftOf
<1>6. ASSUME NEW n \in Nodes, LeftOf(p, q) PROVE LeftOf(Append(p, n), q)
  BY <1>1, <1>2, <1>6 DEF LeftOf
<1>7. ASSUME NEW n \in Nodes, PathBefore(p, q) PROVE PathBefore(p, Append(q, n))
  BY <1>1, <1>3, <1>7 DEF PathBefore
<1>8. ASSUME NEW n \in Nodes PROVE PathBefore(p, Append(p, n))
  <2>1. Len(p) + 1 \in 1..Len(Append(p, n))
    BY <1>1, <1>2
  <2>2. \A j \in 1..(Len(p) + 1 - 1) : p[j] = Append(p, n)[j]
    BY <1>1, <1>2
  <2> QED BY <1>1, <2>1, <2>2 DEF PathBefore
<1>9. ASSUME NEW n \in Nodes, NEW m \in Nodes, n < m
      PROVE  LeftOf(Append(p, n), Append(p, m))
  <2>1. Len(p) + 1 \in 1..Len(Append(p, m)) /\ Len(p) + 1 <= Len(Append(p, n))
    BY <1>1, <1>2
  <2>2. \A j \in 1..(Len(p) + 1 - 1) : Append(p, n)[j] = Append(p, m)[j]
    BY <1>1, <1>2
  <2>3. Append(p, n)[Len(p) + 1] < Append(p, m)[Len(p) + 1]
    BY <1>2, <1>9
  <2> QED BY <2>1, <2>2, <2>3 DEF LeftOf
<1> QED BY <1>4, <1>5, <1>6, <1>7, <1>8, <1>9

-----------------------------------------------------------------------------
(* A listing. *)

Top == pending[Len(pending)]
Listed == Children(Top.dir)
Seen == LookedAt(Listed)
NewHits == {n \in Seen : IsHit(n)}
Entered == {n \in Seen : IsDirectory(disk[n]) /\ Top.depth < MaxDepth}

SearchTypes ==
  /\ walk \in {"start", "searching", "found", "failed"}
  /\ report \in [matches : Seq(Nodes), skippedAccess : Nat, skippedReparse : Nat,
                 truncated : BOOLEAN]
  /\ pending \in Seq([dir : Places, depth : Nat])
  /\ steady \subseteq Nodes
  /\ walk = "searching" => pending # <<>>

LEMMA TopProperties ==
  ASSUME SearchTypes, walk = "searching"
  PROVE  /\ Len(pending) \in Nat /\ Len(pending) > 0
         /\ Last(pending) = Top
         /\ Top \in [dir : Places, depth : Nat]
         /\ Front(pending) \in Seq([dir : Places, depth : Nat])
         /\ Len(Front(pending)) = Len(pending) - 1
         /\ \A i \in 1..(Len(pending) - 1) : Front(pending)[i] = pending[i]
<1> DEFINE D == [dir : Places, depth : Nat]
<1>1. pending \in Seq(D) /\ pending # <<>>
  BY DEF SearchTypes
<1> HIDE DEF D
<1>2. Len(pending) \in Nat /\ Len(pending) > 0
  BY <1>1, EmptySeq
<1>3. pending[Len(pending)] \in D
  BY <1>1, <1>2
<1>4. /\ Last(pending) = Top
      /\ Front(pending) \in Seq(D)
      /\ Len(Front(pending)) = Len(pending) - 1
      /\ \A i \in 1..(Len(pending) - 1) : Front(pending)[i] = pending[i]
  BY <1>1, FrontLast DEF Top, Last
<1> QED BY <1>2, <1>3, <1>4 DEF Top, D

LEMMA SeenProperties ==
  /\ Seen \subseteq Listed
  /\ Listed \subseteq Nodes
  /\ \A n \in Nodes : n \in Nat
  /\ IsFiniteSet(Listed) /\ IsFiniteSet(Seen) /\ IsFiniteSet(NewHits) /\ IsFiniteSet(Entered)
  /\ Cardinality(NewHits) \in Nat /\ Cardinality(Entered) \in Nat
<1>1. Seen \subseteq Listed /\ Listed \subseteq Nodes
  BY DEF Seen, Listed, LookedAt, Children
<1>2. NewHits \subseteq Nodes /\ Entered \subseteq Nodes /\ Seen \subseteq Nodes
  BY <1>1 DEF NewHits, Entered
<1>3. IsFiniteSet(Nodes) /\ \A n \in Nodes : n \in Nat
  BY DirectoriesAssumption
<1>4. IsFiniteSet(Listed) /\ IsFiniteSet(Seen) /\ IsFiniteSet(NewHits) /\ IsFiniteSet(Entered)
  BY <1>1, <1>2, <1>3, FS_Subset
<1> QED BY <1>1, <1>3, <1>4, FS_CardinalityType

LEMMA InOrderProperties ==
  ASSUME NEW S, IsFiniteSet(S), NEW s \in InOrder(S)
  PROVE  /\ Cardinality(S) \in Nat
         /\ s \in Seq(S) /\ Len(s) = Cardinality(S) /\ DOMAIN s = 1..Cardinality(S)
         /\ \A i \in 1..Cardinality(S) : s[i] \in S
         /\ \A i, j \in 1..Cardinality(S) : i < j => s[i] < s[j]
         /\ \A x \in S : \E i \in 1..Cardinality(S) : s[i] = x
<1> DEFINE n == Cardinality(S)
<1>1. n \in Nat
  BY FS_CardinalityType
<1>2. s \in [1..n -> S] /\ \A x \in S : \E i \in 1..n : s[i] = x
  BY DEF InOrder, Bijection, Injection, Surjection
<1>3. \A i, j \in 1..n : i < j => s[i] < s[j]
  BY <1>2 DEF InOrder
<1> HIDE DEF n
<1>4. s \in [1..n -> S]
  BY <1>2
<1>5. /\ s \in Seq(S) /\ Len(s) = n /\ DOMAIN s = 1..n
      /\ \A i \in 1..n : s[i] \in S
  BY <1>1, <1>4
<1> QED BY <1>1, <1>2, <1>3, <1>4, <1>5 DEF n

(* What a listing adds to the report. *)
LEMMA ListingReports ==
  ASSUME SearchTypes, ListNext
  PROVE  LET old == report.matches
             k == Cardinality(NewHits)
         IN  /\ report'.matches \in Seq(Nodes)
             /\ Len(report'.matches) = Len(old) + k
             /\ \A i \in 1..Len(old) : report'.matches[i] = old[i]
             /\ \A i \in 1..k : report'.matches[Len(old) + i] \in NewHits
             /\ \A i, j \in 1..k :
                  i < j => report'.matches[Len(old) + i] < report'.matches[Len(old) + j]
             /\ \A n \in NewHits : \E i \in 1..k : report'.matches[Len(old) + i] = n
             /\ report'.skippedAccess = report.skippedAccess
             /\ report'.skippedReparse =
                  report.skippedReparse + Cardinality({n \in Seen : disk[n] = "reparse"})
             /\ report'.truncated = (Seen # Listed)
             /\ report' \in [matches : Seq(Nodes), skippedAccess : Nat, skippedReparse : Nat,
                             truncated : BOOLEAN]
<1> DEFINE old == report.matches
           k == Cardinality(NewHits)
<1>1. PICK found \in InOrder(NewHits) :
        report' = [report EXCEPT
          !.matches = @ \o found,
          !.skippedReparse = @ + Cardinality({n \in Seen : disk[n] = "reparse"}),
          !.truncated = Seen # Listed]
  BY TopProperties DEF ListNext, NewHits, Seen, Listed
<1>2. /\ k \in Nat
      /\ found \in Seq(NewHits) /\ Len(found) = k
      /\ \A i \in 1..k : found[i] \in NewHits
      /\ \A i, j \in 1..k : i < j => found[i] < found[j]
      /\ \A n \in NewHits : \E i \in 1..k : found[i] = n
  BY SeenProperties, InOrderProperties
<1>3. NewHits \subseteq Nodes
  BY SeenProperties DEF NewHits
<1>4. old \in Seq(Nodes) /\ found \in Seq(Nodes) /\ Len(old) \in Nat
  BY <1>2, <1>3 DEF SearchTypes
<1>5. /\ report'.matches = old \o found
      /\ report'.skippedAccess = report.skippedAccess
      /\ report'.skippedReparse =
           report.skippedReparse + Cardinality({n \in Seen : disk[n] = "reparse"})
      /\ report'.truncated = (Seen # Listed)
  BY <1>1 DEF SearchTypes
<1> HIDE DEF k, old
<1>6. /\ old \o found \in Seq(Nodes)
      /\ Len(old \o found) = Len(old) + k
      /\ \A i \in 1..Len(old) : (old \o found)[i] = old[i]
      /\ \A i \in 1..k : (old \o found)[Len(old) + i] = found[i]
  BY <1>2, <1>4
<1>7. Cardinality({n \in Seen : disk[n] = "reparse"}) \in Nat
  BY SeenProperties, FS_Subset, FS_CardinalityType
<1>8. report' \in [matches : Seq(Nodes), skippedAccess : Nat, skippedReparse : Nat,
                   truncated : BOOLEAN]
  <2> DEFINE c == Cardinality({n \in Seen : disk[n] = "reparse"})
             t == Seen # Listed
             m == old \o found
             d == report.skippedReparse + c
  <2>1. report' = [report EXCEPT !.matches = m, !.skippedReparse = d, !.truncated = t]
    BY <1>1 DEF old
  <2>2. d \in Nat /\ t \in BOOLEAN
    BY <1>7 DEF SearchTypes
  <2>3. m \in Seq(Nodes)
    BY <1>6
  <2> HIDE DEF c, t, m, d
  <2> QED BY <2>1, <2>2, <2>3, Zenon DEF SearchTypes
<1>9. /\ report'.matches \in Seq(Nodes)
      /\ Len(report'.matches) = Len(old) + k
      /\ \A i \in 1..Len(old) : report'.matches[i] = old[i]
      /\ \A i \in 1..k : report'.matches[Len(old) + i] = found[i]
  BY <1>5, <1>6
<1>10. /\ \A i \in 1..k : report'.matches[Len(old) + i] \in NewHits
       /\ \A i, j \in 1..k :
            i < j => report'.matches[Len(old) + i] < report'.matches[Len(old) + j]
       /\ \A n \in NewHits : \E i \in 1..k : report'.matches[Len(old) + i] = n
  BY <1>2, <1>9 DEF k
<1> QED BY <1>5, <1>8, <1>9, <1>10, Zenon DEF old, k

(* What it leaves to be listed: the rest of the stack, and above it the     *)
(* directories found, the first name on top.                                *)
LEMMA ListingStacks ==
  ASSUME SearchTypes, ListNext
  PROVE  LET r == Len(pending) - 1
             k == Cardinality(Entered)
         IN  /\ r \in Nat /\ k \in Nat
             /\ pending' \in Seq([dir : Places, depth : Nat])
             /\ Len(pending') = r + k
             /\ \A i \in 1..r : pending'[i] = pending[i]
             /\ \A i \in 1..k : /\ pending'[r + i].dir \in Entered
                                /\ pending'[r + i].depth = Top.depth + 1
             /\ \A i, j \in 1..k : i < j => pending'[r + j].dir < pending'[r + i].dir
             /\ \A n \in Entered : \E i \in 1..k : pending'[r + i].dir = n
<1> DEFINE r == Len(pending) - 1
           k == Cardinality(Entered)
           D == [dir : Places, depth : Nat]
<1>0. walk = "searching"
  BY DEF ListNext
<1>1. PICK entered \in InOrder(Entered) :
        pending' = Front(pending) \o [i \in DOMAIN entered |->
                     [dir |-> Push(entered)[i], depth |-> Top.depth + 1]]
  BY DEF ListNext, Entered, Seen, Listed, Top, Last
<1>2. /\ k \in Nat
      /\ entered \in Seq(Entered) /\ Len(entered) = k /\ DOMAIN entered = 1..k
      /\ \A i \in 1..k : entered[i] \in Entered
      /\ \A i, j \in 1..k : i < j => entered[i] < entered[j]
      /\ \A n \in Entered : \E i \in 1..k : entered[i] = n
  BY SeenProperties, InOrderProperties
<1>3. /\ r \in Nat /\ Front(pending) \in Seq(D) /\ Len(Front(pending)) = r
      /\ \A i \in 1..r : Front(pending)[i] = pending[i]
      /\ Top \in D
  BY <1>0, TopProperties
<1> DEFINE pushed == [i \in 1..k |-> [dir |-> Push(entered)[i], depth |-> Top.depth + 1]]
<1>4. \A i \in 1..k : Push(entered)[i] = entered[k - i + 1]
  <2>1. entered \in Seq(Entered) /\ Len(entered) = k
    BY <1>2
  <2>2. \A i \in 1..Len(entered) : Reverse(entered)[i] = entered[Len(entered) - i + 1]
    BY <2>1, ReverseProperties
  <2> QED BY <2>1, <2>2 DEF Push
<1>5. Entered \subseteq Places
  BY SeenProperties DEF Entered, Places
<1>6. \A i \in 1..k : k - i + 1 \in 1..k /\ k - (k - i + 1) + 1 = i
  BY <1>2
<1>7. \A i \in 1..k : pushed[i].dir = entered[k - i + 1] /\ pushed[i].depth = Top.depth + 1
                      /\ pushed[i] \in D
  <2> SUFFICES ASSUME NEW i \in 1..k
               PROVE  /\ pushed[i].dir = entered[k - i + 1]
                      /\ pushed[i].depth = Top.depth + 1
                      /\ pushed[i] \in D
    OBVIOUS
  <2>1. pushed[i] = [dir |-> entered[k - i + 1], depth |-> Top.depth + 1]
    BY <1>4
  <2>2. entered[k - i + 1] \in Places /\ Top.depth + 1 \in Nat
    <3>1. k - i + 1 \in 1..k
      BY <1>6
    <3>2. entered[k - i + 1] \in Entered
      BY <1>2, <3>1
    <3> QED BY <1>3, <1>5, <3>2
  <2> QED BY <2>1, <2>2
<1>8. pushed \in Seq(D) /\ Len(pushed) = k
  <2> HIDE DEF k
  <2>1. k \in Nat /\ pushed \in [1..k -> D]
    BY <1>2, <1>7
  <2> HIDE DEF pushed, D
  <2> QED BY <2>1
<1>9. pending' = Front(pending) \o pushed
  <2>1. DOMAIN entered = 1..k
    BY <1>2
  <2> QED BY <1>1, <2>1
<1> HIDE DEF pushed, k, r, D
<1>10. /\ pending' \in Seq(D)
       /\ Len(pending') = r + k
       /\ \A i \in 1..r : pending'[i] = pending[i]
       /\ \A i \in 1..k : pending'[r + i] = pushed[i]
  <2> DEFINE rest == Front(pending)
  <2>1. /\ rest \in Seq(D) /\ pushed \in Seq(D)
        /\ Len(rest) = r /\ Len(pushed) = k
        /\ r \in Nat /\ k \in Nat
        /\ pending' = rest \o pushed
    BY <1>2, <1>3, <1>8, <1>9 DEF k
  <2>2. \A i \in 1..r : rest[i] = pending[i]
    BY <1>3
  <2> HIDE DEF rest
  <2>3. /\ rest \o pushed \in Seq(D)
        /\ Len(rest \o pushed) = Len(rest) + Len(pushed)
        /\ \A i \in 1..Len(rest) : (rest \o pushed)[i] = rest[i]
        /\ \A i \in 1..Len(pushed) : (rest \o pushed)[Len(rest) + i] = pushed[i]
    <3>1. rest \in Seq(D) /\ pushed \in Seq(D)
      BY <2>1
    <3> QED BY <3>1
  <2> QED BY <2>1, <2>2, <2>3
<1>11. \A i \in 1..k : pending'[r + i].dir \in Entered /\ pending'[r + i].depth = Top.depth + 1
  <2>1. \A i \in 1..k : k - i + 1 \in 1..k /\ entered[k - i + 1] \in Entered
    BY <1>2, <1>6 DEF k
  <2> QED BY <1>7, <1>10, <2>1
<1>12. ASSUME NEW i \in 1..k, NEW j \in 1..k, i < j
       PROVE  pending'[r + j].dir < pending'[r + i].dir
  <2>1. k - j + 1 < k - i + 1 /\ k - j + 1 \in 1..k /\ k - i + 1 \in 1..k
    BY <1>2, <1>6, <1>12
  <2>2. entered[k - j + 1] < entered[k - i + 1]
    BY <1>2, <2>1 DEF k
  <2> QED BY <1>7, <1>10, <2>2
<1>13. \A n \in Entered : \E i \in 1..k : pending'[r + i].dir = n
  <2> SUFFICES ASSUME NEW n \in Entered PROVE \E i \in 1..k : pending'[r + i].dir = n
    OBVIOUS
  <2>1. PICK i \in 1..k : entered[i] = n
    BY <1>2
  <2>2. k - i + 1 \in 1..k /\ pending'[r + (k - i + 1)].dir = n
    BY <1>6, <1>7, <1>10, <2>1
  <2> QED BY <2>2
<1> QED BY <1>2, <1>3, <1>10, <1>11, <1>12, <1>13 DEF r, k, D

(* The limit: it is never passed, a listing is cut only when it is reached, *)
(* and what is left out comes after what was seen.                          *)
LEMMA LimitProperties ==
  ASSUME SearchTypes, ListNext, Len(report.matches) <= MaxResults
  PROVE  /\ Len(report.matches) + Cardinality(NewHits) <= MaxResults
         /\ Seen # Listed => Len(report.matches) + Cardinality(NewHits) = MaxResults
         /\ \A n \in Listed \ Seen, m \in Seen : m < n
<1> DEFINE before(n) == {m \in Listed : m < n /\ IsHit(m)}
           l == Len(report.matches)
           k == Cardinality(NewHits)
<1>1. Seen = {n \in Listed : l + Cardinality(before(n)) < MaxResults}
  BY DEF Seen, LookedAt
<1>2. /\ l \in Nat /\ MaxResults \in Nat /\ k \in Nat
      /\ \A n \in Listed : n \in Nat
      /\ IsFiniteSet(NewHits) /\ IsFiniteSet(Listed)
  <2>1. report.matches \in Seq(Nodes)
    BY DEF SearchTypes
  <2> QED BY <2>1, SeenProperties, FileSearchAssumption
<1>3. \A n \in Listed : IsFiniteSet(before(n)) /\ Cardinality(before(n)) \in Nat
  BY <1>2, FS_Subset, FS_CardinalityType
<1> HIDE DEF l
<1>4. l + k <= MaxResults
  <2>1. PICK found \in InOrder(NewHits) : TRUE
    BY DEF ListNext, NewHits, Seen, Listed, Top, Last
  <2>2. /\ \A i \in 1..k : found[i] \in NewHits
        /\ \A i, j \in 1..k : i < j => found[i] < found[j]
        /\ \A n \in NewHits : \E i \in 1..k : found[i] = n
    BY <1>2, InOrderProperties
  <2>3. CASE k = 0
    BY <1>2, <2>3 DEF l
  <2>4. CASE k # 0
    <3> DEFINE n == found[k]
    <3>1. n \in NewHits /\ n \in Listed /\ n \in Seen
      BY <1>2, <2>2, <2>4, SeenProperties DEF NewHits
    <3>2. ASSUME NEW m \in NewHits, m # n PROVE m \in before(n)
      <4>1. PICK i \in 1..k : found[i] = m
        BY <2>2
      <4>2. i < k
        BY <1>2, <3>2, <4>1
      <4>3. m < n
        BY <1>2, <2>2, <2>4, <4>1, <4>2
      <4> QED BY <4>3, SeenProperties DEF NewHits
    <3>3. NewHits \subseteq before(n) \cup {n}
      BY <3>2
    <3> HIDE DEF n, before, k
    <3>4. /\ IsFiniteSet(before(n) \cup {n})
          /\ \/ Cardinality(before(n) \cup {n}) = Cardinality(before(n))
             \/ Cardinality(before(n) \cup {n}) = Cardinality(before(n)) + 1
      <4>1. IsFiniteSet(before(n))
        BY <1>3, <3>1
      <4> QED BY <4>1, FS_AddElement, Zenon
    <3>5. k <= Cardinality(before(n) \cup {n})
      BY <3>3, <3>4, FS_Subset DEF k
    <3>6. l + Cardinality(before(n)) < MaxResults /\ Cardinality(before(n)) \in Nat
      BY <1>1, <1>3, <3>1
    <3> QED BY <1>2, <3>4, <3>5, <3>6
  <2> QED BY <2>3, <2>4
<1>5. ASSUME NEW n \in Listed \ Seen, NEW m \in Seen PROVE m < n
  <2>1. m \in Listed /\ m \in Nat /\ n \in Nat
    BY <1>2, SeenProperties
  <2>2. m # n
    BY <1>5
  <2>3. ASSUME n < m PROVE FALSE
    <3>1. before(n) \subseteq before(m)
      <4> SUFFICES ASSUME NEW x \in before(n) PROVE x \in before(m)
        OBVIOUS
      <4>1. x \in Listed /\ x < n /\ IsHit(x) /\ x \in Nat
        BY <1>2
      <4>2. x < m
        BY <2>1, <2>3, <4>1
      <4> QED BY <4>1, <4>2
    <3> HIDE DEF before
    <3>2. Cardinality(before(n)) <= Cardinality(before(m))
      BY <1>3, <2>1, <3>1, FS_Subset
    <3>3. l + Cardinality(before(m)) < MaxResults
      BY <1>1
    <3>4. Cardinality(before(m)) \in Nat /\ Cardinality(before(n)) \in Nat
      BY <1>3, <2>1
    <3>5. l + Cardinality(before(n)) < MaxResults
      BY <1>2, <3>2, <3>3, <3>4
    <3> QED BY <1>1, <3>5
  <2> QED BY <2>1, <2>2, <2>3
<1>6. ASSUME Seen # Listed PROVE l + k >= MaxResults
  <2>1. PICK n \in Listed \ Seen : \A m \in Listed \ Seen : n <= m
    <3>1. Listed \ Seen # {} /\ Listed \ Seen \subseteq Nat
      BY <1>2, <1>6, SeenProperties
    <3> QED BY <3>1, LeastNumber
  <2>2. before(n) \subseteq NewHits
    <3> SUFFICES ASSUME NEW m \in before(n) PROVE m \in NewHits
      OBVIOUS
    <3>1. m \in Listed /\ m < n /\ IsHit(m)
      OBVIOUS
    <3>2. m \in Seen
      BY <1>2, <2>1, <3>1
    <3> QED BY <3>1, <3>2 DEF NewHits
  <2> HIDE DEF before, k
  <2>3. Cardinality(before(n)) <= k /\ Cardinality(before(n)) \in Nat
    BY <1>2, <1>3, <2>2, FS_Subset DEF k
  <2>4. ~(l + Cardinality(before(n)) < MaxResults)
    BY <1>1, <2>1
  <2> QED BY <1>2, <2>3, <2>4
<1> QED BY <1>2, <1>4, <1>5, <1>6 DEF l

-----------------------------------------------------------------------------
(* The stack and the report, whatever happens to the disk. *)

(* Of two directories on the stack the upper one comes first, and neither   *)
(* is in the other; what is reported comes in the order of the tree, and    *)
(* before everything that is still to be listed.                            *)
StackInOrder ==
  \A i, j \in 1..Len(pending) :
    i < j => LeftOf(PathTo[pending[j].dir], PathTo[pending[i].dir])

ReportedBefore ==
  \A i \in 1..Len(report.matches), j \in 1..Len(pending) :
    PathBefore(PathTo[Up[report.matches[i]]], PathTo[pending[j].dir])

DepthsOK ==
  \A i \in 1..Len(pending) :
    pending[i].depth = Depth(pending[i].dir) /\ pending[i].depth <= MaxDepth

Shape ==
  /\ SearchTypes
  /\ StackInOrder
  /\ ReportedBefore
  /\ DepthsOK
  /\ InOrderOfTree
  /\ Len(report.matches) <= MaxResults
  /\ walk = "start" => /\ pending = <<>>
                       /\ report = [matches |-> <<>>, skippedAccess |-> 0,
                                    skippedReparse |-> 0, truncated |-> MaxResults = 0]
                       /\ steady = Nodes
  /\ walk = "searching" => ~report.truncated
  /\ walk = "found" => IF report.truncated THEN Len(report.matches) = MaxResults
                                           ELSE pending = <<>>

LEMMA ShapeInit == SearchInit => Shape
<1> SUFFICES ASSUME SearchInit PROVE Shape
  OBVIOUS
<1>1. /\ walk = "start" /\ pending = <<>> /\ steady = Nodes
      /\ report = [matches |-> <<>>, skippedAccess |-> 0,
                   skippedReparse |-> 0, truncated |-> MaxResults = 0]
      /\ report.matches = <<>>
  BY DEF SearchInit
<1>2. Len(pending) = 0 /\ Len(report.matches) = 0 /\ report.matches = <<>>
  BY <1>1
<1>3. MaxResults \in Nat
  BY FileSearchAssumption
<1>4. SearchTypes
  <2>1. <<>> \in Seq(Nodes) /\ <<>> \in Seq([dir : Places, depth : Nat])
    BY EmptySeq
  <2>2. (MaxResults = 0) \in BOOLEAN
    OBVIOUS
  <2>3. report \in [matches : Seq(Nodes), skippedAccess : Nat, skippedReparse : Nat,
                    truncated : BOOLEAN]
    BY <1>1, <2>1, <2>2, Zenon
  <2> QED BY <1>1, <2>1, <2>3 DEF SearchTypes
<1>5. StackInOrder /\ ReportedBefore /\ DepthsOK
  BY <1>2 DEF StackInOrder, ReportedBefore, DepthsOK
<1>6. InOrderOfTree
  BY <1>2 DEF InOrderOfTree
<1> QED BY <1>1, <1>2, <1>3, <1>4, <1>5, <1>6 DEF Shape

LEMMA ShapeTyped ==
  ASSUME Shape
  PROVE  /\ report.matches \in Seq(Nodes) /\ Len(report.matches) \in Nat
         /\ Len(pending) \in Nat
         /\ \A i \in 1..Len(report.matches) :
              /\ report.matches[i] \in Nodes
              /\ PathTo[report.matches[i]] \in Seq(Nodes)
              /\ PathTo[Up[report.matches[i]]] \in Seq(Nodes)
         /\ \A i \in 1..Len(pending) :
              /\ pending[i].dir \in Places /\ pending[i].depth \in Nat
              /\ PathTo[pending[i].dir] \in Seq(Nodes)
<1>1. report.matches \in Seq(Nodes) /\ pending \in Seq([dir : Places, depth : Nat])
  BY DEF Shape, SearchTypes
<1>2. \A i \in 1..Len(pending) : pending[i] \in [dir : Places, depth : Nat]
  <2> DEFINE D == [dir : Places, depth : Nat]
  <2>1. pending \in Seq(D)
    BY <1>1
  <2> HIDE DEF D
  <2>2. \A i \in 1..Len(pending) : pending[i] \in D
    BY <2>1
  <2> QED BY <2>2 DEF D
<1>3. \A i \in 1..Len(report.matches) : report.matches[i] \in Nodes
  BY <1>1
<1>4. \A n \in Nodes : Up[n] \in Places /\ n \in Places
  BY DirectoriesAssumption DEF Places
<1>5. Len(pending) \in Nat /\ Len(report.matches) \in Nat
  BY <1>1, LenProperties
<1> QED BY <1>1, <1>2, <1>3, <1>4, <1>5, PathToProperties

(* Directories come off the stack. *)
LEMMA ShapeOfFront ==
  ASSUME Shape, walk = "searching",
         pending' = Front(pending), report'.matches = report.matches
  PROVE  StackInOrder' /\ ReportedBefore' /\ DepthsOK' /\ InOrderOfTree'
<1>1. /\ Len(pending') = Len(pending) - 1 /\ Len(pending) \in Nat
      /\ \A i \in 1..(Len(pending) - 1) : pending'[i] = pending[i]
  BY TopProperties DEF Shape
<1>2. \A i \in 1..Len(pending') : i \in 1..Len(pending) /\ pending'[i] = pending[i]
  BY <1>1
<1>3. StackInOrder'
  BY <1>2 DEF StackInOrder, Shape
<1>4. ReportedBefore'
  BY <1>2 DEF ReportedBefore, Shape
<1>5. DepthsOK'
  BY <1>2 DEF DepthsOK, Shape
<1>6. InOrderOfTree'
  BY DEF InOrderOfTree, Shape
<1> QED BY <1>3, <1>4, <1>5, <1>6

(* A directory is replaced on the stack by those in it. *)
LEMMA ShapeOfListing ==
  ASSUME Shape, ListNext
  PROVE  StackInOrder' /\ ReportedBefore' /\ DepthsOK' /\ InOrderOfTree'
<1> DEFINE r == Len(pending) - 1
           k == Cardinality(Entered)
           l == Len(report.matches)
           h == Cardinality(NewHits)
           d == Top.dir
           old == report.matches
           new == report'.matches
<1>1. /\ walk = "searching" /\ SearchTypes
      /\ Len(pending) \in Nat /\ Len(pending) > 0
      /\ d \in Places /\ Top.depth \in Nat
  <2>1. walk = "searching" /\ SearchTypes
    BY DEF Shape, ListNext
  <2> QED BY <2>1, TopProperties
<1>2. /\ r \in Nat /\ k \in Nat
      /\ Len(pending') = r + k
      /\ \A i \in 1..r : pending'[i] = pending[i]
      /\ \A i \in 1..k : /\ pending'[r + i].dir \in Entered
                         /\ pending'[r + i].depth = Top.depth + 1
      /\ \A i, j \in 1..k : i < j => pending'[r + j].dir < pending'[r + i].dir
  BY <1>1, ListingStacks
<1>3. /\ l \in Nat /\ h \in Nat /\ old \in Seq(Nodes) /\ new \in Seq(Nodes)
      /\ Len(new) = l + h
      /\ \A i \in 1..l : new[i] = old[i]
      /\ \A i \in 1..h : new[l + i] \in NewHits
      /\ \A i, j \in 1..h : i < j => new[l + i] < new[l + j]
  BY <1>1, ListingReports, SeenProperties, ShapeTyped
<1>4. \A n \in Seen : /\ n \in Nodes /\ n \in Nat /\ Up[n] = d
                      /\ PathTo[n] = Append(PathTo[d], n)
                      /\ PathTo[n] \in Seq(Nodes)
  <2> SUFFICES ASSUME NEW n \in Seen
               PROVE  /\ n \in Nodes /\ n \in Nat /\ Up[n] = d
                      /\ PathTo[n] = Append(PathTo[d], n) /\ PathTo[n] \in Seq(Nodes)
    OBVIOUS
  <2>1. n \in Listed /\ n \in Nodes /\ n \in Nat
    BY SeenProperties
  <2>2. Up[n] = d
    BY <2>1 DEF Listed, Children
  <2> QED BY <2>1, <2>2, PathToProperties DEF Places
<1>5. /\ \A n \in Entered : n \in Seen /\ Top.depth < MaxDepth
      /\ \A n \in NewHits : n \in Seen
  BY DEF Entered, NewHits
<1>6. PathTo[d] \in Seq(Nodes)
  BY <1>1, PathToProperties
<1>7. /\ \A i \in 1..r : i \in 1..Len(pending) /\ i < Len(pending)
      /\ Len(pending) \in 1..Len(pending) /\ pending[Len(pending)] = Top
      /\ \A i \in 1..Len(pending) : /\ pending[i].dir \in Places
                                    /\ PathTo[pending[i].dir] \in Seq(Nodes)
  BY <1>1, ShapeTyped DEF Top
<1> HIDE DEF r, k, l, h, d, old, new
<1>8. \A i \in 1..r : LeftOf(PathTo[d], PathTo[pending[i].dir])
  BY <1>7 DEF Shape, StackInOrder, d
<1>9. \A i \in 1..(r + k) : i \in 1..r \/ \E j \in 1..k : i = r + j
  <2> SUFFICES ASSUME NEW i \in 1..(r + k), i \notin 1..r PROVE \E j \in 1..k : i = r + j
    OBVIOUS
  <2>1. i - r \in 1..k /\ i = r + (i - r)
    BY <1>2
  <2> QED BY <2>1
<1>10. \A i \in 1..(l + h) : i \in 1..l \/ \E j \in 1..h : i = l + j
  <2> SUFFICES ASSUME NEW i \in 1..(l + h), i \notin 1..l PROVE \E j \in 1..h : i = l + j
    OBVIOUS
  <2>1. i - l \in 1..h /\ i = l + (i - l)
    BY <1>3
  <2> QED BY <2>1
<1>11. StackInOrder'
  <2> SUFFICES ASSUME NEW i \in 1..(r + k), NEW j \in 1..(r + k), i < j
               PROVE  LeftOf(PathTo[pending'[j].dir], PathTo[pending'[i].dir])
    BY <1>2 DEF StackInOrder
  <2>1. CASE i \in 1..r /\ j \in 1..r
    <3>1. pending'[i] = pending[i] /\ pending'[j] = pending[j]
      BY <1>2, <2>1
    <3> QED BY <1>7, <2>1, <3>1 DEF Shape, StackInOrder
  <2>2. CASE i \in 1..r /\ j \notin 1..r
    <3>1. PICK v \in 1..k : j = r + v
      BY <1>9, <2>2
    <3>2. pending'[i] = pending[i] /\ pending'[j].dir \in Seen
      BY <1>2, <1>5, <2>2, <3>1
    <3>3. LeftOf(PathTo[d], PathTo[pending[i].dir]) /\ PathTo[pending[i].dir] \in Seq(Nodes)
      BY <1>7, <1>8, <2>2
    <3>4. pending'[j].dir \in Nodes /\ PathTo[pending'[j].dir] = Append(PathTo[d], pending'[j].dir)
      BY <1>4, <3>2
    <3>5. LeftOf(Append(PathTo[d], pending'[j].dir), PathTo[pending[i].dir])
      BY <1>6, <3>3, <3>4, OrderOfPaths
    <3> QED BY <3>2, <3>4, <3>5
  <2>3. CASE i \notin 1..r
    <3>1. PICK u \in 1..k : i = r + u
      BY <1>9, <2>3
    <3>2. PICK v \in 1..k : j = r + v
      <4>1. j \notin 1..r
        BY <1>2, <2>3
      <4> QED BY <1>9, <4>1
    <3>3. u < v
      BY <1>2, <3>1, <3>2
    <3> DEFINE a == pending'[i].dir
               b == pending'[j].dir
    <3>4. a \in Seen /\ b \in Seen /\ b < a
      BY <1>2, <1>5, <3>1, <3>2, <3>3
    <3> HIDE DEF a, b
    <3>5. LeftOf(Append(PathTo[d], b), Append(PathTo[d], a))
      BY <1>4, <1>6, <3>4, OrderOfPaths
    <3>6. LeftOf(PathTo[b], PathTo[a])
      BY <1>4, <3>4, <3>5
    <3> QED BY <3>6 DEF a, b
  <2> QED BY <2>1, <2>2, <2>3
<1>12. ReportedBefore'
  <2> SUFFICES ASSUME NEW i \in 1..(l + h), NEW j \in 1..(r + k)
               PROVE  PathBefore(PathTo[Up[new[i]]], PathTo[pending'[j].dir])
    BY <1>2, <1>3 DEF ReportedBefore, new
  <2>1. \/ j \in 1..r /\ pending'[j] = pending[j]
        \/ pending'[j].dir \in Seen
    <3>1. CASE j \in 1..r
      BY <1>2, <3>1
    <3>2. CASE j \notin 1..r
      <4>1. PICK v \in 1..k : j = r + v
        BY <1>9, <3>2
      <4> QED BY <1>2, <1>5, <4>1
    <3> QED BY <3>1, <3>2
  <2>2. CASE i \in 1..l
    <3> DEFINE p == PathTo[Up[old[i]]]
    <3>1. p \in Seq(Nodes) /\ new[i] = old[i]
      BY <1>3, <2>2, ShapeTyped DEF l, old
    <3>2. \A e \in 1..Len(pending) : PathBefore(p, PathTo[pending[e].dir])
      BY <2>2 DEF Shape, ReportedBefore, l, old
    <3>3. PathBefore(p, PathTo[d])
      BY <1>7, <3>2 DEF d
    <3> HIDE DEF p
    <3>4. \A n \in Seen : PathBefore(p, PathTo[n])
      <4> SUFFICES ASSUME NEW n \in Seen PROVE PathBefore(p, PathTo[n])
        OBVIOUS
      <4>1. n \in Nodes /\ PathTo[n] = Append(PathTo[d], n)
        BY <1>4
      <4>2. PathBefore(p, Append(PathTo[d], n))
        BY <1>6, <3>1, <3>3, <4>1, OrderOfPaths
      <4> QED BY <4>1, <4>2
    <3>5. PathBefore(p, PathTo[pending'[j].dir])
      BY <1>7, <2>1, <3>2, <3>4
    <3> QED BY <3>1, <3>5 DEF p
  <2>3. CASE i \notin 1..l
    <3>1. PICK u \in 1..h : i = l + u
      BY <1>10, <2>3
    <3>2. Up[new[i]] = d
      BY <1>3, <1>4, <1>5, <3>1
    <3>3. \A n \in Seen : PathBefore(PathTo[d], PathTo[n])
      <4> SUFFICES ASSUME NEW n \in Seen PROVE PathBefore(PathTo[d], PathTo[n])
        OBVIOUS
      <4>1. n \in Nodes /\ PathTo[n] = Append(PathTo[d], n)
        BY <1>4
      <4>2. PathBefore(PathTo[d], Append(PathTo[d], n))
        BY <1>6, <4>1, OrderOfPaths
      <4> QED BY <4>1, <4>2
    <3>4. \A e \in 1..r : PathBefore(PathTo[d], PathTo[pending[e].dir])
      BY <1>6, <1>7, <1>8, OrderOfPaths
    <3> QED BY <2>1, <3>2, <3>3, <3>4
  <2> QED BY <2>2, <2>3
<1>13. DepthsOK'
  <2> SUFFICES ASSUME NEW i \in 1..(r + k)
               PROVE  /\ pending'[i].depth = Depth(pending'[i].dir)
                      /\ pending'[i].depth <= MaxDepth
    BY <1>2 DEF DepthsOK
  <2>1. CASE i \in 1..r
    BY <1>2, <1>7, <2>1 DEF Shape, DepthsOK
  <2>2. CASE i \notin 1..r
    <3>1. PICK v \in 1..k : i = r + v
      BY <1>9, <2>2
    <3> DEFINE n == pending'[i].dir
    <3>2. /\ n \in Entered /\ pending'[i].depth = Top.depth + 1
      BY <1>2, <3>1
    <3>3. n \in Nodes /\ Up[n] = d /\ Top.depth < MaxDepth
      BY <1>4, <1>5, <3>2
    <3>4. Depth(n) = Depth(d) + 1
      BY <3>3, DepthProperties
    <3>5. Top.depth = Depth(d)
      BY <1>7 DEF Shape, DepthsOK, d
    <3>6. MaxDepth \in Nat
      BY FileSearchAssumption
    <3> QED BY <1>1, <3>2, <3>3, <3>4, <3>5, <3>6
  <2> QED BY <2>1, <2>2
<1>14. InOrderOfTree'
  <2>1. DOMAIN new = 1..(l + h)
    BY <1>3
  <2> SUFFICES ASSUME NEW i \in 1..(l + h), NEW j \in 1..(l + h), i < j
               PROVE  Precedes(new[i], new[j])
    BY <2>1 DEF InOrderOfTree, Precedes, new
  <2>2. CASE i \in 1..l /\ j \in 1..l
    <3>1. new[i] = old[i] /\ new[j] = old[j] /\ DOMAIN old = 1..l
      BY <1>3, <2>2 DEF l, old
    <3> QED BY <2>2, <3>1 DEF Shape, InOrderOfTree, old
  <2>3. CASE i \in 1..l /\ j \notin 1..l
    <3>1. PICK v \in 1..h : j = l + v
      BY <1>10, <2>3
    <3>2. new[i] = old[i] /\ Up[new[j]] = d
      BY <1>3, <1>4, <1>5, <2>3, <3>1
    <3>3. PathBefore(PathTo[Up[old[i]]], PathTo[d])
      BY <1>7, <2>3 DEF Shape, ReportedBefore, d, l, old
    <3> QED BY <3>2, <3>3 DEF Precedes
  <2>4. CASE i \notin 1..l
    <3>1. PICK u \in 1..h : i = l + u
      BY <1>10, <2>4
    <3>2. PICK v \in 1..h : j = l + v
      <4>1. j \notin 1..l
        BY <1>3, <2>4
      <4> QED BY <1>10, <4>1
    <3>3. u < v
      BY <1>3, <3>1, <3>2
    <3>4. new[i] < new[j] /\ Up[new[i]] = d /\ Up[new[j]] = d
      BY <1>3, <1>4, <1>5, <3>1, <3>2, <3>3
    <3> QED BY <3>4 DEF Precedes
  <2> QED BY <2>2, <2>3, <2>4
<1> QED BY <1>11, <1>12, <1>13, <1>14

LEMMA ShapeStep ==
  ASSUME Shape, SearchNext \/ UNCHANGED searchVars
  PROVE  Shape'
<1>1. CASE UNCHANGED searchVars
  BY <1>1 DEF searchVars, Shape, SearchTypes, StackInOrder, ReportedBefore, DepthsOK,
              InOrderOfTree
<1>2. CASE Start
  <2>1. /\ report' = report /\ steady' = steady /\ walk = "start"
        /\ report = [matches |-> <<>>, skippedAccess |-> 0,
                     skippedReparse |-> 0, truncated |-> MaxResults = 0]
        /\ pending' = <<[dir |-> Root, depth |-> 0]>>
        /\ walk' \in {"failed", "found", "searching"}
        /\ walk' = "found" <=> (MaxResults = 0 /\ walk' # "failed")
    BY <1>2 DEF Start, Shape
  <2>2. report'.matches = <<>> /\ Len(report'.matches) = 0
        /\ report'.truncated = (MaxResults = 0)
    BY <2>1
  <2>3. Len(pending') = 1 /\ pending'[1] = [dir |-> Root, depth |-> 0] /\ pending' # <<>>
    BY <2>1
  <2>4. MaxDepth \in Nat /\ MaxResults \in Nat
    BY FileSearchAssumption
  <2>5. DepthsOK'
    BY <2>3, <2>4, DepthProperties DEF DepthsOK
  <2>6. StackInOrder' /\ ReportedBefore' /\ InOrderOfTree'
    BY <2>2, <2>3 DEF StackInOrder, ReportedBefore, InOrderOfTree
  <2>7. SearchTypes'
    <3>1. [dir |-> Root, depth |-> 0] \in [dir : Places, depth : Nat]
      BY DEF Places
    <3>2. pending' \in Seq([dir : Places, depth : Nat])
      BY <2>1, <3>1
    <3> QED BY <2>1, <2>3, <3>2 DEF Shape, SearchTypes
  <2> QED BY <2>1, <2>2, <2>3, <2>4, <2>5, <2>6, <2>7 DEF Shape
<1>3. CASE ListNext
  <2>1. StackInOrder' /\ ReportedBefore' /\ DepthsOK' /\ InOrderOfTree'
    BY <1>3, ShapeOfListing
  <2>2. SearchTypes /\ walk = "searching" /\ steady' = steady
        /\ Len(report.matches) <= MaxResults
    BY <1>3 DEF Shape, ListNext
  <2>3. /\ report' \in [matches : Seq(Nodes), skippedAccess : Nat, skippedReparse : Nat,
                        truncated : BOOLEAN]
        /\ Len(report'.matches) = Len(report.matches) + Cardinality(NewHits)
        /\ report'.truncated = (Seen # Listed)
    BY <1>3, <2>2, ListingReports
  <2>4. pending' \in Seq([dir : Places, depth : Nat])
    BY <1>3, <2>2, ListingStacks
  <2>5. walk' = IF Seen # Listed \/ pending' = <<>> THEN "found" ELSE "searching"
    BY <1>3 DEF ListNext, Seen, Listed, Top, Last
  <2>6. /\ Len(report'.matches) <= MaxResults
        /\ Seen # Listed => Len(report'.matches) = MaxResults
    BY <1>3, <2>2, <2>3, LimitProperties
  <2>7. SearchTypes'
    BY <2>2, <2>3, <2>4, <2>5 DEF SearchTypes
  <2> QED BY <2>1, <2>3, <2>5, <2>6, <2>7 DEF Shape
<1>4. CASE SkipDenied
  <2>1. /\ walk = "searching" /\ pending' = Front(pending) /\ steady' = steady
        /\ report' = [report EXCEPT !.skippedAccess = @ + 1]
        /\ walk' = IF pending' = <<>> THEN "found" ELSE "searching"
    BY <1>4 DEF SkipDenied
  <2>2. /\ report'.matches = report.matches /\ report'.truncated = report.truncated
        /\ report' \in [matches : Seq(Nodes), skippedAccess : Nat, skippedReparse : Nat,
                        truncated : BOOLEAN]
    <3> DEFINE c == report.skippedAccess + 1
    <3>1. report' = [report EXCEPT !.skippedAccess = c]
      BY <2>1
    <3>2. c \in Nat
      BY DEF Shape, SearchTypes
    <3> HIDE DEF c
    <3>3. report' \in [matches : Seq(Nodes), skippedAccess : Nat, skippedReparse : Nat,
                       truncated : BOOLEAN]
      BY <3>1, <3>2, Zenon DEF Shape, SearchTypes
    <3> QED BY <3>1, <3>3 DEF Shape, SearchTypes
  <2>3. StackInOrder' /\ ReportedBefore' /\ DepthsOK' /\ InOrderOfTree'
    BY <2>1, <2>2, ShapeOfFront
  <2>4. Front(pending) \in Seq([dir : Places, depth : Nat])
    BY <2>1, TopProperties DEF Shape
  <2>5. SearchTypes'
    BY <2>1, <2>2, <2>4 DEF SearchTypes, Shape
  <2> QED BY <2>1, <2>2, <2>3, <2>5 DEF Shape
<1>5. CASE Abort
  <2>1. walk' = "failed" /\ UNCHANGED <<pending, report, steady>>
    BY <1>5 DEF Abort
  <2> QED BY <2>1 DEF Shape, SearchTypes, StackInOrder, ReportedBefore, DepthsOK, InOrderOfTree
<1>6. CASE Change
  <2>1. /\ UNCHANGED <<walk, pending, report>>
        /\ steady' \subseteq steady /\ (walk = "start" => steady' = steady)
    BY <1>6 DEF Change
  <2> QED BY <2>1 DEF Shape, SearchTypes, StackInOrder, ReportedBefore, DepthsOK, InOrderOfTree
<1> QED BY <1>1, <1>2, <1>3, <1>4, <1>5, <1>6 DEF SearchNext, Search

-----------------------------------------------------------------------------
(* What a search does not miss. *)

(* Still to be seen: somewhere below a directory on the stack.              *)
Ahead(n) == \E i \in 1..Len(pending) : pending[i].dir \in Above(n)

Wanted(n) == n \in steady /\ Reachable(n) /\ Above(n) \ {Root} \subseteq steady

Complete ==
  walk \in {"searching", "found"} /\ ~report.truncated =>
    \A n \in Nodes : Wanted(n) /\ IsHit(n) => n \in ToSet(report.matches) \/ Ahead(n)

(* What is below the directory listed is one of its entries, or below one   *)
(* that is stacked.                                                         *)
LEMMA BelowTop ==
  ASSUME Shape, ListNext, Seen = Listed,
         NEW n \in Nodes, Reachable(n), Top.dir \in Above(n)
  PROVE  \/ Up[n] = Top.dir /\ n \in Seen
         \/ Ahead(n)'
<1>1. SearchTypes /\ walk = "searching"
  BY DEF Shape, ListNext
<1>2. CASE Up[n] = Top.dir
  BY <1>2 DEF Listed, Children, Reachable
<1>3. CASE Up[n] # Top.dir
  <2>1. PICK c \in Nodes : Up[c] = Top.dir /\ c \in Above(n)
    BY <1>3, AboveProperties
  <2>2. disk[c] = "directory"
    BY <2>1 DEF Reachable
  <2>3. c \in Seen /\ IsDirectory(disk[c])
    BY <2>1, <2>2 DEF Listed, Children, IsDirectory
  <2>4. Top.depth < MaxDepth
    <3>1. Depth(c) < Depth(n) /\ Depth(c) = Depth(Top.dir) + 1
      BY <2>1, DepthProperties
    <3>2. Depth(n) - 1 <= MaxDepth
      BY DEF Reachable, Depth
    <3>3. Top.depth = Depth(Top.dir)
      BY <1>1, TopProperties DEF Shape, DepthsOK, Top
    <3>4. Depth(c) \in Nat /\ Depth(n) \in Nat /\ Depth(Top.dir) \in Nat
      BY <1>1, TopProperties, DepthProperties DEF Places
    <3>5. MaxDepth \in Nat
      BY FileSearchAssumption
    <3> QED BY <3>1, <3>2, <3>3, <3>4, <3>5
  <2>5. c \in Entered
    BY <2>3, <2>4 DEF Entered
  <2>6. \E i \in 1..Len(pending') : pending'[i].dir = c
    <3> DEFINE r == Len(pending) - 1
               k == Cardinality(Entered)
    <3>1. /\ r \in Nat /\ k \in Nat /\ Len(pending') = r + k
          /\ \A m \in Entered : \E i \in 1..k : pending'[r + i].dir = m
      BY <1>1, ListingStacks
    <3> HIDE DEF r, k
    <3>2. PICK i \in 1..k : pending'[r + i].dir = c
      BY <2>5, <3>1
    <3>3. r + i \in 1..Len(pending')
      BY <3>1
    <3> QED BY <3>2, <3>3
  <2> QED BY <2>1, <2>6 DEF Ahead, Above
<1> QED BY <1>2, <1>3

(* What is ahead stays so, or is reached.                                   *)
LEMMA AheadStep ==
  ASSUME Shape, walk = "searching", NEW n \in Nodes, Ahead(n),
         \A i \in 1..(Len(pending) - 1) : i \in 1..Len(pending') /\ pending'[i] = pending[i]
  PROVE  Ahead(n)' \/ Top.dir \in Above(n)
<1>1. PICK i \in 1..Len(pending) : pending[i].dir \in Above(n)
  BY DEF Ahead
<1>2. Len(pending) \in Nat /\ Len(pending) > 0
  BY TopProperties DEF Shape
<1>3. CASE i = Len(pending)
  BY <1>1, <1>3 DEF Top
<1>4. CASE i # Len(pending)
  <2>1. i \in 1..(Len(pending) - 1)
    BY <1>2, <1>4
  <2> QED BY <1>1, <2>1 DEF Ahead, Above
<1> QED BY <1>3, <1>4

LEMMA RestStays ==
  ASSUME Shape
  PROVE  /\ ListNext \/ SkipDenied =>
              \A i \in 1..(Len(pending) - 1) : i \in 1..Len(pending') /\ pending'[i] = pending[i]
         /\ ListNext => ToSet(report'.matches) = ToSet(report.matches) \cup NewHits
<1>1. SearchTypes
  BY DEF Shape
<1>2. ASSUME ListNext
      PROVE  /\ \A i \in 1..(Len(pending) - 1) : i \in 1..Len(pending') /\ pending'[i] = pending[i]
             /\ ToSet(report'.matches) = ToSet(report.matches) \cup NewHits
  <2> DEFINE r == Len(pending) - 1
             k == Cardinality(Entered)
             l == Len(report.matches)
             h == Cardinality(NewHits)
  <2>1. /\ r \in Nat /\ k \in Nat /\ Len(pending') = r + k
        /\ \A i \in 1..r : pending'[i] = pending[i]
    BY <1>1, <1>2, ListingStacks
  <2>2. /\ l \in Nat /\ h \in Nat
        /\ DOMAIN report.matches = 1..l /\ DOMAIN report'.matches = 1..(l + h)
        /\ \A i \in 1..l : report'.matches[i] = report.matches[i]
        /\ \A i \in 1..h : report'.matches[l + i] \in NewHits
        /\ \A n \in NewHits : \E i \in 1..h : report'.matches[l + i] = n
    BY <1>1, <1>2, ListingReports, ShapeTyped, SeenProperties
  <2> HIDE DEF r, k, l, h
  <2>3. \A i \in 1..r : i \in 1..Len(pending')
    BY <2>1
  <2>4. ASSUME NEW n \in ToSet(report'.matches)
        PROVE  n \in ToSet(report.matches) \cup NewHits
    <3>1. PICK i \in 1..(l + h) : report'.matches[i] = n
      BY <2>2 DEF ToSet
    <3>2. CASE i \in 1..l
      BY <2>2, <3>1, <3>2 DEF ToSet
    <3>3. CASE i \notin 1..l
      <4>1. i - l \in 1..h /\ i = l + (i - l)
        BY <2>2, <3>3
      <4> QED BY <2>2, <3>1, <4>1
    <3> QED BY <3>2, <3>3
  <2>5. ASSUME NEW n \in ToSet(report.matches) PROVE n \in ToSet(report'.matches)
    <3>1. PICK i \in 1..l : report.matches[i] = n
      BY <2>2 DEF ToSet
    <3>2. i \in 1..(l + h)
      BY <2>2
    <3> QED BY <2>2, <3>1, <3>2 DEF ToSet
  <2>6. ASSUME NEW n \in NewHits PROVE n \in ToSet(report'.matches)
    <3>1. PICK i \in 1..h : report'.matches[l + i] = n
      BY <2>2
    <3>2. l + i \in 1..(l + h)
      BY <2>2
    <3> QED BY <2>2, <3>1, <3>2 DEF ToSet
  <2> QED BY <2>1, <2>3, <2>4, <2>5, <2>6 DEF r
<1>3. ASSUME SkipDenied
      PROVE  \A i \in 1..(Len(pending) - 1) : i \in 1..Len(pending') /\ pending'[i] = pending[i]
  <2>1. walk = "searching" /\ pending' = Front(pending)
    BY <1>3 DEF SkipDenied
  <2> QED BY <1>1, <2>1, TopProperties
<1> QED BY <1>2, <1>3

(* A change of another node leaves a wanted node what it is, and a wanted   *)
(* node has been wanted before.                                             *)
LEMMA WantedStep ==
  ASSUME DiskOK, Shape, Change, walk # "start", NEW n \in Nodes, Wanted(n)', IsHit(n)'
  PROVE  Wanted(n) /\ IsHit(n)
<1>1. PICK m \in Nodes : ChangeNode(m) /\ steady' = steady \ {m}
  BY DEF Change
<1>2. PICK kind : disk' = [disk EXCEPT ![m] = kind]
  BY <1>1 DEF ChangeNode
<1>3. \A p \in Places : p # m => disk'[p] = disk[p]
  BY <1>2 DEF DiskOK
<1>4. n \in steady /\ n # m /\ Above(n) \ {Root} \subseteq steady \ {m}
  BY <1>1 DEF Wanted, Above
<1>5. Above(n) \subseteq Places
  BY AboveProperties
<1>6. m \notin Above(n)
  BY <1>1, <1>4, UpIsAPlace
<1>7. disk'[n] = disk[n] /\ \A p \in Above(n) : disk'[p] = disk[p]
  BY <1>3, <1>4, <1>5, <1>6 DEF Places
<1>8. Reachable(n)
  BY <1>7 DEF Wanted, Reachable, Above
<1> QED BY <1>4, <1>7, <1>8 DEF Wanted, IsHit

LEMMA CompleteStep ==
  ASSUME DiskOK, Shape, Complete,
         \/ SearchNext
         \/ UNCHANGED searchVars /\ (UNCHANGED disk \/ walk = "start")
  PROVE  Complete'
<1> SUFFICES ASSUME walk' \in {"searching", "found"}, ~report'.truncated,
                    NEW n \in Nodes, Wanted(n)', IsHit(n)'
             PROVE  n \in ToSet(report'.matches) \/ Ahead(n)'
  BY DEF Complete
<1>1. CASE UNCHANGED <<disk, steady>>
  <2>0. Wanted(n) /\ IsHit(n) /\ Reachable(n)
    BY <1>1 DEF Wanted, IsHit, Reachable, Above
  <2>1. CASE UNCHANGED searchVars
    BY <2>0, <2>1 DEF Complete, searchVars, Ahead, Above
  <2>2. CASE Start
    <3>1. Len(pending') = 1 /\ pending'[1].dir = Root
      BY <2>2 DEF Start
    <3> QED BY <3>1 DEF Ahead, Above
  <2>3. CASE ListNext
    <3>1. walk = "searching" /\ ~report.truncated /\ SearchTypes
      BY <2>3 DEF ListNext, Shape
    <3>2. Seen = Listed
      BY <2>3, <3>1, ListingReports
    <3>3. CASE n \in ToSet(report.matches)
      BY <2>3, <3>3, RestStays
    <3>4. CASE Ahead(n)
      <4>1. Ahead(n)' \/ Top.dir \in Above(n)
        BY <2>3, <3>1, <3>4, AheadStep, RestStays
      <4>2. CASE Top.dir \in Above(n)
        <5>1. (Up[n] = Top.dir /\ n \in Seen) \/ Ahead(n)'
          BY <2>0, <2>3, <3>2, <4>2, BelowTop
        <5>2. n \in Seen => n \in NewHits
          BY <2>0 DEF NewHits
        <5> QED BY <2>3, <5>1, <5>2, RestStays
      <4> QED BY <4>1, <4>2
    <3> QED BY <2>0, <3>1, <3>3, <3>4 DEF Complete
  <2>4. CASE SkipDenied
    <3>1. /\ walk = "searching" /\ ~report.truncated /\ SearchTypes
          /\ Reading(Last(pending).dir) = "access_denied"
          /\ report'.matches = report.matches
      BY <2>4 DEF SkipDenied, Shape, SearchTypes
    <3>2. CASE n \in ToSet(report.matches)
      BY <3>1, <3>2
    <3>3. CASE Ahead(n)
      <4>1. Ahead(n)' \/ Top.dir \in Above(n)
        BY <2>4, <3>1, <3>3, AheadStep, RestStays
      <4>2. disk[Top.dir] # "directory"
        BY <3>1, TopProperties DEF Reading
      <4> QED BY <2>0, <4>1, <4>2 DEF Reachable
    <3> QED BY <2>0, <3>1, <3>2, <3>3 DEF Complete
  <2>5. CASE Abort
    BY <2>5 DEF Abort
  <2>6. CASE Change
    <3>1. UNCHANGED <<walk, pending, report>>
      BY <2>6 DEF Change
    <3> QED BY <2>0, <3>1 DEF Complete, Ahead, Above
  <2> QED BY <2>1, <2>2, <2>3, <2>4, <2>5, <2>6 DEF SearchNext, Search
<1>2. CASE UNCHANGED searchVars /\ (UNCHANGED disk \/ walk = "start")
  <2>1. walk # "start"
    BY <1>2 DEF searchVars
  <2> QED BY <1>1, <1>2, <2>1 DEF searchVars
<1>3. CASE Change
  <2>1. UNCHANGED <<walk, pending, report>> /\ walk # "start"
    BY <1>3 DEF Change
  <2>2. Wanted(n) /\ IsHit(n)
    BY <1>3, <2>1, WantedStep
  <2> QED BY <2>1, <2>2 DEF Complete, Ahead, Above
<1>4. CASE Search
  <2>1. UNCHANGED <<disk, steady>>
    BY <1>4, Zenon DEF Search, Start, ListNext, SkipDenied, Abort
  <2> QED BY <1>1, <2>1
<1> QED BY <1>2, <1>3, <1>4 DEF SearchNext

(* A sequence in the order of the tree repeats nothing.                     *)
LEMMA OrderedIsInjective ==
  ASSUME Shape
  PROVE  IsInjective(report.matches)
<1> DEFINE m == report.matches
<1>1. DOMAIN m = 1..Len(m) /\ Len(m) \in Nat /\ \A i \in 1..Len(m) : m[i] \in Nodes
  BY ShapeTyped
<1>2. \A n \in Nodes : ~Precedes(n, n)
  <2> SUFFICES ASSUME NEW n \in Nodes PROVE ~Precedes(n, n)
    OBVIOUS
  <2>1. PathTo[Up[n]] \in Seq(Nodes) /\ n \in Nat
    BY PathToProperties, DirectoriesAssumption
  <2>2. ~PathBefore(PathTo[Up[n]], PathTo[Up[n]])
    BY <2>1, OrderOfPaths
  <2> QED BY <2>1, <2>2 DEF Precedes
<1>3. \A i, j \in 1..Len(m) : i < j => Precedes(m[i], m[j])
  BY <1>1 DEF Shape, InOrderOfTree
<1> HIDE DEF m
<1>4. ASSUME NEW i \in 1..Len(m), NEW j \in 1..Len(m), m[i] = m[j] PROVE i = j
  <2>1. ~(i < j) /\ ~(j < i)
    <3>1. ASSUME i < j PROVE FALSE
      BY <1>1, <1>2, <1>3, <1>4, <3>1
    <3>2. ASSUME j < i PROVE FALSE
      BY <1>1, <1>2, <1>3, <1>4, <3>2
    <3> QED BY <3>1, <3>2
  <2> QED BY <1>1, <2>1
<1> QED BY <1>1, <1>4 DEF IsInjective, m

LEMMA NothingIsMissed ==
  ASSUME Shape, Complete
  PROVE  SearchMissesNothingThatStayed
<1>1. walk = "found" /\ ~report.truncated => \A n \in Nodes : ~Ahead(n)
  <2>1. walk = "found" /\ ~report.truncated => Len(pending) = 0
    BY DEF Shape
  <2> QED BY <2>1 DEF Ahead
<1>2. steady \subseteq Nodes
  BY DEF Shape, SearchTypes
<1> QED BY <1>1, <1>2, OrderedIsInjective DEF SearchMissesNothingThatStayed, Complete, Wanted

-----------------------------------------------------------------------------
(* What a search of a tree at rest reports. *)

TreeHits == {n \in Nodes : Reachable(n) /\ IsHit(n)}

OnStack(n) == \E i \in 1..Len(pending) : pending[i].dir = n

(* The reparse points and the closed directories the walk has come past.    *)
PassedReparse == {n \in Nodes : Reachable(n) /\ disk[n] = "reparse" /\ ~Ahead(n)}

PassedDenied ==
  {n \in Nodes : /\ Reachable(n) /\ disk[n] = "denied" /\ Depth(n) <= MaxDepth
                 /\ ~Ahead(n) /\ ~OnStack(n)}

Exact ==
  /\ ToSet(report.matches) \subseteq TreeHits
  /\ \A n \in Nodes : OnStack(n) => Reachable(n)
  /\ \A n \in ToSet(report.matches), m \in TreeHits \ ToSet(report.matches) :
       Precedes(n, m)
  /\ ~report.truncated =>
       /\ report.skippedReparse = Cardinality(PassedReparse)
       /\ report.skippedAccess = Cardinality(PassedDenied)

Quiet == walk \in {"searching", "found"} /\ steady = Nodes => Exact

(* Where a path leads before a directory, it leads before all below it.     *)
LEMMA BeforeBelow ==
  ASSUME NEW p \in Seq(Nodes), NEW d, PathBefore(p, PathTo[d]),
         NEW n \in Nodes, d \in Above(n)
  PROVE  PathBefore(p, PathTo[Up[n]])
<1> DEFINE S == {m \in Nodes : d \in Above(m) /\ ~PathBefore(p, PathTo[Up[m]])}
<1>1. \A m \in S : Up[m] \in S
  <2> SUFFICES ASSUME NEW m \in S, Up[m] \notin S PROVE FALSE
    OBVIOUS
  <2>1. d # Up[m]
    OBVIOUS
  <2>2. Up[m] # Root
    BY <2>1, AboveStep
  <2>3. Up[m] \in Nodes /\ Above(m) = Above(Up[m]) \cup {Up[m]}
    BY <2>2, AboveStep
  <2>4. PathBefore(p, PathTo[Up[Up[m]]])
    BY <2>1, <2>3
  <2>5. PathTo[Up[m]] = Append(PathTo[Up[Up[m]]], Up[m]) /\ PathTo[Up[Up[m]]] \in Seq(Nodes)
    BY <2>3, PathToProperties, DirectoriesAssumption
  <2>6. PathBefore(p, Append(PathTo[Up[Up[m]]], Up[m]))
    BY <2>3, <2>4, <2>5, OrderOfPaths
  <2> QED BY <2>5, <2>6
<1>2. S = {}
  BY <1>1, NoException
<1> QED BY <1>2

(* Nothing of the root that is ahead is passed, and all of the tree is.     *)
LEMMA QuietStart ==
  ASSUME Shape, Start, walk' # "failed"
  PROVE  Exact'
<1>1. /\ walk = "start" /\ UNCHANGED <<disk, report, steady>>
      /\ report = [matches |-> <<>>, skippedAccess |-> 0,
                   skippedReparse |-> 0, truncated |-> MaxResults = 0]
      /\ pending' = <<[dir |-> Root, depth |-> 0]>>
  BY DEF Start, Shape
<1>2. Len(pending') = 1 /\ pending'[1].dir = Root
  BY <1>1
<1>3. report'.matches = <<>> /\ report'.skippedAccess = 0 /\ report'.skippedReparse = 0
  BY <1>1
<1>4. ToSet(report'.matches) = {}
  BY <1>3 DEF ToSet
<1>5. \A n \in Nodes : Ahead(n)'
  BY <1>2 DEF Ahead, Above
<1>6. PassedReparse' = {} /\ PassedDenied' = {}
  BY <1>5 DEF PassedReparse, PassedDenied
<1>7. Cardinality({}) = 0
  BY FS_EmptySet
<1>8. \A n \in Nodes : ~OnStack(n)'
  BY <1>2, UpIsAPlace DEF OnStack
<1> QED BY <1>3, <1>4, <1>6, <1>7, <1>8 DEF Exact

(* A closed directory comes off the stack: it is passed, and nothing in it  *)
(* was asked for.                                                           *)
LEMMA QuietSkip ==
  ASSUME DiskOK, Shape, Exact, SkipDenied
  PROVE  Exact'
<1>1. /\ walk = "searching" /\ ~report.truncated /\ SearchTypes
      /\ UNCHANGED <<disk, steady>>
      /\ pending' = Front(pending)
      /\ Top.depth > 0 /\ disk[Top.dir] = "denied"
      /\ report'.matches = report.matches
      /\ report'.skippedAccess = report.skippedAccess + 1
      /\ report'.skippedReparse = report.skippedReparse
      /\ report'.truncated = report.truncated
  <2>1. walk = "searching" /\ SearchTypes /\ ~report.truncated
    BY DEF Shape, SkipDenied
  <2>2. Last(pending) = Top
    BY <2>1, TopProperties
  <2>3. Top.depth > 0 /\ Reading(Top.dir) = "access_denied"
    BY <2>2 DEF SkipDenied
  <2>4. disk[Top.dir] = "denied"
    <3>1. Top.dir \in Places
      BY <2>1, TopProperties
    <3>2. disk[Top.dir] \in {"absent", "file", "reparse", "denied", "directory"}
      BY <3>1 DEF DiskOK, Kinds
    <3> QED BY <2>3, <3>2 DEF Reading
  <2> QED BY <2>1, <2>3, <2>4 DEF SkipDenied, SearchTypes
<1>2. /\ Len(pending) \in Nat /\ Len(pending) > 0 /\ Len(pending') = Len(pending) - 1
      /\ \A i \in 1..(Len(pending) - 1) : pending'[i] = pending[i]
      /\ pending[Len(pending)] = Top
  BY <1>1, TopProperties DEF Top
<1> DEFINE d == Top.dir
<1>3. d \in Nodes /\ Reachable(d) /\ Depth(d) <= MaxDepth
  <2>1. Len(pending) \in 1..Len(pending)
    BY <1>2
  <2>2. Top.depth = Depth(d) /\ Top.depth <= MaxDepth /\ d \in Places
    BY <1>2, <2>1, ShapeTyped DEF Shape, DepthsOK
  <2>3. d # Root
    BY <1>1, <2>2, DepthProperties
  <2>4. OnStack(d)
    BY <1>2, <2>1 DEF OnStack
  <2> QED BY <2>2, <2>3, <2>4 DEF Places, Exact
<1>4. \A n \in Nodes : Reachable(n) => d \notin Above(n)
  BY <1>1 DEF Reachable
<1>5. \A n \in Nodes : Reachable(n) => (Ahead(n)' <=> Ahead(n))
  <2> SUFFICES ASSUME NEW n \in Nodes, Reachable(n) PROVE Ahead(n)' <=> Ahead(n)
    OBVIOUS
  <2>1. Ahead(n) => Ahead(n)'
    BY <1>1, <1>4, AheadStep, RestStays
  <2>2. Ahead(n)' => Ahead(n)
    BY <1>2 DEF Ahead, Above
  <2> QED BY <2>1, <2>2
<1>6. \A n \in Nodes : OnStack(n)' <=> OnStack(n) /\ n # d
  <2> SUFFICES ASSUME NEW n \in Nodes PROVE OnStack(n)' <=> OnStack(n) /\ n # d
    OBVIOUS
  <2>1. ASSUME OnStack(n)' PROVE OnStack(n) /\ n # d
    <3>1. PICK i \in 1..(Len(pending) - 1) : pending[i].dir = n
      BY <1>2, <2>1 DEF OnStack
    <3>2. i \in 1..Len(pending) /\ i < Len(pending) /\ Len(pending) \in 1..Len(pending)
      BY <1>2
    <3>3. LeftOf(PathTo[d], PathTo[n])
      BY <1>2, <3>1, <3>2 DEF Shape, StackInOrder
    <3>4. PathTo[d] \in Seq(Nodes) /\ PathTo[n] \in Seq(Nodes)
      BY <1>3, PathToProperties DEF Places
    <3>5. n # d
      BY <3>3, <3>4, OrderOfPaths
    <3> QED BY <3>1, <3>2, <3>5 DEF OnStack
  <2>2. ASSUME OnStack(n), n # d PROVE OnStack(n)'
    <3>1. PICK i \in 1..Len(pending) : pending[i].dir = n
      BY <2>2 DEF OnStack
    <3>2. i \in 1..(Len(pending) - 1)
      BY <1>2, <2>2, <3>1
    <3> QED BY <1>2, <3>1, <3>2 DEF OnStack
  <2> QED BY <2>1, <2>2
<1>7. OnStack(d) /\ ~Ahead(d)
  <2>1. OnStack(d)
    BY <1>2 DEF OnStack
  <2>2. ASSUME Ahead(d) PROVE FALSE
    <3>1. PICK i \in 1..Len(pending) : pending[i].dir \in Above(d)
      BY <2>2 DEF Ahead
    <3> DEFINE e == pending[i].dir
    <3>2. e # d
      <4>1. e \in Above(d) => Depth(e) < Depth(d)
        BY <1>3, DepthProperties
      <4>2. Depth(d) \in Nat
        BY <1>3, DepthProperties DEF Places
      <4> QED BY <3>1, <4>1, <4>2
    <3>3. i < Len(pending) /\ Len(pending) \in 1..Len(pending)
      BY <1>2, <3>2
    <3>4. LeftOf(PathTo[d], PathTo[e])
      BY <1>2, <3>3 DEF Shape, StackInOrder
    <3>5. PathTo[d] \in Seq(Nodes) /\ PathTo[e] \in Seq(Nodes)
      BY <1>3, ShapeTyped, PathToProperties DEF Places
    <3> HIDE DEF e
    <3>6. PathBefore(PathTo[d], PathTo[e])
      BY <3>4, <3>5, OrderOfPaths
    <3>7. PathBefore(PathTo[d], PathTo[Up[d]])
      BY <1>3, <3>1, <3>5, <3>6, BeforeBelow DEF e
    <3>8. PathTo[d] = Append(PathTo[Up[d]], d) /\ PathTo[Up[d]] \in Seq(Nodes)
      BY <1>3, PathToProperties, DirectoriesAssumption
    <3>9. PathBefore(PathTo[d], Append(PathTo[Up[d]], d))
      BY <1>3, <3>5, <3>7, <3>8, OrderOfPaths
    <3> QED BY <3>5, <3>8, <3>9, OrderOfPaths
  <2> QED BY <2>1, <2>2
<1> HIDE DEF d
<1>8. \A n \in Nodes : (Reachable(n)' <=> Reachable(n)) /\ disk'[n] = disk[n]
  BY <1>1 DEF Reachable, Above
<1>9. PassedReparse' = PassedReparse
  BY <1>5, <1>8 DEF PassedReparse
<1>10. PassedDenied' = PassedDenied \cup {d} /\ d \notin PassedDenied
  <2>1. \A n \in Nodes : Depth(n)' = Depth(n)
    BY DEF Depth
  <2>2. disk[d] = "denied"
    BY <1>1 DEF d
  <2>3. d \notin PassedDenied
    BY <1>7 DEF PassedDenied
  <2>4. \A n \in Nodes : n \in PassedDenied' <=> n \in PassedDenied \/ n = d
    BY <1>3, <1>5, <1>6, <1>7, <1>8, <2>1, <2>2 DEF PassedDenied
  <2> QED BY <1>3, <2>3, <2>4 DEF PassedDenied
<1>11. Cardinality(PassedDenied') = Cardinality(PassedDenied) + 1
  <2>1. PassedDenied \subseteq Nodes /\ IsFiniteSet(Nodes)
    BY DirectoriesAssumption DEF PassedDenied
  <2>2. IsFiniteSet(PassedDenied)
    BY <2>1, FS_Subset
  <2> QED BY <1>10, <2>2, FS_AddElement
<1>12. TreeHits' = TreeHits
  BY <1>8 DEF TreeHits, IsHit
<1>13. \A n \in Nodes : OnStack(n)' => Reachable(n)'
  BY <1>6, <1>8 DEF Exact
<1>14. \A n \in ToSet(report'.matches), m \in TreeHits' \ ToSet(report'.matches) :
         Precedes(n, m)'
  BY <1>1, <1>12 DEF Exact, Precedes
<1> QED BY <1>1, <1>9, <1>11, <1>12, <1>13, <1>14 DEF Exact

(* The stack after a listing. *)
LEMMA StackParts ==
  ASSUME SearchTypes, ListNext
  PROVE  /\ \A i \in 1..Len(pending') :
              \/ \E j \in 1..(Len(pending) - 1) : pending'[i] = pending[j]
              \/ pending'[i].dir \in Entered
         /\ \A n \in Entered : OnStack(n)'
<1> DEFINE r == Len(pending) - 1
           k == Cardinality(Entered)
<1>1. /\ r \in Nat /\ k \in Nat
      /\ Len(pending') = r + k
      /\ \A i \in 1..r : pending'[i] = pending[i]
      /\ \A i \in 1..k : pending'[r + i].dir \in Entered
      /\ \A n \in Entered : \E i \in 1..k : pending'[r + i].dir = n
  BY ListingStacks
<1> HIDE DEF r, k
<1>2. ASSUME NEW i \in 1..(r + k)
      PROVE  \/ \E j \in 1..r : pending'[i] = pending[j]
             \/ pending'[i].dir \in Entered
  <2>1. CASE i \in 1..r
    BY <1>1, <2>1
  <2>2. CASE i \notin 1..r
    <3>1. i - r \in 1..k /\ i = r + (i - r)
      BY <1>1, <2>2
    <3> QED BY <1>1, <3>1
  <2> QED BY <2>1, <2>2
<1>3. ASSUME NEW n \in Entered PROVE OnStack(n)'
  <2>1. PICK i \in 1..k : pending'[r + i].dir = n
    BY <1>1
  <2>2. r + i \in 1..Len(pending')
    BY <1>1
  <2> QED BY <2>1, <2>2 DEF OnStack
<1> QED BY <1>1, <1>2, <1>3 DEF r

(* The entries of a directory that is reachable are.                        *)
LEMMA EntriesAreReachable ==
  ASSUME DiskOK, Shape, Exact, ListNext
  PROVE  /\ disk[Top.dir] = "directory"
         /\ \A n \in Listed : /\ n \in Nodes /\ Up[n] = Top.dir
                              /\ Reachable(n)
                              /\ Depth(n) = Top.depth + 1
                              /\ PathTo[n] = Append(PathTo[Top.dir], n)
<1> DEFINE d == Top.dir
<1>1. /\ walk = "searching" /\ SearchTypes
      /\ Len(pending) \in 1..Len(pending) /\ pending[Len(pending)] = Top
      /\ d \in Places /\ Last(pending) = Top
  <2>1. walk = "searching" /\ SearchTypes
    BY DEF Shape, ListNext
  <2> QED BY <2>1, TopProperties DEF Top
<1>2. disk[d] = "directory"
  <2>1. Reading(d) = "listed"
    BY <1>1 DEF ListNext
  <2>2. disk[d] \in {"absent", "file", "reparse", "denied", "directory"}
    BY <1>1 DEF DiskOK, Kinds
  <2> QED BY <2>1, <2>2 DEF Reading
<1>3. Top.depth = Depth(d) /\ Top.depth <= MaxDepth
  BY <1>1 DEF Shape, DepthsOK
<1>4. d # Root => Reachable(d)
  <2>1. OnStack(d)
    BY <1>1 DEF OnStack
  <2> QED BY <1>1, <2>1 DEF Exact, Places
<1> SUFFICES ASSUME NEW n \in Listed
             PROVE  /\ n \in Nodes /\ Up[n] = d /\ Reachable(n)
                    /\ Depth(n) = Top.depth + 1
                    /\ PathTo[n] = Append(PathTo[d], n)
  BY <1>2
<1>5. n \in Nodes /\ Up[n] = d /\ disk[n] # "absent"
  BY DEF Listed, Children
<1>6. Depth(n) = Depth(d) + 1 /\ Depth(d) \in Nat /\ PathTo[n] = Append(PathTo[d], n)
  BY <1>1, <1>5, DepthProperties, PathToProperties
<1>7. \A m \in Above(n) : disk[m] = "directory"
  <2>1. CASE d = Root
    BY <1>2, <1>5, <2>1, AboveStep
  <2>2. CASE d # Root
    <3>1. Above(n) = Above(d) \cup {d}
      BY <1>5, <2>2, AboveStep
    <3> QED BY <1>2, <1>4, <2>2, <3>1 DEF Reachable
  <2> QED BY <2>1, <2>2
<1>8. Len(PathTo[n]) - 1 <= MaxDepth
  <2>1. MaxDepth \in Nat
    BY FileSearchAssumption
  <2> QED BY <1>3, <1>6, <2>1 DEF Depth
<1> QED BY <1>3, <1>5, <1>6, <1>7, <1>8 DEF Reachable

(* Nothing comes to be ahead by a listing, and its entries are not.         *)
LEMMA ListedIsNotAhead ==
  ASSUME DiskOK, Shape, Exact, ListNext
  PROVE  /\ \A n \in Nodes : Ahead(n)' => Ahead(n)
         /\ \A n \in Seen : Ahead(n) /\ ~Ahead(n)'
         /\ \A n \in Listed : Ahead(n)
<1> DEFINE d == Top.dir
<1>1. /\ walk = "searching" /\ SearchTypes
      /\ Len(pending) \in Nat /\ Len(pending) \in 1..Len(pending)
      /\ pending[Len(pending)] = Top
      /\ d \in Places /\ PathTo[d] \in Seq(Nodes)
  <2>1. walk = "searching" /\ SearchTypes
    BY DEF Shape, ListNext
  <2> QED BY <2>1, TopProperties, PathToProperties DEF Top
<1>2. \A n \in Nodes : d \in Above(n) => Ahead(n)
  BY <1>1 DEF Ahead
<1>3. \A n \in Listed : /\ n \in Nodes /\ Up[n] = d /\ d \in Above(n)
                        /\ Depth(n) = Top.depth + 1
  BY EntriesAreReachable, AboveProperties
<1>4. Entered \subseteq Listed /\ Seen \subseteq Listed
  BY SeenProperties DEF Entered
<1>5. \A i \in 1..Len(pending') :
        \/ \E j \in 1..(Len(pending) - 1) : pending'[i] = pending[j]
        \/ pending'[i].dir \in Entered
  BY <1>1, StackParts
<1> HIDE DEF d
<1>6. ASSUME NEW n \in Nodes, Ahead(n)' PROVE Ahead(n)
  <2>1. PICK i \in 1..Len(pending') : pending'[i].dir \in Above(n)
    BY <1>6 DEF Ahead, Above
  <2>2. CASE \E j \in 1..(Len(pending) - 1) : pending'[i] = pending[j]
    <3>1. PICK j \in 1..(Len(pending) - 1) : pending'[i] = pending[j]
      BY <2>2
    <3>2. j \in 1..Len(pending)
      BY <1>1
    <3> QED BY <2>1, <3>1, <3>2 DEF Ahead
  <2>3. CASE pending'[i].dir \in Entered
    <3> DEFINE c == pending'[i].dir
    <3>1. c \in Nodes /\ c \in Above(n) /\ d \in Above(c)
      BY <1>3, <1>4, <2>1, <2>3
    <3> HIDE DEF c
    <3>2. d \in Above(n)
      BY <3>1, AboveIsTransitive
    <3> QED BY <1>2, <3>2
  <2> QED BY <1>5, <2>2, <2>3
<1>7. ASSUME NEW n \in Seen, Ahead(n)' PROVE FALSE
  <2>1. PICK i \in 1..Len(pending') : pending'[i].dir \in Above(n)
    BY <1>7 DEF Ahead, Above
  <2>2. n \in Nodes /\ Up[n] = d
    BY <1>3, <1>4
  <2>3. CASE \E j \in 1..(Len(pending) - 1) : pending'[i] = pending[j]
    <3>1. PICK j \in 1..(Len(pending) - 1) : pending'[i] = pending[j]
      BY <2>3
    <3> DEFINE e == pending[j].dir
    <3>2. j \in 1..Len(pending) /\ j < Len(pending)
      BY <1>1
    <3>3. e \in Above(n) /\ PathTo[e] \in Seq(Nodes)
      BY <2>1, <3>1, <3>2, ShapeTyped
    <3>4. LeftOf(PathTo[d], PathTo[e])
      BY <1>1, <3>2 DEF Shape, StackInOrder, d
    <3> HIDE DEF e
    <3>5. PathBefore(PathTo[d], PathTo[e])
      BY <1>1, <3>3, <3>4, OrderOfPaths
    <3>6. PathBefore(PathTo[d], PathTo[Up[n]])
      BY <1>1, <2>2, <3>3, <3>5, BeforeBelow
    <3> QED BY <1>1, <2>2, <3>6, OrderOfPaths
  <2>4. CASE pending'[i].dir \in Entered
    <3> DEFINE c == pending'[i].dir
    <3>1. c \in Nodes /\ Depth(c) = Top.depth + 1 /\ Depth(n) = Top.depth + 1
      BY <1>3, <1>4, <2>4
    <3>2. Depth(c) < Depth(n)
      BY <2>1, <2>2, DepthProperties
    <3>3. Depth(n) \in Nat
      BY <2>2, DepthProperties DEF Places
    <3> QED BY <3>1, <3>2, <3>3
  <2> QED BY <1>5, <2>3, <2>4
<1> QED BY <1>2, <1>3, <1>4, <1>6, <1>7

(* All hits a listing leaves out come after those it reports, and those     *)
(* after the ones before.                                                   *)
LEMMA QuietOrder ==
  ASSUME DiskOK, Shape, Complete, Exact, steady = Nodes, ListNext,
         NEW n \in ToSet(report.matches) \cup NewHits,
         NEW m \in TreeHits \ (ToSet(report.matches) \cup NewHits)
  PROVE  Precedes(n, m)
<1> DEFINE d == Top.dir
<1>1. /\ walk = "searching" /\ ~report.truncated /\ SearchTypes
      /\ Len(pending) \in Nat /\ Len(pending) \in 1..Len(pending)
      /\ pending[Len(pending)] = Top
      /\ d \in Places /\ PathTo[d] \in Seq(Nodes)
  <2>1. walk = "searching" /\ SearchTypes /\ ~report.truncated
    BY DEF Shape, ListNext
  <2> QED BY <2>1, TopProperties, PathToProperties DEF Top
<1>2. m \in Nodes /\ Reachable(m) /\ IsHit(m)
  BY DEF TreeHits
<1>3. Ahead(m)
  <2>1. Wanted(m)
    BY <1>2, AboveProperties DEF Wanted, Places
  <2> QED BY <1>1, <1>2, <2>1 DEF Complete
<1>4. PICK e \in 1..Len(pending) : pending[e].dir \in Above(m)
  BY <1>3 DEF Ahead
<1>5. pending[e].dir \in Places /\ PathTo[pending[e].dir] \in Seq(Nodes)
  BY ShapeTyped
<1> HIDE DEF d
<1>6. CASE n \in ToSet(report.matches)
  <2>1. PICK i \in 1..Len(report.matches) : report.matches[i] = n
    BY <1>6, ShapeTyped DEF ToSet
  <2> DEFINE p == PathTo[Up[n]]
  <2>2. PathBefore(p, PathTo[pending[e].dir]) /\ p \in Seq(Nodes)
    BY <2>1, ShapeTyped DEF Shape, ReportedBefore
  <2> HIDE DEF p
  <2>3. PathBefore(p, PathTo[Up[m]])
    BY <1>2, <1>4, <2>2, BeforeBelow
  <2> QED BY <2>3 DEF Precedes, p
<1>7. CASE n \in NewHits
  <2>1. n \in Seen /\ n \in Listed /\ Up[n] = d
    BY <1>7, SeenProperties, EntriesAreReachable DEF NewHits, d
  <2>2. CASE e # Len(pending)
    <3>1. e < Len(pending)
      BY <1>1, <2>2
    <3>2. LeftOf(PathTo[d], PathTo[pending[e].dir])
      BY <1>1, <3>1 DEF Shape, StackInOrder, d
    <3>3. PathBefore(PathTo[d], PathTo[pending[e].dir])
      BY <1>1, <1>5, <3>2, OrderOfPaths
    <3>4. PathBefore(PathTo[d], PathTo[Up[m]])
      BY <1>1, <1>2, <1>4, <3>3, BeforeBelow
    <3> QED BY <2>1, <3>4 DEF Precedes
  <2>3. CASE e = Len(pending)
    <3>0. d \in Above(m)
      BY <1>1, <1>4, <2>3 DEF d
    <3>1. CASE Up[m] = d
      <4>1. m \in Listed
        BY <1>2, <3>1 DEF Listed, Children, Reachable, d
      <4>2. m \notin Seen
        BY <1>2 DEF NewHits
      <4>3. n < m
        BY <1>1, <2>1, <4>1, <4>2, LimitProperties DEF Shape
      <4> QED BY <2>1, <3>1, <4>3 DEF Precedes
    <3>2. CASE Up[m] # d
      <4>1. PICK c \in Nodes : Up[c] = d /\ c \in Above(m)
        BY <1>2, <3>0, <3>2, AboveProperties
      <4>2. PathTo[c] = Append(PathTo[d], c)
        BY <4>1, PathToProperties
      <4>3. PathBefore(PathTo[d], PathTo[c])
        BY <1>1, <4>1, <4>2, OrderOfPaths
      <4>4. PathBefore(PathTo[d], PathTo[Up[m]])
        BY <1>1, <1>2, <4>1, <4>3, BeforeBelow
      <4> QED BY <2>1, <4>4 DEF Precedes
    <3> QED BY <3>1, <3>2
  <2> QED BY <2>2, <2>3
<1> QED BY <1>6, <1>7

(* A complete listing passes the reparse points in the directory, and no    *)
(* closed directory: those are stacked.                                     *)
LEMMA QuietCounts ==
  ASSUME DiskOK, Shape, Exact, ListNext, Seen = Listed
  PROVE  /\ PassedDenied' = PassedDenied
         /\ Cardinality(PassedReparse') =
              Cardinality(PassedReparse) + Cardinality({n \in Seen : disk[n] = "reparse"})
<1> DEFINE d == Top.dir
           R == {n \in Seen : disk[n] = "reparse"}
<1>1. /\ walk = "searching" /\ SearchTypes /\ UNCHANGED disk
      /\ Len(pending) \in Nat /\ Len(pending) \in 1..Len(pending)
      /\ pending[Len(pending)] = Top
      /\ disk[d] = "directory"
  <2>1. walk = "searching" /\ SearchTypes /\ UNCHANGED disk
    BY DEF Shape, ListNext
  <2> QED BY <2>1, TopProperties, EntriesAreReachable DEF Top
<1>2. \A n \in Nodes : /\ Reachable(n)' <=> Reachable(n)
                       /\ disk'[n] = disk[n] /\ Depth(n)' = Depth(n)
  BY <1>1 DEF Reachable, Above, Depth
<1>3. \A n \in Nodes : Reachable(n) /\ Ahead(n) /\ ~Ahead(n)' => n \in Seen
  <2> SUFFICES ASSUME NEW n \in Nodes, Reachable(n), Ahead(n), ~Ahead(n)' PROVE n \in Seen
    OBVIOUS
  <2>1. d \in Above(n)
    BY <1>1, AheadStep, RestStays
  <2> QED BY <2>1, BelowTop
<1>4. \A n \in Seen : /\ n \in Nodes /\ Reachable(n) /\ n \in Listed
                      /\ Depth(n) = Top.depth + 1
  BY SeenProperties, EntriesAreReachable
<1> HIDE DEF d
<1>5. PassedReparse' = PassedReparse \cup R /\ PassedReparse \cap R = {}
  <2>1. \A n \in Nodes : n \in PassedReparse' <=> n \in PassedReparse \/ n \in R
    BY <1>2, <1>3, <1>4, ListedIsNotAhead DEF PassedReparse
  <2>2. PassedReparse \cap R = {}
    BY ListedIsNotAhead DEF PassedReparse
  <2>3. R \subseteq Nodes
    BY <1>4
  <2> HIDE DEF R
  <2> QED BY <2>1, <2>2, <2>3 DEF PassedReparse
<1>6. Cardinality(PassedReparse') = Cardinality(PassedReparse) + Cardinality(R)
  <2>1. IsFiniteSet(PassedReparse) /\ IsFiniteSet(R)
    <3>1. IsFiniteSet(Nodes) /\ PassedReparse \subseteq Nodes /\ R \subseteq Nodes
      BY <1>4, DirectoriesAssumption DEF PassedReparse
    <3> QED BY <3>1, FS_Subset
  <2> HIDE DEF R
  <2>2. Cardinality(PassedReparse \cup R) =
          Cardinality(PassedReparse) + Cardinality(R) - Cardinality({})
    BY <1>5, <2>1, FS_Union
  <2>3. Cardinality({}) = 0 /\ Cardinality(PassedReparse) \in Nat /\ Cardinality(R) \in Nat
    BY <2>1, FS_EmptySet, FS_CardinalityType
  <2> QED BY <1>5, <2>2, <2>3
<1>7. ASSUME NEW n \in Nodes PROVE n \in PassedDenied' <=> n \in PassedDenied
  <2>1. ASSUME n \in PassedDenied PROVE n \in PassedDenied'
    <3>1. /\ Reachable(n) /\ disk[n] = "denied" /\ Depth(n) <= MaxDepth
          /\ ~Ahead(n) /\ ~OnStack(n)
      BY <2>1 DEF PassedDenied
    <3>2. ~Ahead(n)'
      BY <3>1, ListedIsNotAhead
    <3>3. ~OnStack(n)'
      <4> SUFFICES ASSUME OnStack(n)' PROVE FALSE
        OBVIOUS
      <4>1. PICK i \in 1..Len(pending') : pending'[i].dir = n
        BY DEF OnStack
      <4>2. CASE n \in Entered
        BY <3>1, <4>2, ListedIsNotAhead DEF Entered
      <4>3. CASE \E j \in 1..(Len(pending) - 1) : pending'[i] = pending[j]
        <5>1. PICK j \in 1..(Len(pending) - 1) : pending'[i] = pending[j]
          BY <4>3
        <5>2. j \in 1..Len(pending)
          BY <1>1
        <5> QED BY <3>1, <4>1, <5>1, <5>2 DEF OnStack
      <4> QED BY <1>1, <4>1, <4>2, <4>3, StackParts
    <3> QED BY <1>2, <3>1, <3>2, <3>3 DEF PassedDenied
  <2>2. ASSUME n \in PassedDenied' PROVE n \in PassedDenied
    <3>1. /\ Reachable(n) /\ disk[n] = "denied" /\ Depth(n) <= MaxDepth
          /\ ~Ahead(n)' /\ ~OnStack(n)'
      BY <1>2, <2>2 DEF PassedDenied
    <3>2. ASSUME Ahead(n) PROVE FALSE
      <4>1. n \in Seen /\ Depth(n) = Top.depth + 1
        BY <1>3, <1>4, <3>1, <3>2
      <4>2. Top.depth < MaxDepth
        <5>1. Top.depth \in Nat /\ MaxDepth \in Nat
          BY <1>1, TopProperties, FileSearchAssumption
        <5> QED BY <3>1, <4>1, <5>1
      <4>3. n \in Entered
        BY <3>1, <4>1, <4>2 DEF Entered, IsDirectory
      <4> QED BY <1>1, <3>1, <4>3, StackParts
    <3>3. ASSUME OnStack(n) PROVE FALSE
      <4>1. PICK i \in 1..Len(pending) : pending[i].dir = n
        BY <3>3 DEF OnStack
      <4>2. i # Len(pending)
        BY <1>1, <3>1, <4>1 DEF d
      <4>3. i \in 1..(Len(pending) - 1)
        BY <1>1, <4>2
      <4>4. i \in 1..Len(pending') /\ pending'[i] = pending[i]
        BY <4>3, RestStays
      <4> QED BY <3>1, <4>1, <4>4 DEF OnStack
    <3> QED BY <3>1, <3>2, <3>3 DEF PassedDenied
  <2> QED BY <2>1, <2>2
<1>8. PassedDenied' = PassedDenied
  BY <1>7 DEF PassedDenied
<1> QED BY <1>6, <1>8

LEMMA QuietListing ==
  ASSUME DiskOK, Shape, Complete, Exact, steady = Nodes, ListNext
  PROVE  Exact'
<1>1. walk = "searching" /\ ~report.truncated /\ SearchTypes /\ UNCHANGED <<disk, steady>>
  BY DEF Shape, ListNext
<1>2. TreeHits' = TreeHits /\ \A n \in Nodes : Reachable(n)' <=> Reachable(n)
  BY <1>1 DEF TreeHits, Reachable, Above, IsHit
<1>3. ToSet(report'.matches) = ToSet(report.matches) \cup NewHits
  BY RestStays
<1>4. NewHits \subseteq TreeHits
  BY SeenProperties, EntriesAreReachable DEF NewHits, TreeHits
<1>5. ToSet(report'.matches) \subseteq TreeHits'
  BY <1>2, <1>3, <1>4 DEF Exact
<1>6. \A n \in Nodes : OnStack(n)' => Reachable(n)'
  <2> SUFFICES ASSUME NEW n \in Nodes, OnStack(n)' PROVE Reachable(n)
    BY <1>2
  <2>1. PICK i \in 1..Len(pending') : pending'[i].dir = n
    BY DEF OnStack
  <2>2. CASE n \in Entered
    BY <2>2, SeenProperties, EntriesAreReachable DEF Entered
  <2>3. CASE \E j \in 1..(Len(pending) - 1) : pending'[i] = pending[j]
    <3>1. PICK j \in 1..(Len(pending) - 1) : pending'[i] = pending[j]
      BY <2>3
    <3>2. j \in 1..Len(pending)
      BY ShapeTyped
    <3> QED BY <2>1, <3>1, <3>2 DEF OnStack, Exact
  <2> QED BY <1>1, <2>1, <2>2, <2>3, StackParts
<1>7. \A n \in ToSet(report'.matches), m \in TreeHits' \ ToSet(report'.matches) :
        Precedes(n, m)'
  BY <1>2, <1>3, QuietOrder DEF Precedes
<1>8. ~report'.truncated => /\ report'.skippedReparse = Cardinality(PassedReparse')
                            /\ report'.skippedAccess = Cardinality(PassedDenied')
  <2> SUFFICES ASSUME ~report'.truncated
               PROVE  /\ report'.skippedReparse = Cardinality(PassedReparse')
                      /\ report'.skippedAccess = Cardinality(PassedDenied')
    OBVIOUS
  <2>1. /\ Seen = Listed
        /\ report'.skippedAccess = report.skippedAccess
        /\ report'.skippedReparse =
             report.skippedReparse + Cardinality({n \in Seen : disk[n] = "reparse"})
    BY <1>1, ListingReports
  <2>2. /\ report.skippedReparse = Cardinality(PassedReparse)
        /\ report.skippedAccess = Cardinality(PassedDenied)
    BY <1>1 DEF Exact
  <2> QED BY <2>1, <2>2, QuietCounts
<1> QED BY <1>5, <1>6, <1>7, <1>8 DEF Exact

LEMMA QuietStep ==
  ASSUME DiskOK, Shape, Complete, Quiet,
         \/ SearchNext
         \/ UNCHANGED searchVars /\ (UNCHANGED disk \/ walk = "start")
  PROVE  Quiet'
<1> SUFFICES ASSUME walk' \in {"searching", "found"}, steady' = Nodes PROVE Exact'
  BY DEF Quiet
<1>1. CASE UNCHANGED searchVars /\ (UNCHANGED disk \/ walk = "start")
  <2>1. walk # "start" /\ UNCHANGED <<disk, searchVars>>
    BY <1>1 DEF searchVars
  <2>2. Exact
    BY <2>1 DEF Quiet, searchVars
  <2> QED BY <2>1, <2>2 DEF searchVars, Exact, TreeHits, OnStack, PassedReparse, PassedDenied,
             Reachable, Above, IsHit, Precedes, Ahead, Depth
<1>2. CASE Start
  BY <1>2, QuietStart
<1>3. CASE ListNext
  BY <1>3, QuietListing DEF Quiet, ListNext
<1>4. CASE SkipDenied
  BY <1>4, QuietSkip DEF Quiet, SkipDenied
<1>5. CASE Abort
  BY <1>5 DEF Abort
<1>6. CASE Change
  <2>1. PICK n \in Nodes : steady' = IF walk = "start" THEN steady ELSE steady \ {n}
    BY <1>6 DEF Change
  <2>2. walk' = walk /\ walk # "start"
    BY <1>6 DEF Change
  <2> QED BY <2>1, <2>2
<1> QED BY <1>1, <1>2, <1>3, <1>4, <1>5, <1>6 DEF SearchNext, Search

LEMMA QuietIsExact ==
  ASSUME Shape, Complete, Quiet
  PROVE  QuietSearchIsExact
<1> SUFFICES ASSUME walk = "found", steady = Nodes PROVE QuietSearchIsExact
  BY DEF QuietSearchIsExact
<1>1. Exact
  BY DEF Quiet
<1>2. ~report.truncated => \A n \in Nodes : ~Ahead(n) /\ ~OnStack(n)
  <2>1. ~report.truncated => Len(pending) = 0
    BY DEF Shape
  <2> QED BY <2>1 DEF Ahead, OnStack
<1>3. \A n \in Nodes : Reachable(n) => Wanted(n)
  BY AboveProperties DEF Wanted, Places
<1>4. ~report.truncated =>
        /\ ToSet(report.matches) = TreeHits
        /\ PassedReparse = {m \in {n \in Nodes : Reachable(n) /\ disk[n] = "reparse"} : TRUE}
        /\ PassedDenied = {m \in {n \in Nodes : Reachable(n) /\ disk[n] = "denied"} :
                             Len(PathTo[m]) <= MaxDepth}
  BY <1>1, <1>2, <1>3 DEF Exact, Complete, TreeHits, PassedReparse, PassedDenied, Depth
<1>5. {m \in {n \in Nodes : Reachable(n) /\ disk[n] = "reparse"} : TRUE}
        = {n \in Nodes : Reachable(n) /\ disk[n] = "reparse"}
  OBVIOUS
<1> QED BY <1>1, <1>4, <1>5 DEF QuietSearchIsExact, Exact, Shape, TreeHits

(* The window changes the disk before a search starts only.                 *)
LEMMA SearchSteps ==
  ASSUME program = "window" => walk = "start", [WindowRuns \/ SearchRuns]_filesVars
  PROVE  /\ \/ SearchNext
            \/ UNCHANGED searchVars /\ (UNCHANGED disk \/ walk = "start")
         /\ (program = "window" => walk = "start")'
<1>1. CASE WindowRuns
  BY <1>1 DEF WindowRuns, searchVars
<1>2. CASE SearchRuns
  BY <1>2 DEF SearchRuns
<1>3. CASE UNCHANGED filesVars
  BY <1>3 DEF filesVars, allVars, searchVars
<1> QED BY <1>1, <1>2, <1>3

SearchInv ==
  /\ Shape
  /\ Complete
  /\ Quiet
  /\ program = "window" => walk = "start"

LEMMA SearchInvHolds == FilesSpec => []SearchInv
<1>1. FilesInit => SearchInv
  <2> SUFFICES ASSUME FilesInit PROVE SearchInv
    OBVIOUS
  <2>1. SearchInit /\ walk = "start"
    BY DEF FilesInit, SearchInit
  <2> QED BY <2>1, ShapeInit DEF SearchInv, Complete, Quiet
<1>2. SearchInv /\ DiskOK /\ [WindowRuns \/ SearchRuns]_filesVars => SearchInv'
  <2> SUFFICES ASSUME SearchInv, DiskOK, [WindowRuns \/ SearchRuns]_filesVars
               PROVE  SearchInv'
    OBVIOUS
  <2>1. /\ \/ SearchNext
           \/ UNCHANGED searchVars /\ (UNCHANGED disk \/ walk = "start")
        /\ (program = "window" => walk = "start")'
    BY SearchSteps DEF SearchInv
  <2>2. Shape' /\ Complete' /\ Quiet'
    BY <2>1, ShapeStep, CompleteStep, QuietStep DEF SearchInv
  <2> QED BY <2>1, <2>2 DEF SearchInv
<1>3. FilesTypeOK => DiskOK
  BY DEF FilesTypeOK
<1> QED BY <1>1, <1>2, <1>3, FilesTypesHold, PTL DEF FilesSpec

(* Whatever others do to the tree between two listings: what stayed where   *)
(* it was is found by a search that says it is complete, and nothing is     *)
(* reported twice.                                                          *)
THEOREM StayersAreFound == FilesSpec => []SearchMissesNothingThatStayed
<1>1. SearchInv => SearchMissesNothingThatStayed
  BY NothingIsMissed DEF SearchInv
<1> QED BY <1>1, SearchInvHolds, PTL

(* A search of any finite tree at rest, with any bounds, reports the first  *)
(* hits of the tree in its order, and counts what stood in its way.         *)
THEOREM QuietSearchHolds == FilesSpec => []QuietSearchIsExact
<1>1. SearchInv => QuietSearchIsExact
  BY QuietIsExact DEF SearchInv
<1> QED BY <1>1, SearchInvHolds, PTL

=============================================================================
