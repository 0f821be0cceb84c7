----------------------------- MODULE DriveProofs -----------------------------
(***************************************************************************)
(* Proofs about DriveTree, for any drive, any number of requests and any   *)
(* names: types, that every row hangs where its path says, that the end of *)
(* an upload moves nothing, and that browsing shows what is not in the     *)
(* trash.                                                                  *)
(*                                                                         *)
(* The invariant, Inv, has the types and what a request holds at each      *)
(* stage (Typed), and InOrder as long as nothing is spoiled.  In between   *)
(* two statements of a rename or a move the rows do not hang together; but *)
(* they will once the rest of the list is done.  Final is the table as it  *)
(* will then be, and InOrder says that what a request is about hangs       *)
(* together in Final (Region), that what the request has read is still so  *)
(* (Subject, Destination, List, Uploading), and that no two requests are   *)
(* about rows of one branch (Apart).  A step of a request changes at most  *)
(* one row, in its own part of the tree (Turn, Confined), which is far     *)
(* from what the others know (Keeps, SoundStays).                          *)
(***************************************************************************)
EXTENDS DriveTree, FiniteSetTheorems, SequenceTheorems, WellFoundedInduction, TLAPS

-----------------------------------------------------------------------------
(***************************************************************************)
(* Paths.                                                                  *)
(***************************************************************************)

\* IsPrefix, element by element.
LEMMA PrefixIs ==
  ASSUME NEW a \in Seq(Names), NEW b \in Seq(Names)
  PROVE  IsPrefix(a, b) <=> Len(a) <= Len(b) /\ \A k \in 1 .. Len(a) : a[k] = b[k]
<1>0. Len(a) \in Nat /\ Len(b) \in Nat
  BY LenProperties
<1>1. ASSUME Len(a) <= Len(b)
      PROVE  SubSeq(a, 1, Len(a)) = SubSeq(b, 1, Len(a)) <=> \A k \in 1 .. Len(a) : a[k] = b[k]
  <2>1. SubSeq(a, 1, Len(a)) = [k \in 1 .. Len(a) |-> a[k]]
    BY <1>0, SMT
  <2>2. SubSeq(b, 1, Len(a)) = [k \in 1 .. Len(a) |-> b[k]]
    BY <1>0, <1>1, SMT
  <2> QED BY <2>1, <2>2
<1> QED BY <1>1 DEF IsPrefix

\* Sequences with the same elements are the same.
LEMMA SameSeq ==
  ASSUME NEW a \in Seq(Names), NEW b \in Seq(Names), Len(a) = Len(b),
         \A k \in 1 .. Len(a) : a[k] = b[k]
  PROVE  a = b
BY SeqEqual

\* IsPrefix is a partial order, and the prefixes of a path are in a line.
LEMMA PrefixOrder ==
  /\ \A a \in Seq(Names) : IsPrefix(a, a) /\ IsPrefix(<<>>, a)
  /\ \A a, b, c \in Seq(Names) : IsPrefix(a, b) /\ IsPrefix(b, c) => IsPrefix(a, c)
  /\ \A a, b, c \in Seq(Names) : IsPrefix(a, c) /\ IsPrefix(b, c) => Related(a, b)
  /\ \A a, b \in Seq(Names) : IsPrefix(a, b) /\ Len(b) <= Len(a) => a = b
<1>e. <<>> \in Seq(Names) /\ Len(<<>>) = 0
  BY EmptySeq
<1>l. \A a \in Seq(Names) : Len(a) \in Nat
  BY LenProperties
<1>1. \A a \in Seq(Names) : IsPrefix(a, a) /\ IsPrefix(<<>>, a)
  <2> TAKE a \in Seq(Names)
  <2>1. \A k \in 1 .. 0 : FALSE
    OBVIOUS
  <2>2. IsPrefix(a, a)
    BY <1>l, PrefixIs
  <2>3. IsPrefix(<<>>, a) <=> Len(<<>>) <= Len(a) /\ \A k \in 1 .. Len(<<>>) : <<>>[k] = a[k]
    BY <1>e, PrefixIs
  <2> QED BY <1>e, <1>l, <2>1, <2>2, <2>3
<1>2. \A a, b, c \in Seq(Names) : IsPrefix(a, b) /\ IsPrefix(b, c) => IsPrefix(a, c)
  <2> SUFFICES ASSUME NEW a \in Seq(Names), NEW b \in Seq(Names), NEW c \in Seq(Names),
                      IsPrefix(a, b), IsPrefix(b, c)
               PROVE  IsPrefix(a, c)
    OBVIOUS
  <2>1. Len(a) <= Len(b) /\ \A k \in 1 .. Len(a) : a[k] = b[k]
    BY PrefixIs
  <2>2. Len(b) <= Len(c) /\ \A k \in 1 .. Len(b) : b[k] = c[k]
    BY PrefixIs
  <2>3. Len(a) <= Len(c) /\ \A k \in 1 .. Len(a) : a[k] = c[k]
    BY <1>l, <2>1, <2>2
  <2> QED BY <2>3, PrefixIs
<1>3. \A a, b, c \in Seq(Names) : IsPrefix(a, c) /\ IsPrefix(b, c) => Related(a, b)
  <2> SUFFICES ASSUME NEW a \in Seq(Names), NEW b \in Seq(Names), NEW c \in Seq(Names),
                      IsPrefix(a, c), IsPrefix(b, c)
               PROVE  IsPrefix(a, b) \/ IsPrefix(b, a)
    BY DEF Related
  <2>1. Len(a) <= Len(c) /\ \A k \in 1 .. Len(a) : a[k] = c[k]
    BY PrefixIs
  <2>2. Len(b) <= Len(c) /\ \A k \in 1 .. Len(b) : b[k] = c[k]
    BY PrefixIs
  <2>3. CASE Len(a) <= Len(b)
    <3>1. \A k \in 1 .. Len(a) : a[k] = b[k]
      BY <1>l, <2>1, <2>2, <2>3
    <3> QED BY <2>3, <3>1, PrefixIs
  <2>4. CASE Len(b) <= Len(a)
    <3>1. \A k \in 1 .. Len(b) : b[k] = a[k]
      BY <1>l, <2>1, <2>2, <2>4
    <3> QED BY <2>4, <3>1, PrefixIs
  <2> QED BY <1>l, <2>3, <2>4
<1>4. \A a, b \in Seq(Names) : IsPrefix(a, b) /\ Len(b) <= Len(a) => a = b
  <2> SUFFICES ASSUME NEW a \in Seq(Names), NEW b \in Seq(Names),
                      IsPrefix(a, b), Len(b) <= Len(a)
               PROVE  a = b
    OBVIOUS
  <2>1. Len(a) <= Len(b) /\ \A k \in 1 .. Len(a) : a[k] = b[k]
    BY PrefixIs
  <2>2. Len(a) = Len(b)
    BY <1>l, <2>1
  <2> QED BY <2>1, <2>2, SameSeq
<1> QED BY <1>1, <1>2, <1>3, <1>4

\* A path without its last name.
LEMMA FrontOf ==
  ASSUME NEW x \in Paths
  PROVE  /\ Front(x) \in Seq(Names) /\ Len(Front(x)) = Len(x) - 1
         /\ \A k \in 1 .. Len(x) - 1 : Front(x)[k] = x[k]
         /\ IsPrefix(Front(x), x)
         /\ Len(x) \in Nat /\ Len(x) > 0
<1>1. x \in Seq(Names) /\ x # <<>>
  BY DEF Paths
<1>2. Len(x) \in Nat /\ Len(x) > 0
  BY <1>1, EmptySeq, LenProperties
<1>3. /\ Front(x) = [k \in 1 .. Len(x) - 1 |-> x[k]]
      /\ Front(x) \in Seq(Names)
  <2>1. Front(x) = SubSeq(x, 1, Len(x) - 1)
    BY DEF Front
  <2> QED BY <1>1, <1>2, <2>1, SMT
<1>4. Len(Front(x)) = Len(x) - 1
  <2> DEFINE f == Front(x)
  <2>1. f \in Seq(Names) /\ DOMAIN f = 1 .. Len(f) /\ Len(f) \in Nat
    BY <1>3, LenProperties
  <2>2. DOMAIN f = 1 .. Len(x) - 1
    BY <1>3
  <2>3. Len(x) - 1 \in Nat
    BY <1>2
  <2> HIDE DEF f
  <2>4. Len(f) = Len(x) - 1
    BY <2>1, <2>2, <2>3
  <2> QED BY <2>4 DEF f
<1>5. \A k \in 1 .. Len(x) - 1 : Front(x)[k] = x[k]
  BY <1>3
<1>6. IsPrefix(Front(x), x)
  BY <1>1, <1>2, <1>3, <1>4, <1>5, PrefixIs
<1> QED BY <1>2, <1>3, <1>4, <1>5, <1>6

\* Above a path is above its folder.
LEMMA PrefixFront ==
  ASSUME NEW a \in Seq(Names), NEW x \in Paths, IsPrefix(a, x), a # x
  PROVE  IsPrefix(a, Front(x)) /\ Len(a) < Len(x)
<1>1. x \in Seq(Names) /\ Len(a) \in Nat
  BY LenProperties DEF Paths
<1>2. Len(a) <= Len(x) /\ \A k \in 1 .. Len(a) : a[k] = x[k]
  BY <1>1, PrefixIs
<1>3. Len(a) # Len(x)
  BY <1>1, <1>2, SameSeq
<1>4. Len(a) < Len(x)
  BY <1>1, <1>2, <1>3, FrontOf
<1>5. Len(a) <= Len(Front(x)) /\ \A k \in 1 .. Len(a) : a[k] = Front(x)[k]
  BY <1>1, <1>2, <1>4, FrontOf
<1> QED BY <1>4, <1>5, FrontOf, PrefixIs

\* A path below a folder.
LEMMA AppendTo ==
  ASSUME NEW p \in Seq(Names), NEW n \in Names
  PROVE  /\ Append(p, n) \in Paths /\ Len(Append(p, n)) = Len(p) + 1
         /\ Front(Append(p, n)) = p /\ IsPrefix(p, Append(p, n))
<1>1. /\ Append(p, n) \in Seq(Names) /\ Append(p, n) # <<>> /\ Len(Append(p, n)) = Len(p) + 1
      /\ \A k \in 1 .. Len(p) : Append(p, n)[k] = p[k]
  BY AppendProperties
<1>2. Append(p, n) \in Paths
  BY <1>1 DEF Paths
<1>3. Len(p) \in Nat
  BY LenProperties
<1>4. Front(Append(p, n)) = p
  <2> DEFINE f == Front(Append(p, n))
  <2>1. f \in Seq(Names) /\ Len(f) = Len(p) /\ \A k \in 1 .. Len(p) : f[k] = p[k]
    <3> DEFINE q == Append(p, n)
    <3>1. q \in Paths /\ Len(q) = Len(p) + 1 /\ \A k \in 1 .. Len(p) : q[k] = p[k]
      BY <1>1, <1>2
    <3> HIDE DEF q
    <3>2. /\ Front(q) \in Seq(Names) /\ Len(Front(q)) = Len(q) - 1
          /\ \A k \in 1 .. Len(q) - 1 : Front(q)[k] = q[k]
      BY <3>1, FrontOf
    <3>3. Len(q) - 1 = Len(p)
      BY <1>3, <3>1
    <3>4. /\ Front(q) \in Seq(Names) /\ Len(Front(q)) = Len(p)
          /\ \A k \in 1 .. Len(p) : Front(q)[k] = p[k]
      BY <3>1, <3>2, <3>3
    <3> QED BY <3>4 DEF q
  <2> HIDE DEF f
  <2>2. f = p
    BY <2>1, SameSeq
  <2> QED BY <2>2 DEF f
<1> QED BY <1>1, <1>2, <1>4, FrontOf

\* Path x with its beginning o exchanged for w.
Swap(o, w, x) == w \o SubSeq(x, Len(o) + 1, Len(x))

\* What an exchanged path looks like: it begins with w and ends as x did.
LEMMA SwapIs ==
  ASSUME NEW o \in Seq(Names), NEW w \in Seq(Names), NEW x \in Seq(Names), IsPrefix(o, x)
  PROVE  /\ Swap(o, w, x) \in Seq(Names)
         /\ Len(Swap(o, w, x)) = Len(w) + Len(x) - Len(o)
         /\ \A k \in 1 .. Len(w) : Swap(o, w, x)[k] = w[k]
         /\ \A k \in Len(w) + 1 .. Len(w) + Len(x) - Len(o) :
               Swap(o, w, x)[k] = x[k - Len(w) + Len(o)]
         /\ IsPrefix(w, Swap(o, w, x))
<1>1. Len(o) \in Nat /\ Len(w) \in Nat /\ Len(x) \in Nat /\ Len(o) <= Len(x)
  BY LenProperties, PrefixIs
<1>2. \A k \in 1 .. Len(x) : x[k] \in Names
  BY LenProperties, ElementOfSeq
<1> DEFINE z == SubSeq(x, Len(o) + 1, Len(x))
<1>3. /\ z \in Seq(Names) /\ Len(z) = Len(x) - Len(o)
      /\ \A k \in 1 .. Len(x) - Len(o) : z[k] = x[Len(o) + k]
  <2>1. Len(o) + 1 \in Int /\ Len(x) \in Int /\ \A k \in Len(o) + 1 .. Len(x) : x[k] \in Names
    BY <1>1, <1>2
  <2>2. /\ z \in Seq(Names) /\ Len(z) = IF Len(o) + 1 <= Len(x) THEN Len(x) - (Len(o) + 1) + 1 ELSE 0
        /\ \A k \in 1 .. Len(x) - (Len(o) + 1) + 1 : z[k] = x[Len(o) + 1 + k - 1]
    BY <2>1, SubSeqProperties
  <2> HIDE DEF z
  <2> QED BY <1>1, <2>2
<1>4. Swap(o, w, x) = w \o z
  BY DEF Swap
<1> HIDE DEF z
<1>5. /\ w \o z \in Seq(Names) /\ Len(w \o z) = Len(w) + Len(z)
      /\ \A k \in 1 .. Len(w) + Len(z) :
            (w \o z)[k] = IF k <= Len(w) THEN w[k] ELSE z[k - Len(w)]
  BY <1>3, ConcatProperties
<1> DEFINE s == Swap(o, w, x)
<1>6. /\ s \in Seq(Names) /\ Len(s) = Len(w) + Len(x) - Len(o)
      /\ \A k \in 1 .. Len(w) : s[k] = w[k]
      /\ \A k \in Len(w) + 1 .. Len(w) + Len(x) - Len(o) : s[k] = x[k - Len(w) + Len(o)]
  <2> DEFINE c == w \o z
  <2>1. /\ c \in Seq(Names) /\ Len(c) = Len(w) + Len(z)
        /\ \A k \in 1 .. Len(w) + Len(z) : c[k] = IF k <= Len(w) THEN w[k] ELSE z[k - Len(w)]
    BY <1>5
  <2> HIDE DEF c
  <2>2. \A k \in 1 .. Len(w) : c[k] = w[k]
    BY <1>1, <1>3, <2>1
  <2>3. \A k \in Len(w) + 1 .. Len(w) + Len(x) - Len(o) : c[k] = x[k - Len(w) + Len(o)]
    <3> TAKE k \in Len(w) + 1 .. Len(w) + Len(x) - Len(o)
    <3>1. c[k] = z[k - Len(w)] /\ k - Len(w) \in 1 .. Len(x) - Len(o)
      BY <1>1, <1>3, <2>1
    <3>2. z[k - Len(w)] = x[Len(o) + (k - Len(w))]
      BY <1>3, <3>1
    <3>3. Len(o) + (k - Len(w)) = k - Len(w) + Len(o)
      BY <1>1
    <3> QED BY <3>1, <3>2, <3>3
  <2>4. Len(c) = Len(w) + Len(x) - Len(o)
    BY <1>1, <1>3, <2>1
  <2>5. s = c
    BY <1>4 DEF c
  <2> HIDE DEF s
  <2> QED BY <2>1, <2>2, <2>3, <2>4, <2>5
<1> HIDE DEF s
<1>7. IsPrefix(w, s)
  BY <1>1, <1>6, PrefixIs
<1> QED BY <1>6, <1>7 DEF s

\* The exchanged folder itself gets the new path.
LEMMA SwapWhole ==
  ASSUME NEW o \in Seq(Names), NEW w \in Seq(Names)
  PROVE  Swap(o, w, o) = w
<1>1. IsPrefix(o, o) /\ Len(o) \in Nat /\ Len(w) \in Nat
  BY PrefixOrder, LenProperties
<1> DEFINE s == Swap(o, w, o)
<1>2. /\ s \in Seq(Names) /\ Len(s) = Len(w) + Len(o) - Len(o)
      /\ \A k \in 1 .. Len(w) : s[k] = w[k]
  BY <1>1, SwapIs
<1> HIDE DEF s
<1>3. Len(s) = Len(w)
  BY <1>1, <1>2
<1>4. s = w
  BY <1>2, <1>3, SameSeq
<1> QED BY <1>4 DEF s

\* What lies below a folder lies, exchanged, below the exchanged folder.
LEMMA SwapFront ==
  ASSUME NEW o \in Seq(Names), NEW w \in Seq(Names), NEW x \in Paths,
         IsPrefix(o, x), x # o
  PROVE  /\ Swap(o, w, x) \in Paths
         /\ Front(Swap(o, w, x)) = Swap(o, w, Front(x))
         /\ IsPrefix(o, Front(x))
<1>1. /\ x \in Seq(Names) /\ IsPrefix(o, Front(x)) /\ Len(o) < Len(x)
      /\ Front(x) \in Seq(Names) /\ Len(Front(x)) = Len(x) - 1
      /\ \A k \in 1 .. Len(x) - 1 : Front(x)[k] = x[k]
  BY PrefixFront, FrontOf DEF Paths
<1>2. Len(o) \in Nat /\ Len(w) \in Nat /\ Len(x) \in Nat
  BY <1>1, LenProperties
<1> DEFINE s == Swap(o, w, x)
<1> DEFINE f == Front(x)
<1> DEFINE t == Swap(o, w, f)
<1>3. /\ s \in Seq(Names) /\ Len(s) = Len(w) + Len(x) - Len(o)
      /\ \A k \in 1 .. Len(w) : s[k] = w[k]
      /\ \A k \in Len(w) + 1 .. Len(w) + Len(x) - Len(o) : s[k] = x[k - Len(w) + Len(o)]
  BY <1>1, SwapIs
<1>4. /\ f \in Seq(Names) /\ Len(f) = Len(x) - 1 /\ \A k \in 1 .. Len(x) - 1 : f[k] = x[k]
      /\ IsPrefix(o, f)
  BY <1>1
<1> HIDE DEF s, f
<1>5. /\ t \in Seq(Names) /\ Len(t) = Len(w) + Len(f) - Len(o)
      /\ \A k \in 1 .. Len(w) : t[k] = w[k]
      /\ \A k \in Len(w) + 1 .. Len(w) + Len(f) - Len(o) : t[k] = f[k - Len(w) + Len(o)]
  BY <1>4, SwapIs
<1> HIDE DEF t
<1>6. s \in Paths
  <2>1. Len(s) # 0
    BY <1>1, <1>2, <1>3
  <2> QED BY <1>3, <2>1, EmptySeq DEF Paths
<1>7. /\ Front(s) \in Seq(Names) /\ Len(Front(s)) = Len(s) - 1
      /\ \A k \in 1 .. Len(s) - 1 : Front(s)[k] = s[k]
  BY <1>6, FrontOf
<1>8. Len(Front(s)) = Len(t) /\ Len(t) = Len(s) - 1
  BY <1>1, <1>2, <1>3, <1>4, <1>5, <1>7
<1>9. \A k \in 1 .. Len(t) : Front(s)[k] = t[k]
  <2> TAKE k \in 1 .. Len(t)
  <2>1. Front(s)[k] = s[k]
    BY <1>7, <1>8
  <2>2. CASE k <= Len(w)
    BY <1>2, <1>3, <1>5, <2>1, <2>2
  <2>3. CASE k > Len(w)
    <3>0. Len(t) = Len(w) + Len(x) - Len(o) - 1
      BY <1>2, <1>4, <1>5
    <3>5. k \in Len(w) + 1 .. Len(w) + Len(x) - Len(o)
      BY <1>2, <1>1, <2>3, <3>0
    <3>1. s[k] = x[k - Len(w) + Len(o)]
      BY <1>3, <3>5
    <3>2. t[k] = f[k - Len(w) + Len(o)]
      BY <1>2, <1>4, <1>5, <2>3
    <3>3. k - Len(w) + Len(o) \in 1 .. Len(x) - 1
      BY <1>2, <1>4, <1>5, <2>3
    <3> QED BY <1>4, <2>1, <3>1, <3>2, <3>3
  <2> QED BY <1>2, <1>3, <1>8, <2>2, <2>3
<1>10. Front(s) = t
  BY <1>5, <1>7, <1>8, <1>9, SameSeq
<1> QED BY <1>1, <1>6, <1>10 DEF s, t, f

\* A relative path below a folder.
LEMMA Below ==
  ASSUME NEW t \in Paths, NEW rel \in Paths
  PROVE  /\ t \o rel \in Paths /\ Front(t \o rel) = t \o Base(rel)
         /\ IsPrefix(t, t \o rel) /\ t \o <<>> = t
<1>1. t \in Seq(Names) /\ rel \in Seq(Names) /\ rel # <<>>
  BY DEF Paths
<1>2. /\ Len(t) \in Nat /\ Len(t) > 0 /\ Len(rel) \in Nat /\ Len(rel) > 0
      /\ Front(rel) \in Seq(Names) /\ Len(Front(rel)) = Len(rel) - 1
      /\ \A k \in 1 .. Len(rel) - 1 : Front(rel)[k] = rel[k]
  BY FrontOf
<1> DEFINE c == t \o rel
<1> DEFINE b == Front(rel)
<1> DEFINE d == t \o b
<1>3. /\ c \in Seq(Names) /\ Len(c) = Len(t) + Len(rel)
      /\ \A k \in 1 .. Len(t) + Len(rel) : c[k] = IF k <= Len(t) THEN t[k] ELSE rel[k - Len(t)]
  BY <1>1, ConcatProperties
<1>4. b \in Seq(Names) /\ Len(b) = Len(rel) - 1 /\ \A k \in 1 .. Len(rel) - 1 : b[k] = rel[k]
  BY <1>2
<1> HIDE DEF b
<1>5. /\ d \in Seq(Names) /\ Len(d) = Len(t) + Len(b)
      /\ \A k \in 1 .. Len(t) + Len(b) : d[k] = IF k <= Len(t) THEN t[k] ELSE b[k - Len(t)]
  BY <1>1, <1>4, ConcatProperties
<1> HIDE DEF c, d
<1>6. c \in Paths
  <2>1. Len(c) # 0
    BY <1>2, <1>3
  <2> QED BY <1>3, <2>1, EmptySeq DEF Paths
<1>7. /\ Front(c) \in Seq(Names) /\ Len(Front(c)) = Len(c) - 1
      /\ \A k \in 1 .. Len(c) - 1 : Front(c)[k] = c[k]
  BY <1>6, FrontOf
<1>8. Len(Front(c)) = Len(d) /\ Len(d) = Len(c) - 1
  BY <1>2, <1>3, <1>4, <1>5, <1>7
<1>9. \A k \in 1 .. Len(d) : Front(c)[k] = d[k]
  <2> TAKE k \in 1 .. Len(d)
  <2>1. Front(c)[k] = c[k]
    BY <1>7, <1>8
  <2>2. CASE k <= Len(t)
    BY <1>2, <1>3, <1>4, <1>5, <1>8, <2>1, <2>2
  <2>3. CASE k > Len(t)
    <3>1. c[k] = rel[k - Len(t)] /\ d[k] = b[k - Len(t)] /\ k - Len(t) \in 1 .. Len(rel) - 1
      BY <1>2, <1>3, <1>4, <1>5, <1>8, <2>3
    <3> QED BY <1>4, <2>1, <3>1
  <2> QED BY <1>2, <1>5, <2>2, <2>3
<1>10. Front(c) = d
  BY <1>5, <1>7, <1>8, <1>9, SameSeq
<1>11. Base(rel) = b
  BY <1>1 DEF Base, b
<1>12. IsPrefix(t, c)
  <2>1. Len(t) <= Len(c) /\ \A k \in 1 .. Len(t) : t[k] = c[k]
    BY <1>2, <1>3
  <2> QED BY <1>1, <1>3, <2>1, PrefixIs
<1>13. t \o <<>> = t
  BY <1>1, ConcatEmptySeq
<1> QED BY <1>6, <1>10, <1>11, <1>12, <1>13 DEF c, d

-----------------------------------------------------------------------------
(***************************************************************************)
(* Types: what a request holds at each stage.                              *)
(***************************************************************************)

\* What filepath.Walk finds: a relative path, and whether it is a folder.
Entries == [rel : Paths, dir : BOOLEAN]

\* The folders an upload has made, by relative path.
Dirs == UNION {[D -> Ids] : D \in SUBSET Seq(Names)}

\* What a request holds.
Jobs == [op : Ops, at : Stages, id : Ids \cup {Root}, row : Rows \cup {<<>>},
         dest : Ids \cup {Root}, name : Names \cup {<<>>}, target : Seq(Names),
         todo : SUBSET (Ids \X Paths), walk : Seq(Entries),
         dirs : Dirs]

\* The folder of every entry has been made (it is in D) or comes earlier in the walk.
Tidy(walk, D) ==
  \A k \in 1 .. Len(walk) :
    \/ Base(walk[k].rel) \in D
    \/ \E j \in 1 .. k - 1 : walk[j].dir /\ walk[j].rel = Base(walk[k].rel)

\* The stages a request of each kind comes through.
Way(j) ==
  /\ j.at = "idle"   => j = Idle
  /\ j.at = "parent" => j.op \in {"rename", "folder", "upload", "dir"}
  /\ j.at = "dest"   => j.op \in {"move", "relocate"}
  /\ j.at = "taken"  => j.op \in {"rename", "move", "relocate", "folder", "upload"}
  /\ j.at = "below"  => j.op \in {"rename", "move", "relocate", "delete"}
  /\ j.at = "rebase" => j.op \in {"rename", "move", "relocate"}
  /\ j.at = "self"   => j.op \in {"rename", "move", "relocate"}
  /\ j.at = "relink" => j.op = "move"
  /\ j.at = "insert" => j.op \in {"folder", "dir"}
  /\ j.at = "walk"   => j.op = "dir"
  /\ j.at = "lookup" => j.op = "dir"
  /\ j.at = "store"  => j.op \in {"upload", "dir"}
  /\ j.at = "erase"  => j.op = "delete"

\* What a request has read by the time it comes to a stage.
Has(j, is) ==
  /\ j.at \in {"parent", "dest"} /\ j.op # "dir" => j.name \in Names
  /\ j.at = "parent" /\ j.op = "dir" => j.target \in Paths
  /\ j.at \in {"taken", "rebase", "self", "relink", "insert", "walk", "lookup"}
       \/ (j.at = "below" /\ j.op # "delete") => j.target \in Paths
  /\ (j.at # "idle" /\ j.op \in {"rename", "move", "relocate", "delete"}) \/ j.at = "store"
       => j.row \in Rows /\ j.id \in is
  /\ j.op = "dir" /\ j.at \in {"parent", "insert"} => Tidy(j.walk, {<<>>})
  /\ j.op = "dir" /\ j.at \in {"walk", "lookup", "store"} => Tidy(j.walk, DOMAIN j.dirs)
  /\ j.op = "dir" /\ j.at \in {"lookup", "store"} =>
       j.walk # <<>> /\ ~Head(j.walk).dir /\ j.target \in Paths

\* A request is well formed.
JobOK(j, is) == j \in Jobs /\ Way(j) /\ Has(j, is)

\* A catalog: ids that were issued, and no two rows with one path.
Table(fs, is) ==
  /\ fs \in [DOMAIN fs -> Rows]
  /\ DOMAIN fs \subseteq is /\ is \subseteq Ids
  /\ IsFiniteSet(DOMAIN fs)
  /\ \A i, k \in DOMAIN fs : fs[i].path = fs[k].path => i = k

\* The types, with what a request holds at each stage.
Typed ==
  /\ Table(files, issued)
  /\ h \in [Requests -> Jobs] /\ \A r \in Requests : JobOK(h[r], issued)
  /\ about \in [Requests -> SUBSET Paths]
  /\ uploads \subseteq [id : Ids, row : Rows] /\ \A u \in uploads : u.id \in issued
  /\ made \in 0 .. MaxRequests
  /\ spoiled \subseteq Spoilers

\* Typed says more than TypeOK.
LEMMA TypedIsTypeOK ==
  ASSUME Typed PROVE TypeOK
<1>1. /\ DOMAIN files \subseteq issued /\ issued \subseteq Ids
      /\ \A i \in DOMAIN files : files[i] \in Rows
  BY DEF Typed, Table
<1>2. ASSUME NEW r \in Requests
      PROVE  /\ h[r].op \in Ops /\ h[r].at \in Stages
             /\ h[r].id \in Ids \cup {Root} /\ h[r].dest \in Ids \cup {Root}
             /\ h[r].row \in Rows \cup {<<>>} /\ h[r].target \in Paths \cup {<<>>}
             /\ \A t \in h[r].todo : t[1] \in Ids /\ t[2] \in Paths
  <2>1. h[r] \in Jobs
    BY DEF Typed
  <2>2. h[r].target \in Seq(Names) /\ h[r].todo \in SUBSET (Ids \X Paths)
    BY <2>1 DEF Jobs
  <2>3. h[r].target \in Paths \cup {<<>>}
    BY <2>2 DEF Paths
  <2>4. \A t \in h[r].todo : t[1] \in Ids /\ t[2] \in Paths
    BY <2>2
  <2> QED BY <2>1, <2>3, <2>4 DEF Jobs
<1> QED BY <1>1, <1>2 DEF Typed, TypeOK

\* A walk without its first entry is tidy, once the folder of that entry is made.
LEMMA TidyStep ==
  ASSUME NEW walk \in Seq(Entries), NEW D, walk # <<>>, Tidy(walk, D)
  PROVE  /\ Head(walk) \in Entries /\ Tail(walk) \in Seq(Entries)
         /\ Base(Head(walk).rel) \in D
         /\ Head(walk).dir => Tidy(Tail(walk), D \cup {Head(walk).rel})
         /\ ~Head(walk).dir => Tidy(Tail(walk), D)
<1>1. /\ Len(walk) \in Nat /\ Len(walk) > 0
      /\ Head(walk) = walk[1] /\ Head(walk) \in Entries
      /\ Tail(walk) \in Seq(Entries) /\ Len(Tail(walk)) = Len(walk) - 1
      /\ \A k \in 1 .. Len(walk) - 1 : Tail(walk)[k] = walk[k + 1]
  BY LenProperties, HeadTailProperties, EmptySeq
<1>2. Base(walk[1].rel) \in D
  <2>1. 1 \in 1 .. Len(walk) /\ ~\E j \in 1 .. 1 - 1 : TRUE
    BY <1>1
  <2> QED BY <2>1 DEF Tidy
<1> DEFINE w == Tail(walk)
<1>3. Len(w) = Len(walk) - 1 /\ \A k \in 1 .. Len(walk) - 1 : w[k] = walk[k + 1]
  BY <1>1
<1> HIDE DEF w
<1>4. ASSUME NEW k \in 1 .. Len(w), Base(w[k].rel) \notin D
      PROVE  \/ walk[1].dir /\ Base(w[k].rel) = walk[1].rel
             \/ \E j \in 1 .. k - 1 : w[j].dir /\ w[j].rel = Base(w[k].rel)
  <2>1. k + 1 \in 1 .. Len(walk) /\ w[k] = walk[k + 1] /\ k + 1 - 1 = k /\ k \in Nat
    BY <1>1, <1>3, <1>4
  <2>2. PICK j \in 1 .. k : walk[j].dir /\ walk[j].rel = Base(w[k].rel)
    BY <1>4, <2>1 DEF Tidy
  <2>3. CASE j = 1
    BY <2>2, <2>3
  <2>4. CASE j # 1
    <3>1. j - 1 \in 1 .. k - 1 /\ j - 1 \in 1 .. Len(walk) - 1 /\ j - 1 + 1 = j
      BY <1>1, <1>3, <2>1, <2>4
    <3>2. w[j - 1] = walk[j]
      BY <1>3, <3>1
    <3> QED BY <2>2, <3>1, <3>2
  <2> QED BY <2>3, <2>4
<1>5. walk[1].dir => Tidy(w, D \cup {walk[1].rel})
  BY <1>4 DEF Tidy
<1>6. ~walk[1].dir => Tidy(w, D)
  BY <1>4 DEF Tidy
<1> QED BY <1>1, <1>2, <1>5, <1>6 DEF w

\* A walk stays tidy when more folders are made.
LEMMA TidyMore ==
  ASSUME NEW walk, NEW D, NEW E, D \subseteq E, Tidy(walk, D)
  PROVE  Tidy(walk, E)
BY DEF Tidy

\* filepath.Walk names a folder before what is in it.
LEMMA LocalDirIsTidy == LocalDir \in Seq(Entries) /\ Tidy(LocalDir, {<<>>})
<1>1. LocalDir \in Seq(Entries)
  BY WalkAssumption DEF Entries
<1>2. DOMAIN LocalDir = 1 .. Len(LocalDir)
  BY <1>1, LenProperties
<1> QED BY <1>1, <1>2, WalkAssumption DEF Tidy

\* A request stays well formed when ids are issued.
LEMMA JobOKLater ==
  ASSUME NEW j, NEW is, NEW js, is \subseteq js, JobOK(j, is)
  PROVE  JobOK(j, js)
BY DEF JobOK, Has

\* A new id is new.
LEMMA FreshId ==
  ASSUME Ids \ issued # {} PROVE NewId \in Ids /\ NewId \notin issued
BY DEF NewId

-----------------------------------------------------------------------------
(***************************************************************************)
(* The statements of db.go.                                                *)
(***************************************************************************)

\* The fields of a row, and a row with one of them set.
LEMMA RowFields ==
  ASSUME NEW x \in Rows
  PROVE  /\ x.parent \in Ids \cup {Root} /\ x.path \in Paths
         /\ x.dir \in BOOLEAN /\ x.trashed \in BOOLEAN
         /\ \A p \in Ids \cup {Root} : [x EXCEPT !.parent = p] \in Rows
         /\ \A p \in Paths : [x EXCEPT !.path = p] \in Rows
         /\ \A t \in BOOLEAN : [x EXCEPT !.trashed = t] \in Rows
BY DEF Rows

\* A new folder or file is a row.
LEMMA FolderIsRow ==
  ASSUME NEW p \in Ids \cup {Root}, NEW path \in Paths
  PROVE  /\ Folder(p, path) \in Rows /\ [Folder(p, path) EXCEPT !.dir = FALSE] \in Rows
         /\ Folder(p, path).parent = p /\ Folder(p, path).path = path /\ Folder(p, path).dir
         /\ [Folder(p, path) EXCEPT !.dir = FALSE].parent = p
         /\ [Folder(p, path) EXCEPT !.dir = FALSE].path = path
         /\ ~[Folder(p, path) EXCEPT !.dir = FALSE].dir
BY DEF Folder, Rows

\* One row of the table set to a row whose path no other row has.
LEMMA TableSet ==
  ASSUME NEW fs, NEW is, NEW i, NEW row \in Rows, Table(fs, is),
         \A k \in DOMAIN fs : fs[k].path = row.path => k = i
  PROVE  Table([fs EXCEPT ![i] = row], is)
BY DEF Table

\* UpdateFilePath: a path in use is refused, and the table stays a table.
LEMMA TableRenamed ==
  ASSUME NEW i, NEW path \in Paths, Table(files, issued)
  PROVE  Table(Renamed(i, path), issued)
<1>1. CASE i \notin DOMAIN files \/ Blocked(i, path)
  BY <1>1 DEF Renamed
<1>2. CASE i \in DOMAIN files /\ ~Blocked(i, path)
  <2> DEFINE row == [files[i] EXCEPT !.path = path]
  <2>1. files[i] \in Rows
    BY <1>2 DEF Table
  <2>2. row \in Rows /\ row.path = path
    BY <2>1, RowFields DEF Rows
  <2>3. \A k \in DOMAIN files : files[k].path = row.path => k = i
    BY <1>2, <2>2 DEF Blocked, RowsAt
  <2>4. Renamed(i, path) = [files EXCEPT ![i] = row]
    BY <1>2 DEF Renamed
  <2> HIDE DEF row
  <2>5. Table([files EXCEPT ![i] = row], issued)
    BY <2>2, <2>3, TableSet
  <2> QED BY <2>4, <2>5
<1> QED BY <1>1, <1>2

\* UpdateFileParent.
LEMMA TableReparented ==
  ASSUME NEW i, NEW p \in Ids \cup {Root}, Table(files, issued)
  PROVE  Table(Reparented(i, p), issued)
<1>1. CASE i \notin DOMAIN files
  BY <1>1 DEF Reparented
<1>2. CASE i \in DOMAIN files
  <2> DEFINE row == [files[i] EXCEPT !.parent = p]
  <2>1. files[i] \in Rows
    BY <1>2 DEF Table
  <2>2. row \in Rows /\ row.path = files[i].path
    BY <2>1, RowFields DEF Rows
  <2>3. \A k \in DOMAIN files : files[k].path = row.path => k = i
    BY <1>2, <2>2 DEF Table
  <2>4. Reparented(i, p) = [files EXCEPT ![i] = row]
    BY <1>2 DEF Reparented
  <2> HIDE DEF row
  <2>5. Table([files EXCEPT ![i] = row], issued)
    BY <2>2, <2>3, TableSet
  <2> QED BY <2>4, <2>5
<1> QED BY <1>1, <1>2

\* SetFileTrashed.
LEMMA TableTrashed ==
  ASSUME NEW i \in DOMAIN files, NEW on \in BOOLEAN, Table(files, issued)
  PROVE  Table([files EXCEPT ![i].trashed = on], issued)
<1> DEFINE row == [files[i] EXCEPT !.trashed = on]
<1>1. files[i] \in Rows
  BY DEF Table
<1>2. row \in Rows /\ row.path = files[i].path
  BY <1>1, RowFields DEF Rows
<1>3. \A k \in DOMAIN files : files[k].path = row.path => k = i
  BY <1>2 DEF Table
<1>4. [files EXCEPT ![i].trashed = on] = [files EXCEPT ![i] = row]
  OBVIOUS
<1> HIDE DEF row
<1> QED BY <1>2, <1>3, <1>4, TableSet

\* DeleteFile.
LEMMA TableWithout ==
  ASSUME NEW i, Table(files, issued)
  PROVE  Table(Without(i), issued) /\ DOMAIN Without(i) = DOMAIN files \ {i}
<1>1. DOMAIN Without(i) = DOMAIN files \ {i} /\ \A k \in DOMAIN files \ {i} : Without(i)[k] = files[k]
  BY DEF Without
<1>2. IsFiniteSet(DOMAIN files)
  BY DEF Table
<1>3. IsFiniteSet(DOMAIN files \ {i})
  BY <1>2, FS_RemoveElement
<1>4. Without(i) \in [DOMAIN Without(i) -> Rows]
  <2>1. \A k \in DOMAIN files \ {i} : files[k] \in Rows
    BY DEF Table
  <2> QED BY <1>1, <2>1 DEF Without
<1> QED BY <1>1, <1>3, <1>4 DEF Table

\* A row inserted under a new path.
LEMMA TableWith ==
  ASSUME NEW fs, NEW is, NEW js, NEW i \in Ids, NEW row \in Rows, Table(fs, is),
         is \subseteq js, js \subseteq Ids, i \in js, i \notin DOMAIN fs,
         RowsAt(fs, row.path) = {}
  PROVE  /\ Table(With(fs, i, row), js)
         /\ DOMAIN With(fs, i, row) = DOMAIN fs \cup {i}
<1> DEFINE gs == With(fs, i, row)
<1>1. /\ DOMAIN gs = DOMAIN fs \cup {i} /\ gs[i] = row
      /\ \A k \in DOMAIN fs : gs[k] = fs[k]
  BY DEF With
<1>2. IsFiniteSet(DOMAIN fs \cup {i})
  <2>1. IsFiniteSet(DOMAIN fs)
    BY DEF Table
  <2> QED BY <2>1, FS_AddElement
<1>3. gs \in [DOMAIN fs \cup {i} -> Rows]
  <2>1. \A k \in DOMAIN fs : fs[k] \in Rows
    BY DEF Table
  <2> QED BY <2>1 DEF With
<1>4. \A k \in DOMAIN fs : fs[k].path # row.path
  BY DEF RowsAt
<1> HIDE DEF gs
<1>5. \A k, l \in DOMAIN gs : gs[k].path = gs[l].path => k = l
  BY <1>1, <1>4 DEF Table
<1>6. gs \in [DOMAIN gs -> Rows] /\ IsFiniteSet(DOMAIN gs) /\ DOMAIN gs \subseteq js
  BY <1>1, <1>2, <1>3 DEF Table
<1>7. Table(gs, js)
  BY <1>5, <1>6 DEF Table
<1> QED BY <1>1, <1>7 DEF gs

\* The table stays a table when ids are issued.
LEMMA TableLater ==
  ASSUME NEW fs, NEW is, NEW js, Table(fs, is), is \subseteq js, js \subseteq Ids
  PROVE  Table(fs, js)
BY DEF Table

\* UpsertFile.
LEMMA TableUpserted ==
  ASSUME NEW fs, NEW is, NEW js, NEW i \in Ids, NEW row \in Rows, Table(fs, is),
         is \subseteq js, js \subseteq Ids, i \in js
  PROVE  Table(Upserted(fs, i, row), js)
<1> DEFINE there == RowsAt(fs, row.path)
<1>0. Table(fs, js)
  BY TableLater
<1>1. CASE there # {}
  <2> DEFINE gs == Upserted(fs, i, row)
  <2>1. gs = [k \in DOMAIN fs |-> IF k \in there THEN [row EXCEPT !.trashed = fs[k].trashed]
                                  ELSE fs[k]]
    BY <1>1 DEF Upserted
  <2>2. \A k \in DOMAIN fs : fs[k] \in Rows /\ fs[k].trashed \in BOOLEAN
    BY RowFields DEF Table
  <2>3. \A k \in DOMAIN fs : [row EXCEPT !.trashed = fs[k].trashed] \in Rows
                             /\ [row EXCEPT !.trashed = fs[k].trashed].path = row.path
    BY <2>2 DEF Rows
  <2>4. \A k \in DOMAIN fs : k \in there <=> fs[k].path = row.path
    BY DEF RowsAt
  <2> HIDE DEF there, gs
  <2>5. DOMAIN gs = DOMAIN fs /\ \A k \in DOMAIN fs : gs[k] \in Rows /\ gs[k].path = fs[k].path
    BY <2>1, <2>2, <2>3, <2>4
  <2>6. gs \in [DOMAIN gs -> Rows]
    BY <2>1, <2>5
  <2>7. \A k, l \in DOMAIN gs : gs[k].path = gs[l].path => k = l
    BY <1>0, <2>5 DEF Table
  <2>8. Table(gs, js)
    BY <1>0, <2>5, <2>6, <2>7 DEF Table
  <2> QED BY <2>8 DEF gs
<1>2. CASE there = {} /\ i \in DOMAIN fs
  BY <1>0, <1>2 DEF Upserted
<1>3. CASE there = {} /\ i \notin DOMAIN fs
  <2>1. Upserted(fs, i, row) = With(fs, i, row)
    BY <1>3 DEF Upserted
  <2>2. Table(With(fs, i, row), js)
    BY <1>3, TableWith
  <2> QED BY <2>1, <2>2
<1> QED BY <1>1, <1>2, <1>3

\* The statement of migrate that resets parents.
LEMMA TableReset ==
  ASSUME Table(files, issued), ResetParents
  PROVE  Table(files', issued)
<1> DEFINE row(i) == [files[i] EXCEPT !.parent = Root]
<1>1. \A i \in DOMAIN files : /\ files[i] \in Rows /\ row(i) \in Rows
                              /\ row(i).path = files[i].path
  BY DEF Table, Rows
<1>2. /\ DOMAIN files' = DOMAIN files
      /\ files' = [i \in DOMAIN files |-> files'[i]]
      /\ \A i \in DOMAIN files : files'[i] = files[i] \/ files'[i] = row(i)
  BY DEF ResetParents
<1> HIDE DEF row
<1>3. \A i \in DOMAIN files : files'[i] \in Rows /\ files'[i].path = files[i].path
  BY <1>1, <1>2
<1>4. files' \in [DOMAIN files' -> Rows]
  BY <1>2, <1>3
<1>5. \A i, k \in DOMAIN files' : files'[i].path = files'[k].path => i = k
  BY <1>2, <1>3 DEF Table
<1> QED BY <1>2, <1>4, <1>5 DEF Table

-----------------------------------------------------------------------------
(***************************************************************************)
(* Steps: the other requests stand still.                                  *)
(***************************************************************************)

\* The folders an upload knows by their relative paths, and one more.
LEMMA DirsBuilt ==
  /\ <<>> \in Dirs
  /\ \A i \in Ids : [x \in {<<>>} |-> i] \in Dirs
  /\ \A d \in Dirs, x \in Seq(Names), i \in Ids :
        With(d, x, i) \in Dirs /\ DOMAIN With(d, x, i) = DOMAIN d \cup {x}
  /\ \A d \in Dirs : \A x \in DOMAIN d : d[x] \in Ids /\ x \in Seq(Names)
<1>1. <<>> \in Dirs
  <2>1. <<>> = [x \in {} |-> x]
    BY SMT
  <2>2. [x \in {} |-> x] \in [{} -> Ids] /\ {} \in SUBSET Seq(Names)
    OBVIOUS
  <2> QED BY <2>1, <2>2 DEF Dirs
<1>2. \A i \in Ids : [x \in {<<>>} |-> i] \in Dirs
  <2>1. {<<>>} \in SUBSET Seq(Names)
    BY EmptySeq
  <2>2. \A i \in Ids : [x \in {<<>>} |-> i] \in [{<<>>} -> Ids]
    OBVIOUS
  <2> QED BY <2>1, <2>2 DEF Dirs
<1>3. ASSUME NEW d \in Dirs, NEW x \in Seq(Names), NEW i \in Ids
      PROVE  With(d, x, i) \in Dirs /\ DOMAIN With(d, x, i) = DOMAIN d \cup {x}
  <2>1. PICK D \in SUBSET Seq(Names) : d \in [D -> Ids]
    BY DEF Dirs
  <2>2. With(d, x, i) \in [D \cup {x} -> Ids] /\ DOMAIN With(d, x, i) = D \cup {x}
    BY <2>1 DEF With
  <2>3. D \cup {x} \in SUBSET Seq(Names)
    BY <2>1
  <2> QED BY <2>1, <2>2, <2>3 DEF Dirs
<1>4. \A d \in Dirs : \A x \in DOMAIN d : d[x] \in Ids /\ x \in Seq(Names)
  BY DEF Dirs
<1> QED BY <1>1, <1>2, <1>3, <1>4

\* A request at rest is well formed.
LEMMA IdleOK == \A is : JobOK(Idle, is)
<1>1. Idle \in Jobs
  BY DirsBuilt, EmptySeq DEF Idle, Jobs, Ops, Stages
<1> QED BY <1>1 DEF JobOK, Way, Has, Idle

\* One request goes on and the others stand still.
LEMMA JobsMove ==
  ASSUME NEW r \in Requests, NEW j, NEW g, NEW js, Typed,
         g = [h EXCEPT ![r] = j], issued \subseteq js, JobOK(j, js)
  PROVE  /\ g \in [Requests -> Jobs] /\ \A q \in Requests : JobOK(g[q], js)
         /\ g[r] = j /\ \A q \in Requests \ {r} : g[q] = h[q]
<1>1. /\ g \in [Requests -> Jobs] /\ g[r] = j
      /\ \A q \in Requests \ {r} : g[q] = h[q]
  BY DEF Typed, JobOK
<1>2. ASSUME NEW q \in Requests PROVE JobOK(g[q], js)
  <2>1. CASE q = r
    BY <1>1, <2>1
  <2>2. CASE q # r
    <3>1. JobOK(h[q], issued) /\ g[q] = h[q]
      BY <1>1, <2>2 DEF Typed
    <3> QED BY <3>1, JobOKLater
  <2> QED BY <2>1, <2>2
<1> QED BY <1>1, <1>2

\* A step of request r keeps the types if what it writes has them.
LEMMA TypedAgain ==
  ASSUME Typed, NEW r \in Requests, NEW j, h' = [h EXCEPT ![r] = j],
         issued \subseteq issued', JobOK(j, issued'), Table(files', issued'),
         about' \in [Requests -> SUBSET Paths],
         uploads' \subseteq [id : Ids, row : Rows], \A u \in uploads' : u.id \in issued',
         made' \in 0 .. MaxRequests, spoiled' \subseteq Spoilers
  PROVE  Typed'
<1>1. h' \in [Requests -> Jobs] /\ \A q \in Requests : JobOK(h'[q], issued')
  BY JobsMove
<1> QED BY <1>1 DEF Typed

\* Spoil adds reasons.
LEMMA Spoiling ==
  ASSUME NEW S, S \subseteq Spoilers, Typed, Spoil(S) PROVE spoiled' \subseteq Spoilers
BY DEF Spoil, Typed

\* The path of a folder, or of the top of the drive.
LEMMA PathOfIs ==
  ASSUME NEW p, Table(files, issued)
  PROVE  PathOf(p) \in Seq(Names) /\ \A n \in Names : Append(PathOf(p), n) \in Paths
<1>1. PathOf(p) \in Seq(Names)
  <2>1. CASE p \in DOMAIN files
    BY <2>1, RowFields DEF Table, PathOf, Paths
  <2>2. CASE p \notin DOMAIN files
    BY <2>2, EmptySeq DEF PathOf
  <2> QED BY <2>1, <2>2
<1> QED BY <1>1, AppendTo

\* A request that begins well formed.
LEMMA BeginTyped ==
  ASSUME Typed, NEW r \in Requests, NEW paths \in SUBSET Paths, NEW why \in SUBSET Spoilers,
         NEW job, JobOK(job, issued), Begin(r, paths, why, job)
  PROVE  Typed'
<1>1. h' = [h EXCEPT ![r] = job]
  BY DEF Begin
<1>2. issued' = issued /\ files' = files /\ uploads' = uploads
  BY DEF Begin
<1>3. about' \in [Requests -> SUBSET Paths]
  BY DEF Begin, Typed
<1>4. made' \in 0 .. MaxRequests
  <2>1. made < MaxRequests /\ made' = made + 1 /\ made \in 0 .. MaxRequests
    BY DEF Begin, Typed
  <2> QED BY <2>1, TreeAssumption
<1>5. spoiled' \subseteq Spoilers
  <2> DEFINE w == If(\E q \in Requests \ {r} : \E a \in about[q], b \in paths :
                           Related(a, b), "overlap")
  <2>1. w \subseteq Spoilers
    BY DEF If, Spoilers
  <2>2. Spoil(why \cup w)
    BY DEF Begin
  <2> HIDE DEF w
  <2> QED BY <2>1, <2>2, Spoiling
<1>6. Table(files, issued) /\ uploads \subseteq [id : Ids, row : Rows]
      /\ \A u \in uploads : u.id \in issued
  BY DEF Typed
<1>7. Table(files', issued') /\ uploads' \subseteq [id : Ids, row : Rows]
      /\ (\A u \in uploads' : u.id \in issued') /\ issued \subseteq issued'
      /\ JobOK(job, issued')
  BY <1>2, <1>6
<1> QED BY <1>1, <1>3, <1>4, <1>5, <1>7, TypedAgain

\* A request that answers.
LEMMA AnswerTyped ==
  ASSUME Typed, NEW r \in Requests, Answer(r),
         issued \subseteq issued', Table(files', issued'),
         uploads' \subseteq [id : Ids, row : Rows], \A u \in uploads' : u.id \in issued',
         made' \in 0 .. MaxRequests, spoiled' \subseteq Spoilers
  PROVE  Typed'
<1>1. h' = [h EXCEPT ![r] = Idle]
  BY DEF Answer
<1>2. about' \in [Requests -> SUBSET Paths]
  BY DEF Answer, Typed
<1> QED BY <1>1, <1>2, IdleOK, TypedAgain

\* What is empty has its type.
LEMMA Blank ==
  /\ <<>> \in Seq(Names) /\ <<>> \in Seq(Entries) /\ <<>> \in Dirs
  /\ {} \in SUBSET (Ids \X Paths)
BY DirsBuilt, EmptySeq

\* The fields of row i of the catalog.
LEMMA RowOf ==
  ASSUME NEW i \in DOMAIN files, Table(files, issued)
  PROVE  /\ files[i] \in Rows /\ i \in issued /\ i \in Ids
         /\ files[i].path \in Paths /\ files[i].parent \in Ids \cup {Root}
         /\ files[i].path \in Seq(Names) /\ files[i].dir \in BOOLEAN
         /\ Last(files[i].path) \in Names
<1>1. files[i] \in Rows /\ i \in issued /\ i \in Ids
  BY DEF Table
<1>2. files[i].path \in Paths /\ files[i].parent \in Ids \cup {Root} /\ files[i].dir \in BOOLEAN
  BY <1>1, RowFields
<1> DEFINE p == files[i].path
<1>3. p \in Paths
  BY <1>2
<1> HIDE DEF p
<1>4. p \in Seq(Names) /\ Len(p) \in Nat /\ Len(p) > 0
  BY <1>3, FrontOf DEF Paths
<1>5. Len(p) \in 1 .. Len(p)
  BY <1>4
<1>6. p[Len(p)] \in Names
  BY <1>4, <1>5, ElementOfSeq
<1>7. Last(p) \in Names
  BY <1>6 DEF Last
<1> QED BY <1>1, <1>2, <1>4, <1>7 DEF p

\* A rename arrives.
LEMMA RenameTyped ==
  ASSUME Typed, NEW r \in Requests, NEW i \in issued, NEW n \in Names, Rename(r, i, n)
  PROVE  Typed'
<1> DEFINE job == [Idle EXCEPT !.op = "rename", !.at = "parent", !.id = i, !.row = files[i],
                        !.dest = files[i].parent, !.name = n]
<1>1. i \in DOMAIN files
  BY DEF Rename
<1>2. /\ files[i] \in Rows /\ i \in issued /\ i \in Ids
      /\ files[i].path \in Paths /\ files[i].parent \in Ids \cup {Root}
  BY <1>1, RowOf DEF Typed
<1>3. JobOK(job, issued)
  BY <1>2, Blank DEF JobOK, Jobs, Way, Has, Idle, Ops, Stages
<1> DEFINE paths == {files[i].path, Append(PathOf(files[i].parent), n)}
<1>4. paths \in SUBSET Paths
  BY <1>2, PathOfIs DEF Typed
<1>5. Begin(r, paths, {}, job)
  BY DEF Rename
<1> HIDE DEF job, paths
<1> QED BY <1>3, <1>4, <1>5, BeginTyped

\* A move, or a relocation, arrives.
LEMMA TransferTyped ==
  ASSUME Typed, NEW r \in Requests, NEW op \in {"move", "relocate"}, NEW i \in issued,
         NEW p \in Named, NEW why \in SUBSET Spoilers, Transfer(r, op, i, p, why)
  PROVE  Typed'
<1> DEFINE job == [Idle EXCEPT !.op = op, !.at = "dest", !.id = i, !.row = files[i], !.dest = p,
                        !.name = Last(files[i].path)]
<1>1. i \in DOMAIN files
  BY DEF Transfer
<1>2. /\ files[i] \in Rows /\ i \in issued /\ i \in Ids
      /\ files[i].path \in Paths /\ Last(files[i].path) \in Names
  BY <1>1, RowOf DEF Typed
<1>p. p \in Ids \cup {Root}
  BY DEF Named, Typed, Table
<1>3. JobOK(job, issued)
  BY <1>2, <1>p, Blank DEF JobOK, Jobs, Way, Has, Idle, Ops, Stages
<1> DEFINE paths == {files[i].path, Append(PathOf(p), Last(files[i].path))}
<1>4. paths \in SUBSET Paths
  BY <1>2, PathOfIs DEF Typed
<1>5. Begin(r, paths, why, job)
  BY DEF Transfer
<1> HIDE DEF job, paths
<1> QED BY <1>3, <1>4, <1>5, BeginTyped

\* A new folder, or an upload, arrives.
LEMMA CreateTyped ==
  ASSUME Typed, NEW r \in Requests, NEW op \in {"folder", "upload"}, NEW p \in Named,
         NEW n \in Names, Create(r, op, p, n)
  PROVE  Typed'
<1> DEFINE job == [Idle EXCEPT !.op = op, !.at = "parent", !.dest = p, !.name = n]
<1>p. p \in Ids \cup {Root}
  BY DEF Named, Typed, Table
<1>3. JobOK(job, issued)
  BY <1>p, Blank DEF JobOK, Jobs, Way, Has, Idle, Ops, Stages
<1> DEFINE paths == {Append(PathOf(p), n)}
<1>4. paths \in SUBSET Paths
  BY PathOfIs DEF Typed
<1>5. Begin(r, paths, Gone(p), job)
  BY DEF Create
<1>6. Gone(p) \in SUBSET Spoilers
  BY DEF Gone, If, Spoilers
<1> HIDE DEF job, paths
<1> QED BY <1>3, <1>4, <1>5, <1>6, BeginTyped

\* A path that a client writes out.
LEMMA SpelledIs ==
  ASSUME NEW q \in Spelled
  PROVE  /\ q \in Seq(Names)
         /\ \A n \in Names : Append(q, n) \in Paths /\ Append(q, n) \in Seq(Names)
         /\ q # <<>> => q \in Paths /\ Last(q) \in Names
<1>1. q \in Seq(Names)
  BY TreeAssumption
<1>2. \A n \in Names : Append(q, n) \in Paths /\ Append(q, n) \in Seq(Names)
  BY <1>1, AppendTo DEF Paths
<1>3. ASSUME q # <<>> PROVE q \in Paths /\ Last(q) \in Names
  <2>1. q \in Paths
    BY <1>1, <1>3 DEF Paths
  <2>2. Len(q) \in Nat /\ Len(q) > 0
    BY <1>1, <2>1, FrontOf
  <2>3. q[Len(q)] \in Names
    BY <1>1, <2>2, ElementOfSeq
  <2> QED BY <2>1, <2>3 DEF Last
<1> QED BY <1>1, <1>2, <1>3

\* An upload to a path arrives.
LEMMA UploadToTyped ==
  ASSUME Typed, NEW r \in Requests, NEW p \in Named, NEW q \in Spelled, UploadTo(r, p, q)
  PROVE  Typed'
<1> DEFINE job == [Idle EXCEPT !.op = "upload", !.at = "taken", !.dest = p, !.name = Last(q),
                        !.target = q]
<1> DEFINE why == Gone(p) \cup If(q # Append(PathOf(p), Last(q)), "misfiled")
<1>p. p \in Ids \cup {Root}
  BY DEF Named, Typed, Table
<1>1. q # <<>>
  BY DEF UploadTo
<1>2. q \in Seq(Names) /\ q \in Paths /\ Last(q) \in Names
  BY <1>1, SpelledIs
<1>3. JobOK(job, issued)
  BY <1>p, <1>2, Blank DEF JobOK, Jobs, Way, Has, Idle, Ops, Stages
<1>5. Begin(r, {q}, why, job)
  BY DEF UploadTo
<1>6. why \in SUBSET Spoilers
  BY DEF Gone, If, Spoilers
<1> HIDE DEF job, why
<1>7. {q} \in SUBSET Paths
  BY <1>2
<1> QED BY <1>3, <1>5, <1>6, <1>7, BeginTyped

\* The upload of a folder arrives.
LEMMA UploadDirTyped ==
  ASSUME Typed, NEW r \in Requests, NEW base \in Spelled, NEW n \in Names, UploadDir(r, base, n)
  PROVE  Typed'
<1> DEFINE q == Append(base, n)
<1> DEFINE job == [Idle EXCEPT !.op = "dir", !.at = "parent", !.target = q, !.walk = LocalDir]
<1> DEFINE why == If(base # <<>> /\ ~\E i \in RowsAt(files, base) : files[i].dir, "misfiled")
<1>1. q \in Paths /\ q \in Seq(Names)
  BY SpelledIs
<1>2. Begin(r, {q}, why, job)
  BY DEF UploadDir
<1>3. why \in SUBSET Spoilers
  BY DEF If, Spoilers
<1> HIDE DEF q, why
<1>4. JobOK(job, issued)
  BY <1>1, Blank, LocalDirIsTidy DEF JobOK, Jobs, Way, Has, Idle, Ops, Stages
<1> HIDE DEF job
<1>5. {q} \in SUBSET Paths
  BY <1>1
<1> QED BY <1>2, <1>3, <1>4, <1>5, BeginTyped

\* A delete arrives.
LEMMA DeleteTyped ==
  ASSUME Typed, NEW r \in Requests, NEW i \in issued, Delete(r, i)
  PROVE  Typed'
<1> DEFINE job == [Idle EXCEPT !.op = "delete", !.at = IF files[i].dir THEN "below" ELSE "erase",
                        !.id = i, !.row = files[i]]
<1>1. i \in DOMAIN files
  BY DEF Delete
<1>2. files[i] \in Rows /\ i \in issued /\ i \in Ids /\ files[i].path \in Paths
  BY <1>1, RowOf DEF Typed
<1>3. JobOK(job, issued)
  <2>1. job.op = "delete" /\ job.at \in {"below", "erase"} /\ job.row = files[i] /\ job.id = i
    BY DEF Idle
  <2>2. job \in Jobs
    BY <1>2, Blank DEF Jobs, Idle, Ops, Stages
  <2> HIDE DEF job
  <2> QED BY <1>2, <2>1, <2>2 DEF JobOK, Way, Has
<1>5. Begin(r, {files[i].path}, {}, job)
  BY DEF Delete
<1> HIDE DEF job
<1>6. {files[i].path} \in SUBSET Paths
  BY <1>2
<1> QED BY <1>3, <1>5, <1>6, BeginTyped

\* The parts of Typed, for request r.
LEMMA TypedParts ==
  ASSUME Typed, NEW r \in Requests
  PROVE  /\ Table(files, issued) /\ DOMAIN files \subseteq Ids /\ issued \subseteq Ids
         /\ JobOK(h[r], issued) /\ h[r] \in Jobs /\ Way(h[r]) /\ Has(h[r], issued)
         /\ about \in [Requests -> SUBSET Paths]
         /\ uploads \subseteq [id : Ids, row : Rows] /\ \A u \in uploads : u.id \in issued
         /\ made \in 0 .. MaxRequests /\ spoiled \subseteq Spoilers
BY DEF Typed, JobOK, Table

\* A step that touches neither the uploads nor the counters.
LEMMA QuietTyped ==
  ASSUME Typed, NEW r \in Requests, NEW j, h' = [h EXCEPT ![r] = j],
         issued \subseteq issued', JobOK(j, issued'), Table(files', issued'),
         UNCHANGED <<uploads, made, about>>, spoiled' \subseteq Spoilers
  PROVE  Typed'
<1>1. /\ about' \in [Requests -> SUBSET Paths]
      /\ uploads' \subseteq [id : Ids, row : Rows] /\ \A u \in uploads' : u.id \in issued'
      /\ made' \in 0 .. MaxRequests
  BY DEF Typed
<1> QED BY <1>1, TypedAgain

\* The same for an answer.
LEMMA QuietAnswer ==
  ASSUME Typed, NEW r \in Requests, Answer(r),
         issued \subseteq issued', Table(files', issued'),
         UNCHANGED <<uploads, made>>, spoiled' \subseteq Spoilers
  PROVE  Typed'
<1>1. /\ uploads' \subseteq [id : Ids, row : Rows] /\ \A u \in uploads' : u.id \in issued'
      /\ made' \in 0 .. MaxRequests
  BY DEF Typed
<1> QED BY <1>1, AnswerTyped

\* ReadParent keeps the types.
LEMMA ReadParentTyped ==
  ASSUME Typed, NEW r \in Requests, ReadParent(r)
  PROVE  Typed'
<1> DEFINE up == RowsAt(files, Front(h[r].target))
<1> DEFINE d == IF up = {} THEN Root ELSE CHOOSE i \in up : TRUE
<1> DEFINE t == Append(PathOf(h[r].dest), h[r].name)
<1> DEFINE j == IF h[r].op = "dir" THEN [h[r] EXCEPT !.at = "insert", !.dest = d]
                ELSE [h[r] EXCEPT !.at = "taken", !.target = t]
<1>1. h[r].at = "parent" /\ h' = [h EXCEPT ![r] = j]
  BY DEF ReadParent
<1>2. d \in Ids \cup {Root}
  <2>1. up \subseteq Ids
    BY TypedParts DEF RowsAt
  <2> QED BY <2>1
<1>3. h[r].op # "dir" => t \in Paths
  BY <1>1, TypedParts, PathOfIs DEF Has
<1>4. Paths \subseteq Seq(Names)
  BY DEF Paths
<1> HIDE DEF d, t
<1>5. JobOK(j, issued)
  <2>1. /\ j \in Jobs
        /\ j.op = "dir" => j.at = "insert" /\ j.target = h[r].target
        /\ j.op # "dir" => j.at = "taken" /\ j.target = t
        /\ j.op = h[r].op /\ j.row = h[r].row /\ j.id = h[r].id
        /\ j.walk = h[r].walk
    <3>1. CASE h[r].op = "dir"
      BY <1>2, <3>1, TypedParts DEF Jobs, Stages
    <3>2. CASE h[r].op # "dir"
      BY <1>1, <1>3, <1>4, <3>2, TypedParts DEF Jobs, Stages
    <3> QED BY <3>1, <3>2
  <2> HIDE DEF j
  <2>2. Way(j)
    BY <1>1, <2>1, TypedParts DEF Way
  <2>3. Has(j, issued)
    BY <1>1, <1>3, <2>1, TypedParts DEF Way, Has
  <2> QED BY <2>1, <2>2, <2>3 DEF JobOK
<1> HIDE DEF j
<1>6. issued \subseteq issued' /\ JobOK(j, issued') /\ Table(files', issued')
      /\ (UNCHANGED <<uploads, made, about>>) /\ spoiled' \subseteq Spoilers
  BY <1>5, TypedParts DEF ReadParent
<1> QED BY <1>1, <1>6, QuietTyped

\* ReadDest keeps the types.
LEMMA ReadDestTyped ==
  ASSUME Typed, NEW r \in Requests, ReadDest(r)
  PROVE  Typed'
<1> DEFINE t == Append(PathOf(h[r].dest), h[r].name)
<1> DEFINE j == [h[r] EXCEPT !.at = "taken", !.target = t]
<1>1. h[r].at = "dest"
  BY DEF ReadDest
<1>3. t \in Paths /\ t \in Seq(Names)
  <2>1. h[r].name \in Names
    BY <1>1, TypedParts DEF Has, Way
  <2> QED BY <2>1, TypedParts, PathOfIs DEF Paths
<1> HIDE DEF t
<1>5. JobOK(j, issued)
  <2>1. /\ j \in Jobs /\ j.at = "taken" /\ j.target = t
        /\ j.op = h[r].op /\ j.row = h[r].row /\ j.id = h[r].id
    BY <1>1, <1>3, TypedParts DEF Jobs, Stages
  <2> HIDE DEF j
  <2> QED BY <1>1, <1>3, <2>1, TypedParts DEF JobOK, Way, Has
<1>6. issued \subseteq issued' /\ JobOK(j, issued') /\ Table(files', issued')
      /\ (UNCHANGED <<uploads, made>>) /\ spoiled' \subseteq Spoilers
  BY <1>5, TypedParts DEF ReadDest
<1>7. CASE h' = [h EXCEPT ![r].at = "taken", ![r].target = t] /\ UNCHANGED about
  <2>1. h' = [h EXCEPT ![r] = j]
    BY <1>7
  <2> HIDE DEF j
  <2> QED BY <1>6, <1>7, <2>1, QuietTyped
<1>8. CASE Answer(r)
  BY <1>6, <1>8, QuietAnswer
<1> QED BY <1>7, <1>8 DEF ReadDest, t

\* LookUp keeps the types.
LEMMA LookUpTyped ==
  ASSUME Typed, NEW r \in Requests, LookUp(r)
  PROVE  Typed'
<1> DEFINE st == CASE h[r].op = "folder"  -> "insert"
                   [] h[r].op # "folder" /\ h[r].row.dir -> "below"
                   [] OTHER -> "self"
<1> DEFINE j == [h[r] EXCEPT !.at = st]
<1>1. h[r].at = "taken" /\ h[r].op # "upload"
  BY DEF LookUp
<1>2. /\ st \in {"insert", "below", "self"}
      /\ st = "insert" <=> h[r].op = "folder"
  BY DEF LookUp
<1> HIDE DEF st
<1>5. JobOK(j, issued)
  <2>1. /\ j \in Jobs /\ j.at = st /\ j.target = h[r].target
        /\ j.op = h[r].op /\ j.row = h[r].row /\ j.id = h[r].id /\ j.walk = h[r].walk
    BY <1>1, <1>2, TypedParts DEF Jobs, Stages
  <2> HIDE DEF j
  <2>2. Way(j)
    BY <1>1, <1>2, <2>1, TypedParts DEF Way
  <2>3. Has(j, issued)
    BY <1>1, <1>2, <2>1, TypedParts DEF Way, Has
  <2> QED BY <2>1, <2>2, <2>3 DEF JobOK
<1>6. issued \subseteq issued' /\ JobOK(j, issued') /\ Table(files', issued')
      /\ (UNCHANGED <<uploads, made>>) /\ spoiled' \subseteq Spoilers
  BY <1>5, TypedParts DEF LookUp
<1>7. CASE Goto(r, st) /\ UNCHANGED about
  <2>1. h' = [h EXCEPT ![r] = j]
    BY <1>7 DEF Goto
  <2> HIDE DEF j
  <2> QED BY <1>6, <1>7, <2>1, QuietTyped
<1>8. CASE Answer(r)
  BY <1>6, <1>8, QuietAnswer
<1> QED BY <1>7, <1>8 DEF LookUp, st

\* ListBelow keeps the types.
LEMMA ListBelowTyped ==
  ASSUME Typed, NEW r \in Requests, ListBelow(r)
  PROVE  Typed'
<1> DEFINE old == h[r].row.path
<1> DEFINE todo == {<<i, Swap(old, h[r].target, files[i].path)>> : i \in Under(old)}
<1> DEFINE st == IF h[r].op = "delete" THEN "erase" ELSE "rebase"
<1> DEFINE j == [h[r] EXCEPT !.at = st, !.todo = todo]
<1>1. h[r].at = "below" /\ h' = [h EXCEPT ![r] = j]
  BY DEF ListBelow, Swap
<1>2. h[r].row \in Rows /\ old \in Seq(Names) /\ h[r].target \in Seq(Names)
  BY <1>1, TypedParts, RowFields DEF Has, Way, Jobs, Paths
<1>3. todo \in SUBSET (Ids \X Paths)
  <2> SUFFICES ASSUME NEW i \in Under(old)
               PROVE  <<i, Swap(old, h[r].target, files[i].path)>> \in Ids \X Paths
    OBVIOUS
  <2>1. i \in DOMAIN files /\ IsPrefix(old, files[i].path) /\ old # files[i].path
    BY DEF Under, IsStrictPrefix
  <2>2. i \in Ids /\ files[i].path \in Paths
    BY <2>1, RowOf, TypedParts
  <2> QED BY <1>2, <2>1, <2>2, SwapFront
<1> HIDE DEF todo, old
<1>5. JobOK(j, issued)
  <2>1. /\ j \in Jobs
        /\ j.at = IF h[r].op = "delete" THEN "erase" ELSE "rebase"
        /\ j.op = h[r].op /\ j.row = h[r].row /\ j.id = h[r].id /\ j.target = h[r].target
    BY <1>1, <1>2, <1>3, TypedParts DEF JobOK, Jobs, Stages
  <2> HIDE DEF j
  <2> QED BY <1>1, <2>1, TypedParts DEF JobOK, Way, Has
<1> HIDE DEF j
<1>6. issued \subseteq issued' /\ JobOK(j, issued') /\ Table(files', issued')
      /\ (UNCHANGED <<uploads, made, about>>) /\ spoiled' \subseteq Spoilers
  BY <1>5, TypedParts DEF ListBelow
<1> QED BY <1>1, <1>6, QuietTyped

\* Spoil with one reason, if there is one.
LEMMA SpoilIf ==
  ASSUME NEW c, NEW s \in Spoilers, Typed, Spoil(If(c, s)) PROVE spoiled' \subseteq Spoilers
<1>1. If(c, s) \subseteq Spoilers
  BY DEF If
<1> QED BY <1>1, Spoiling

\* Rebase keeps the types.
LEMMA RebaseTyped ==
  ASSUME Typed, NEW r \in Requests, Rebase(r)
  PROVE  Typed'
<1>1. h[r].at = "rebase" /\ UNCHANGED <<issued, uploads, made, about>>
  BY DEF Rebase
<1>2. ASSUME NEW t \in h[r].todo, files' = Renamed(t[1], t[2]),
             Spoil(If(Blocked(t[1], t[2]), "blocked")),
             h' = [h EXCEPT ![r].todo = @ \ {t}]
      PROVE  Typed'
  <2> DEFINE j == [h[r] EXCEPT !.todo = @ \ {t}]
  <2>1. t[2] \in Paths
    BY TypedParts DEF Jobs
  <2>2. Table(files', issued')
    BY <1>1, <1>2, <2>1, TypedParts, TableRenamed
  <2>3. JobOK(j, issued')
    <3>1. /\ j \in Jobs /\ j.at = h[r].at /\ j.target = h[r].target
          /\ j.op = h[r].op /\ j.row = h[r].row /\ j.id = h[r].id
      BY TypedParts DEF Jobs
    <3> HIDE DEF j
    <3> QED BY <1>1, <3>1, TypedParts DEF JobOK, Way, Has
  <2>4. spoiled' \subseteq Spoilers
    <3>1. "blocked" \in Spoilers
      BY DEF Spoilers
    <3> QED BY <1>2, <3>1, SpoilIf
  <2>5. h' = [h EXCEPT ![r] = j]
    BY <1>2
  <2> HIDE DEF j
  <2> QED BY <1>1, <2>2, <2>3, <2>4, <2>5, QuietTyped
<1>3. CASE Goto(r, "self") /\ UNCHANGED <<files, spoiled>>
  <2> DEFINE j == [h[r] EXCEPT !.at = "self"]
  <2>3. JobOK(j, issued')
    <3>1. /\ j \in Jobs /\ j.at = "self" /\ j.target = h[r].target
          /\ j.op = h[r].op /\ j.row = h[r].row /\ j.id = h[r].id
      BY TypedParts DEF Jobs, Stages
    <3> HIDE DEF j
    <3> QED BY <1>1, <3>1, TypedParts DEF JobOK, Way, Has
  <2>5. h' = [h EXCEPT ![r] = j]
    BY <1>3 DEF Goto
  <2>6. Table(files', issued') /\ spoiled' \subseteq Spoilers
    BY <1>1, <1>3, TypedParts
  <2> HIDE DEF j
  <2> QED BY <1>1, <2>3, <2>5, <2>6, QuietTyped
<1> QED BY <1>2, <1>3 DEF Rebase

\* RenameFile keeps the types.
LEMMA RenameFileTyped ==
  ASSUME Typed, NEW r \in Requests, RenameFile(r)
  PROVE  Typed'
<1>1. /\ h[r].at = "self" /\ UNCHANGED <<issued, uploads, made>>
      /\ files' = Renamed(h[r].id, h[r].target)
      /\ Spoil(If(Blocked(h[r].id, h[r].target), "blocked"))
  BY DEF RenameFile
<1>2. h[r].target \in Paths
  <2>1. h[r].at = "self" /\ Has(h[r], issued)
    BY <1>1, TypedParts
  <2> QED BY <2>1 DEF Has
<1>3. Table(files', issued')
  BY <1>1, <1>2, TypedParts, TableRenamed
<1>4. spoiled' \subseteq Spoilers
  <2>1. "blocked" \in Spoilers
    BY DEF Spoilers
  <2> QED BY <1>1, <2>1, SpoilIf
<1>5. CASE h[r].op = "move" /\ Goto(r, "relink") /\ UNCHANGED about
  <2> DEFINE j == [h[r] EXCEPT !.at = "relink"]
  <2>3. JobOK(j, issued')
    <3>1. /\ j \in Jobs /\ j.at = "relink" /\ j.target = h[r].target
          /\ j.op = h[r].op /\ j.row = h[r].row /\ j.id = h[r].id
      BY TypedParts DEF Jobs, Stages
    <3> HIDE DEF j
    <3> QED BY <1>1, <1>5, <3>1, TypedParts DEF JobOK, Way, Has
  <2>5. h' = [h EXCEPT ![r] = j]
    BY <1>5 DEF Goto
  <2> HIDE DEF j
  <2> QED BY <1>1, <1>3, <1>4, <1>5, <2>3, <2>5, QuietTyped
<1>6. CASE Answer(r)
  BY <1>1, <1>3, <1>4, <1>6, QuietAnswer
<1> QED BY <1>5, <1>6 DEF RenameFile

\* UpdateFileParent keeps the types.
LEMMA UpdateFileParentTyped ==
  ASSUME Typed, NEW r \in Requests, UpdateFileParent(r)
  PROVE  Typed'
<1>1. /\ UNCHANGED <<issued, uploads, made, spoiled>>
      /\ files' = Reparented(h[r].id, h[r].dest) /\ Answer(r)
  BY DEF UpdateFileParent
<1>2. h[r].dest \in Ids \cup {Root}
  BY TypedParts DEF Jobs
<1>3. Table(files', issued') /\ spoiled' \subseteq Spoilers
  BY <1>1, <1>2, TypedParts, TableReparented
<1> QED BY <1>1, <1>3, QuietAnswer

\* Insert keeps the types.
LEMMA InsertTyped ==
  ASSUME Typed, NEW r \in Requests, Insert(r)
  PROVE  Typed'
<1>1. /\ h[r].at = "insert" /\ Ids \ issued # {} /\ UNCHANGED <<uploads, made>>
      /\ files' = Upserted(files, NewId, Folder(h[r].dest, h[r].target))
      /\ issued' = issued \cup {NewId}
      /\ Spoil(If(RowsAt(files, h[r].target) # {}, "remade"))
  BY DEF Insert
<1>2. NewId \in Ids /\ NewId \notin issued /\ issued' \subseteq Ids
  <2>1. NewId \in Ids /\ NewId \notin issued
    BY <1>1, FreshId
  <2>2. issued' = issued \cup {NewId} /\ issued \subseteq Ids
    BY <1>1, TypedParts
  <2> QED BY <2>1, <2>2
<1>3. h[r].target \in Paths /\ h[r].dest \in Ids \cup {Root}
  <2>1. h[r].at = "insert" /\ Has(h[r], issued) /\ h[r] \in Jobs
    BY <1>1, TypedParts
  <2> QED BY <2>1 DEF Has, Jobs
<1>4. Folder(h[r].dest, h[r].target) \in Rows
  BY <1>3, FolderIsRow
<1>5. Table(files', issued')
  <2> DEFINE row == Folder(h[r].dest, h[r].target)
  <2>1. /\ row \in Rows /\ files' = Upserted(files, NewId, row)
        /\ issued' = issued \cup {NewId}
    BY <1>1, <1>4
  <2> HIDE DEF row
  <2>2. Table(Upserted(files, NewId, row), issued')
    <3>1. Table(files, issued) /\ issued \subseteq issued' /\ NewId \in issued'
      BY <2>1, TypedParts
    <3> QED BY <1>2, <2>1, <3>1, TableUpserted
  <2> QED BY <2>1, <2>2
<1>6. spoiled' \subseteq Spoilers
  <2>1. "remade" \in Spoilers
    BY DEF Spoilers
  <2> QED BY <1>1, <2>1, SpoilIf
<1>7. CASE /\ h[r].op = "dir" /\ UNCHANGED about
           /\ h' = [h EXCEPT ![r].at = "walk", ![r].dirs = [x \in {<<>>} |-> NewId]]
  <2> DEFINE d == [x \in {<<>>} |-> NewId]
  <2>1. d \in Dirs /\ DOMAIN d = {<<>>}
    BY <1>2, DirsBuilt
  <2> HIDE DEF d
  <2> DEFINE j == [h[r] EXCEPT !.at = "walk", !.dirs = d]
  <2>3. JobOK(j, issued')
    <3>1. /\ j \in Jobs /\ j.at = "walk" /\ j.target = h[r].target /\ j.dirs = d
          /\ j.op = h[r].op /\ j.row = h[r].row /\ j.id = h[r].id /\ j.walk = h[r].walk
      BY <2>1, TypedParts DEF Jobs, Stages
    <3> HIDE DEF j
    <3> QED BY <1>1, <1>7, <2>1, <3>1, TypedParts DEF JobOK, Way, Has
  <2>5. h' = [h EXCEPT ![r] = j]
    BY <1>7 DEF d
  <2> HIDE DEF j
  <2>6. issued \subseteq issued'
    BY <1>1
  <2> QED BY <1>1, <1>5, <1>6, <1>7, <2>3, <2>5, <2>6, QuietTyped
<1>8. CASE Answer(r)
  <2>6. issued \subseteq issued'
    BY <1>1
  <2> QED BY <1>1, <1>5, <1>6, <1>8, <2>6, QuietAnswer
<1> QED BY <1>7, <1>8 DEF Insert

\* The next entry of a walk has its place in a folder made before.
LEMMA NextEntry ==
  ASSUME NEW j, NEW is, JobOK(j, is), j.at \in {"walk", "lookup"}, j.walk # <<>>
  PROVE  /\ Head(j.walk) \in Entries /\ Head(j.walk).rel \in Paths
         /\ Tail(j.walk) \in Seq(Entries)
         /\ Base(Head(j.walk).rel) \in DOMAIN j.dirs
         /\ j.dirs[Base(Head(j.walk).rel)] \in Ids
         /\ j.target \in Paths /\ j.target \o Head(j.walk).rel \in Paths
         /\ Head(j.walk).dir => Tidy(Tail(j.walk), DOMAIN j.dirs \cup {Head(j.walk).rel})
         /\ ~Head(j.walk).dir => Tidy(Tail(j.walk), DOMAIN j.dirs)
<1>1. j.walk \in Seq(Entries) /\ j.dirs \in Dirs /\ j.op = "dir" /\ j.target \in Paths
  BY DEF JobOK, Jobs, Way, Has
<1>2. Tidy(j.walk, DOMAIN j.dirs)
  BY <1>1 DEF JobOK, Has
<1>3. /\ Head(j.walk) \in Entries /\ Tail(j.walk) \in Seq(Entries)
      /\ Base(Head(j.walk).rel) \in DOMAIN j.dirs
      /\ Head(j.walk).dir => Tidy(Tail(j.walk), DOMAIN j.dirs \cup {Head(j.walk).rel})
      /\ ~Head(j.walk).dir => Tidy(Tail(j.walk), DOMAIN j.dirs)
  BY <1>1, <1>2, TidyStep
<1>4. Head(j.walk).rel \in Paths
  BY <1>3 DEF Entries
<1>5. j.dirs[Base(Head(j.walk).rel)] \in Ids
  BY <1>1, <1>3, DirsBuilt
<1>6. j.target \o Head(j.walk).rel \in Paths
  BY <1>1, <1>4, Below
<1> QED BY <1>1, <1>3, <1>4, <1>5, <1>6

\* Walk keeps the types.
LEMMA WalkTyped ==
  ASSUME Typed, NEW r \in Requests, Walk(r)
  PROVE  Typed'
<1> DEFINE e == Head(h[r].walk)
<1> DEFINE path == h[r].target \o e.rel
<1> DEFINE up == h[r].dirs[Base(e.rel)]
<1>1. h[r].at = "walk" /\ h[r].op = "dir" /\ UNCHANGED <<uploads, made>>
  BY TypedParts DEF Walk, Way
<1>2. h[r].walk # <<>> => /\ e \in Entries /\ e.rel \in Paths /\ e.rel \in Seq(Names)
                          /\ up \in Ids /\ path \in Paths
  BY <1>1, NextEntry, TypedParts DEF Paths
<1>3. CASE h[r].walk = <<>> /\ Answer(r) /\ UNCHANGED <<files, issued, spoiled>>
  <2>1. Table(files', issued') /\ issued \subseteq issued' /\ spoiled' \subseteq Spoilers
    BY <1>3, TypedParts
  <2> QED BY <1>1, <1>3, <2>1, QuietAnswer
<1>4. ASSUME h[r].walk # <<>>, e.dir, Ids \ issued # {},
             files' = Upserted(files, NewId, Folder(up, path)),
             issued' = issued \cup {NewId},
             h' = [h EXCEPT ![r].dirs = With(@, e.rel, NewId), ![r].walk = Tail(@)],
             Spoil(If(RowsAt(files, path) # {}, "remade")),
             UNCHANGED about
      PROVE  Typed'
  <2>1. NewId \in Ids /\ NewId \notin issued /\ issued' \subseteq Ids /\ issued \subseteq issued'
    BY <1>4, FreshId, TypedParts
  <2>2. Folder(up, path) \in Rows
    BY <1>2, <1>4, FolderIsRow
  <2>3. Table(files', issued')
    <3> HIDE DEF up, path
    <3> QED BY <1>4, <2>1, <2>2, TypedParts, TableUpserted
  <2>4. spoiled' \subseteq Spoilers
    <3> HIDE DEF path
    <3>1. "remade" \in Spoilers
      BY DEF Spoilers
    <3> QED BY <1>4, <3>1, SpoilIf
  <2> DEFINE d == With(h[r].dirs, e.rel, NewId)
  <2> DEFINE j == [h[r] EXCEPT !.dirs = d, !.walk = Tail(@)]
  <2>5. /\ d \in Dirs /\ DOMAIN d = DOMAIN h[r].dirs \cup {e.rel}
        /\ Tail(h[r].walk) \in Seq(Entries) /\ Tidy(Tail(h[r].walk), DOMAIN d)
    <3>1. h[r].dirs \in Dirs
      BY TypedParts DEF Jobs
    <3>2. d \in Dirs /\ DOMAIN d = DOMAIN h[r].dirs \cup {e.rel}
      BY <1>2, <1>4, <2>1, <3>1, DirsBuilt
    <3> QED BY <1>1, <1>4, <3>2, NextEntry, TypedParts
  <2> HIDE DEF d
  <2>6. JobOK(j, issued')
    <3>1. /\ j \in Jobs /\ j.at = "walk" /\ j.target = h[r].target /\ j.dirs = d
          /\ j.op = h[r].op /\ j.row = h[r].row /\ j.id = h[r].id /\ j.walk = Tail(h[r].walk)
      BY <1>1, <2>5, TypedParts DEF Jobs, Stages
    <3> HIDE DEF j
    <3> QED BY <1>1, <2>5, <3>1, TypedParts DEF JobOK, Way, Has
  <2>7. h' = [h EXCEPT ![r] = j]
    BY <1>4 DEF d
  <2> HIDE DEF j
  <2> QED BY <1>1, <1>4, <2>1, <2>3, <2>4, <2>6, <2>7, QuietTyped
<1>5. CASE /\ h[r].walk # <<>> /\ ~e.dir /\ Goto(r, "lookup")
           /\ UNCHANGED <<files, issued, about, spoiled>>
  <2> DEFINE j == [h[r] EXCEPT !.at = "lookup"]
  <2>1. JobOK(j, issued')
    <3>1. /\ j \in Jobs /\ j.at = "lookup" /\ j.target = h[r].target /\ j.dirs = h[r].dirs
          /\ j.op = h[r].op /\ j.row = h[r].row /\ j.id = h[r].id /\ j.walk = h[r].walk
      BY <1>1, TypedParts DEF Jobs, Stages
    <3> HIDE DEF j
    <3> QED BY <1>1, <1>5, <3>1, TypedParts DEF JobOK, Way, Has
  <2>2. Table(files', issued') /\ issued \subseteq issued' /\ spoiled' \subseteq Spoilers
    BY <1>5, TypedParts
  <2>3. h' = [h EXCEPT ![r] = j]
    BY <1>5 DEF Goto
  <2> HIDE DEF j
  <2> QED BY <1>1, <1>5, <2>1, <2>2, <2>3, QuietTyped
<1> QED BY <1>3, <1>4, <1>5 DEF Walk

\* Where an upload goes is a place and a path.
LEMMA GoalIs ==
  ASSUME Typed, NEW r \in Requests,
         (h[r].at = "taken" /\ h[r].op = "upload") \/ h[r].at = "lookup"
  PROVE  Goal(r)[1] \in Ids \cup {Root} /\ Goal(r)[2] \in Paths
<1>1. CASE h[r].at = "taken" /\ h[r].op = "upload"
  <2>1. Goal(r)[1] = h[r].dest /\ Goal(r)[2] = h[r].target
    BY <1>1 DEF Goal
  <2>2. h[r] \in Jobs /\ Has(h[r], issued)
    BY TypedParts
  <2> QED BY <1>1, <2>1, <2>2 DEF Jobs, Has
<1>2. CASE h[r].at = "lookup"
  <2>1. h[r].op = "dir" /\ h[r].walk # <<>>
    BY <1>2, TypedParts DEF Way, Has
  <2>2. /\ Goal(r)[1] = h[r].dirs[Base(Head(h[r].walk).rel)]
        /\ Goal(r)[2] = h[r].target \o Head(h[r].walk).rel
    BY <2>1 DEF Goal
  <2>3. h[r].dirs[Base(Head(h[r].walk).rel)] \in Ids /\ h[r].target \o Head(h[r].walk).rel \in Paths
    BY <1>2, <2>1, NextEntry, TypedParts
  <2> QED BY <2>2, <2>3
<1> QED BY <1>1, <1>2

\* FindFile keeps the types.
LEMMA FindFileTyped ==
  ASSUME Typed, NEW r \in Requests, FindFile(r)
  PROVE  Typed'
<1> DEFINE there == RowsAt(files, Goal(r)[2])
<1> DEFINE old(i) == [files[i] EXCEPT !.parent = Goal(r)[1]]
<1> DEFINE fresh == [Folder(Goal(r)[1], Goal(r)[2]) EXCEPT !.dir = FALSE]
<1>1. /\ (h[r].at = "taken" /\ h[r].op = "upload") \/ h[r].at = "lookup"
      /\ UNCHANGED <<files, uploads, made, about, spoiled>>
  BY DEF FindFile
<1>2. Goal(r)[1] \in Ids \cup {Root} /\ Goal(r)[2] \in Paths
  BY <1>1, GoalIs
<1>3. fresh \in Rows /\ \A i \in there : old(i) \in Rows /\ i \in issued /\ i \in Ids
  <2>1. \A i \in there : i \in DOMAIN files
    BY DEF RowsAt
  <2>2. \A i \in DOMAIN files : files[i] \in Rows /\ i \in issued /\ i \in Ids
    BY RowOf, TypedParts
  <2>3. \A i \in there : old(i) \in Rows
    BY <1>2, <2>1, <2>2, RowFields
  <2> QED BY <1>2, <2>1, <2>2, <2>3, FolderIsRow
<1> HIDE DEF old, fresh
<1>4. ASSUME NEW i \in Ids, NEW row \in Rows, i \in issued', issued \subseteq issued',
             issued' \subseteq Ids,
             h' = [h EXCEPT ![r].at = "store", ![r].id = i, ![r].row = row]
      PROVE  Typed'
  <2> DEFINE j == [h[r] EXCEPT !.at = "store", !.id = i, !.row = row]
  <2>1. JobOK(j, issued')
    <3>1. /\ j \in Jobs /\ j.at = "store" /\ j.dirs = h[r].dirs
          /\ j.op = h[r].op /\ j.row = row /\ j.id = i /\ j.walk = h[r].walk
          /\ j.target = h[r].target
      BY TypedParts DEF Jobs, Stages
    <3>2. JobOK(h[r], issued)
      BY TypedParts
    <3> HIDE DEF j
    <3> QED BY <1>1, <1>4, <3>1, <3>2 DEF JobOK, Way, Has
  <2>2. Table(files', issued') /\ spoiled' \subseteq Spoilers
    BY <1>1, <1>4, TypedParts, TableLater
  <2>3. h' = [h EXCEPT ![r] = j]
    BY <1>4
  <2> HIDE DEF j
  <2> QED BY <1>1, <1>4, <2>1, <2>2, <2>3, QuietTyped
<1>5. CASE \E i \in there : /\ h' = [h EXCEPT ![r].at = "store", ![r].id = i, ![r].row = old(i)]
                            /\ UNCHANGED issued
  <2>1. issued' = issued /\ issued \subseteq Ids
    BY <1>5, TypedParts
  <2> QED BY <1>3, <1>4, <1>5, <2>1
<1>6. CASE /\ Ids \ issued # {} /\ issued' = issued \cup {NewId}
           /\ h' = [h EXCEPT ![r].at = "store", ![r].id = NewId, ![r].row = fresh]
  <2>1. NewId \in Ids /\ issued \subseteq issued' /\ issued' \subseteq Ids /\ NewId \in issued'
    BY <1>6, FreshId, TypedParts
  <2> QED BY <1>3, <1>4, <1>6, <2>1
<1> QED BY <1>5, <1>6 DEF FindFile, old, fresh

\* StoreFile keeps the types.
LEMMA StoreFileTyped ==
  ASSUME Typed, NEW r \in Requests, StoreFile(r)
  PROVE  Typed'
<1>1. /\ h[r].at = "store" /\ UNCHANGED <<issued, made, spoiled>>
      /\ files' = Upserted(files, h[r].id, h[r].row)
      /\ uploads' = uploads \cup {[id |-> h[r].id, row |-> h[r].row]}
  BY DEF StoreFile
<1>2. JobOK(h[r], issued) /\ h[r].row \in Rows /\ h[r].id \in issued /\ h[r].id \in Ids
  <2>1. JobOK(h[r], issued) /\ issued \subseteq Ids
    BY TypedParts
  <2> QED BY <1>1, <2>1 DEF JobOK, Has
<1>3. Table(files', issued')
  <2>1. Table(files, issued) /\ issued \subseteq Ids
    BY TypedParts
  <2>2. Table(Upserted(files, h[r].id, h[r].row), issued)
    BY <1>2, <2>1, TableUpserted
  <2> QED BY <1>1, <2>2
<1>4. uploads' \subseteq [id : Ids, row : Rows] /\ \A u \in uploads' : u.id \in issued'
  BY <1>1, <1>2, TypedParts
<1>5. issued \subseteq issued' /\ made' \in 0 .. MaxRequests /\ spoiled' \subseteq Spoilers
  BY <1>1, TypedParts
<1>6. CASE Answer(r)
  BY <1>3, <1>4, <1>5, <1>6, AnswerTyped
<1>7. CASE /\ h[r].op # "upload" /\ UNCHANGED about
           /\ h' = [h EXCEPT ![r].at = "walk", ![r].walk = Tail(@)]
  <2> DEFINE j == [h[r] EXCEPT !.at = "walk", !.walk = Tail(@)]
  <2>1. JobOK(j, issued')
    <3>1. h[r].op = "dir" /\ h[r].walk # <<>> /\ ~Head(h[r].walk).dir /\ h[r].walk \in Seq(Entries)
          /\ Tidy(h[r].walk, DOMAIN h[r].dirs) /\ h[r].target \in Seq(Names)
      BY <1>1, <1>2, <1>7 DEF JobOK, Jobs, Way, Has
    <3>2. Tail(h[r].walk) \in Seq(Entries) /\ Tidy(Tail(h[r].walk), DOMAIN h[r].dirs)
      BY <3>1, TidyStep
    <3>3. /\ j \in Jobs /\ j.at = "walk" /\ j.dirs = h[r].dirs
          /\ j.op = h[r].op /\ j.target = h[r].target /\ j.walk = Tail(h[r].walk)
      BY <3>2, TypedParts DEF Jobs, Stages
    <3>4. h[r].target \in Paths
      BY <1>1, <1>2, <3>1 DEF JobOK, Has
    <3> HIDE DEF j
    <3> QED BY <3>1, <3>2, <3>3, <3>4 DEF JobOK, Way, Has
  <2>2. h' = [h EXCEPT ![r] = j] /\ about' \in [Requests -> SUBSET Paths]
    BY <1>7, TypedParts
  <2> HIDE DEF j
  <2> QED BY <1>3, <1>4, <1>5, <2>1, <2>2, TypedAgain
<1> QED BY <1>6, <1>7 DEF StoreFile

\* DeleteFile keeps the types.
LEMMA DeleteFileTyped ==
  ASSUME Typed, NEW r \in Requests, DeleteFile(r)
  PROVE  Typed'
<1>1. h[r].at = "erase" /\ UNCHANGED <<issued, uploads, made, spoiled>>
  BY DEF DeleteFile
<1>2. issued \subseteq issued' /\ spoiled' \subseteq Spoilers
  BY <1>1, TypedParts
<1>3. \A i : files' = Without(i) => Table(files', issued')
  BY <1>1, TypedParts, TableWithout
<1>4. ASSUME NEW t \in h[r].todo, files' = Without(t[1]),
             h' = [h EXCEPT ![r].todo = @ \ {t}], UNCHANGED about
      PROVE  Typed'
  <2> DEFINE j == [h[r] EXCEPT !.todo = @ \ {t}]
  <2>1. JobOK(j, issued')
    <3>1. /\ j \in Jobs /\ j.at = "erase" /\ j.op = h[r].op /\ j.row = h[r].row /\ j.id = h[r].id
      BY <1>1, TypedParts DEF Jobs
    <3>2. JobOK(h[r], issued)
      BY TypedParts
    <3> HIDE DEF j
    <3> QED BY <1>1, <3>1, <3>2 DEF JobOK, Way, Has
  <2>2. h' = [h EXCEPT ![r] = j]
    BY <1>4
  <2> HIDE DEF j
  <2> QED BY <1>1, <1>2, <1>3, <1>4, <2>1, <2>2, QuietTyped
<1>5. CASE files' = Without(h[r].id) /\ Answer(r)
  BY <1>1, <1>2, <1>3, <1>5, QuietAnswer
<1> QED BY <1>4, <1>5 DEF DeleteFile

\* Steps of no request.
LEMMA OtherTyped ==
  ASSUME Typed, UNCHANGED <<issued, h, about>>, Table(files', issued'),
         uploads' \subseteq uploads, made' \in 0 .. MaxRequests, spoiled' \subseteq Spoilers
  PROVE  Typed'
BY DEF Typed

\* SetTrashed keeps the types.
LEMMA SetTrashedTyped ==
  ASSUME Typed, NEW i \in issued, NEW on \in BOOLEAN, SetTrashed(i, on)
  PROVE  Typed'
<1>1. Table(files, issued) /\ made \in 0 .. MaxRequests /\ spoiled \subseteq Spoilers
  BY DEF Typed
<1>2. Table(files', issued')
  BY <1>1, TableTrashed DEF SetTrashed
<1>3. made' \in 0 .. MaxRequests
  BY <1>1, TreeAssumption DEF SetTrashed
<1> QED BY <1>1, <1>2, <1>3, OtherTyped DEF SetTrashed

\* Publish keeps the types.
LEMMA PublishTyped ==
  ASSUME Typed, NEW u \in uploads, Publish(u)
  PROVE  Typed'
<1>1. /\ Table(files, issued) /\ made \in 0 .. MaxRequests /\ issued \subseteq Ids
      /\ u.id \in Ids /\ u.id \in issued /\ u.row \in Rows
  BY DEF Typed, Table
<1>2. Table(files', issued')
  <2>1. Table(Upserted(files, u.id, u.row), issued)
    BY <1>1, TableUpserted
  <2> QED BY <2>1 DEF Publish
<1>3. spoiled' \subseteq Spoilers
  <2>1. "outlived" \in Spoilers
    BY DEF Spoilers
  <2> QED BY <2>1, SpoilIf DEF Publish
<1> QED BY <1>1, <1>2, <1>3, OtherTyped DEF Publish

\* Restart keeps the types.
LEMMA RestartTyped ==
  ASSUME Typed, Restart
  PROVE  Typed'
<1>1. Table(files', issued')
  BY TableReset DEF Restart, Typed
<1>2. h' \in [Requests -> Jobs] /\ \A r \in Requests : JobOK(h'[r], issued')
  <2>1. \A r \in Requests : h'[r] = Idle
    BY DEF Restart
  <2>2. Idle \in Jobs
    BY IdleOK DEF JobOK
  <2> QED BY <2>1, <2>2, IdleOK DEF Restart
<1>3. about' \in [Requests -> SUBSET Paths] /\ uploads' = {}
  BY DEF Restart
<1>4. made' \in 0 .. MaxRequests
  <2>1. made \in 0 .. MaxRequests /\ made < MaxRequests /\ made' = made + 1
    BY DEF Restart, Typed
  <2> QED BY <2>1, TreeAssumption
<1>5. spoiled' \subseteq Spoilers
  <2>1. "crash" \in Spoilers
    BY DEF Spoilers
  <2> QED BY <2>1, SpoilIf DEF Restart
<1> QED BY <1>1, <1>2, <1>3, <1>4, <1>5 DEF Typed

\* Typed holds at the start.
LEMMA TypedInit == Init => Typed
<1> SUFFICES ASSUME Init PROVE Typed
  OBVIOUS
<1>1. Table(files, issued)
  <2>1. /\ files \in Seeds /\ issued = DOMAIN files
    BY DEF Init
  <2>2. /\ DOMAIN files \subseteq Ids /\ IsFiniteSet(DOMAIN files)
        /\ files \in [DOMAIN files -> Rows]
        /\ \A i, j \in DOMAIN files : files[i].path = files[j].path => i = j
    BY <2>1, TreeAssumption
  <2> QED BY <2>1, <2>2 DEF Table
<1>2. h \in [Requests -> Jobs] /\ \A r \in Requests : JobOK(h[r], issued)
  <2>1. \A r \in Requests : h[r] = Idle
    BY DEF Init
  <2>2. Idle \in Jobs
    BY IdleOK DEF JobOK
  <2> QED BY <2>1, <2>2, IdleOK DEF Init
<1> QED BY <1>1, <1>2, TreeAssumption DEF Init, Typed

\* Every step keeps Typed.
LEMMA TypedNext == Typed /\ [Next]_vars => Typed'
<1> SUFFICES ASSUME Typed, [Next]_vars PROVE Typed'
  OBVIOUS
<1>1. ASSUME NEW r \in Requests, Arrive(r) PROVE Typed'
  <2>1. ASSUME NEW i \in issued, NEW p \in Named, Relocate(r, i, p) PROVE Typed'
    <3>1. "relocate" \in {"move", "relocate"}
      OBVIOUS
    <3>2. If(i \in DOMAIN files /\ p # files[i].parent, "relocate") \in SUBSET Spoilers
      BY DEF If, Spoilers
    <3> QED BY <2>1, <3>1, <3>2, TransferTyped DEF Relocate
  <2>2. ASSUME NEW i \in issued, NEW p \in Named, Move(r, i, p) PROVE Typed'
    <3>1. "move" \in {"move", "relocate"} /\ {} \in SUBSET Spoilers
      OBVIOUS
    <3> QED BY <2>2, <3>1, TransferTyped DEF Move
  <2> QED BY <1>1, <2>1, <2>2, RenameTyped, CreateTyped, UploadToTyped, UploadDirTyped,
             DeleteTyped DEF Arrive
<1>2. ASSUME NEW r \in Requests, Step(r) PROVE Typed'
  BY <1>2, ReadParentTyped, ReadDestTyped, LookUpTyped, ListBelowTyped, RebaseTyped,
     RenameFileTyped, UpdateFileParentTyped, InsertTyped, WalkTyped, FindFileTyped,
     StoreFileTyped, DeleteFileTyped DEF Step
<1>3. ASSUME NEW u \in uploads, GiveUp(u) PROVE Typed'
  <2>1. Table(files', issued') /\ uploads' \subseteq uploads /\ made' \in 0 .. MaxRequests
        /\ spoiled' \subseteq Spoilers
    BY <1>3 DEF GiveUp, Typed
  <2> QED BY <1>3, <2>1, OtherTyped DEF GiveUp
<1>4. CASE UNCHANGED vars
  BY <1>4 DEF vars, Typed
<1> QED BY <1>1, <1>2, <1>3, <1>4, SetTrashedTyped, PublishTyped, RestartTyped DEF Next

\* TypeOK: the rows of the catalog, the requests and the uploads under way have the
\* shape db.go and the handlers give them.
THEOREM TypeCorrect == Spec => []TypeOK
<1>1. Typed => TypeOK
  BY TypedIsTypeOK
<1> QED BY TypedInit, TypedNext, <1>1, PTL DEF Spec

-----------------------------------------------------------------------------
(***************************************************************************)
(* Order: what holds of the rows and of each request while nothing is spoiled.*)
(***************************************************************************)

\* A row called path fits below parent p.
Place(fs, p, path) ==
  \/ p = Root /\ Len(path) = 1
  \/ p \in DOMAIN fs /\ fs[p].dir /\ Front(path) = fs[p].path

\* A path lies in the part of the tree at or below the paths A.
InA(A, path) == \E a \in A : IsPrefix(a, path)

\* The path of a folder in table fs.
PathIn(fs, p) == IF p \in DOMAIN fs THEN fs[p].path ELSE <<>>

\* The requests that give rows a new path.
Moving(j) == j.op \in {"rename", "move", "relocate"}

\* The rows a request has still to work on, and the table once it has.
Pending(j) == {t[1] : t \in j.todo} \cup {j.id}

\* The path a row will have.
NewPath(fs, j, i) ==
  IF j.at \in {"rebase", "self"} /\ i \in Pending(j)
  THEN Swap(j.row.path, j.target, fs[i].path) ELSE fs[i].path

\* The parent a row will have.
NewParent(fs, j, i) ==
  IF j.at \in {"rebase", "self", "relink"} /\ i = j.id THEN j.dest ELSE fs[i].parent

\* The rows that will be there.
Staying(fs, j) == IF j.at = "erase" THEN DOMAIN fs \ Pending(j) ELSE DOMAIN fs

\* The table as it will be.
Final(fs, j) ==
  [i \in Staying(fs, j) |->
     [fs[i] EXCEPT !.path = NewPath(fs, j, i), !.parent = NewParent(fs, j, i)]]

\* The row a request read is still as it was read.
Subject(fs, j, A) ==
  (Moving(j) /\ j.at \in {"parent", "dest", "taken", "below", "rebase", "self"})
    \/ j.op = "delete" =>
  /\ j.id \in DOMAIN fs
  /\ fs[j.id].path = j.row.path /\ fs[j.id].parent = j.row.parent /\ fs[j.id].dir = j.row.dir
  /\ j.row.path \in A

\* The folder a request puts something in is there.
Destination(fs, is, j, A) ==
  /\ j.at = "parent" /\ j.op # "dir" =>
       /\ j.dest = Root \/ (j.dest \in DOMAIN fs /\ fs[j.dest].dir)
       /\ Append(PathIn(fs, j.dest), j.name) \in A
  /\ j.at = "parent" /\ j.op = "dir" =>
       j.target \in A /\ \E p \in DOMAIN fs \cup {Root} : Place(fs, p, j.target)
  /\ j.at = "dest" =>
       /\ j.dest \in is \cup {Root}
       /\ j.dest = Root \/ (j.dest \in DOMAIN fs /\ fs[j.dest].dir) =>
            Append(PathIn(fs, j.dest), j.name) \in A
  /\ j.at \in {"taken", "insert", "rebase", "self", "relink"} \/ (j.at = "below" /\ Moving(j)) =>
       j.target \in A /\ Place(fs, j.dest, j.target)
  /\ j.op \in {"rename", "relocate"} => j.dest = j.row.parent

\* The list of rows below, and what is done to them.
List(fs, j) ==
  /\ j.at \notin {"rebase", "erase"} => j.todo = {}
  /\ j.at \in {"below", "rebase"} => j.row.dir
  /\ j.at \in {"below", "rebase", "self"} /\ Moving(j) /\ j.row.dir =>
       ~IsStrictPrefix(j.row.path, j.target)
  /\ j.at \in {"rebase", "erase"} =>
       /\ \A t \in j.todo :
            /\ t[1] \in DOMAIN fs /\ t[1] # j.id
            /\ IsStrictPrefix(j.row.path, fs[t[1]].path)
            /\ t[2] = Swap(j.row.path, j.target, fs[t[1]].path)
       /\ \A t, s \in j.todo : t[1] = s[1] => t = s
  /\ j.at = "relink" => j.id \in DOMAIN fs /\ fs[j.id].path = j.target

\* The folders an upload has made, and the row it is about to store.
Uploading(fs, j, A) ==
  /\ j.op = "dir" /\ j.at \in {"walk", "lookup", "store"} =>
       /\ j.target \in A
       /\ \A x \in DOMAIN j.dirs :
            /\ j.dirs[x] \in DOMAIN fs /\ fs[j.dirs[x]].dir
            /\ fs[j.dirs[x]].path = j.target \o x
  /\ j.at = "store" =>
       /\ InA(A, j.row.path) /\ Place(fs, j.row.parent, j.row.path)
       /\ \/ /\ j.id \in DOMAIN fs
             /\ fs[j.id].path = j.row.path /\ fs[j.id].dir = j.row.dir
          \/ j.id \notin DOMAIN fs /\ RowsAt(fs, j.row.path) = {} /\ ~j.row.dir

\* What a request is about hangs together once the request has done its work.
Region(fs, j, A) ==
  \A i \in Staying(fs, j) : InA(A, fs[i].path) => AttachedIn(Final(fs, j), i)

\* What holds of a request that holds j and is about A.
Sound(fs, is, j, A) ==
  /\ j.at = "idle" => A = {}
  /\ Subject(fs, j, A) /\ Destination(fs, is, j, A) /\ List(fs, j)
  /\ Uploading(fs, j, A) /\ Region(fs, j, A)

\* Two parts of the tree have nothing in common.
Apart(A, B) == \A a \in A, b \in B : ~Related(a, b)

\* Every request is sound, no two are about the same rows, and the other rows are attached.
InOrder ==
  /\ \A r \in Requests : Sound(files, issued, h[r], about[r])
  /\ \A q, r \in Requests : q # r => Apart(about[q], about[r])
  /\ \A i \in DOMAIN files : InHand(i) \/ AttachedIn(files, i)
  /\ \A q, r \in Requests :
       q # r /\ h[q].at = "store" /\ h[r].at = "store" /\ h[q].id = h[r].id => h[q].id \in DOMAIN files
  /\ \A u \in uploads :
       /\ u.id \in DOMAIN files => files[u.id].dir = u.row.dir
       /\ \A r \in Requests : h[r].at = "store" /\ h[r].id = u.id => u.id \in DOMAIN files

-----------------------------------------------------------------------------
(***************************************************************************)
(* What others do far away changes nothing for a request.                  *)
(***************************************************************************)

\* Two rows with one place.
Same(x, y) == x.path = y.path /\ x.parent = y.parent /\ x.dir = y.dir

\* A path above, in or below the paths A.
Near(A, path) == \E a \in A : Related(a, path)

\* From table fs to table gs nothing has changed that a request about A sees.
Keeps(A, is, fs, gs) ==
  /\ \A i \in DOMAIN fs : Near(A, fs[i].path) => i \in DOMAIN gs /\ Same(fs[i], gs[i])
  /\ \A i \in DOMAIN gs : Near(A, gs[i].path) => i \in DOMAIN fs /\ Same(fs[i], gs[i])
  /\ \A i \in DOMAIN gs : gs[i].dir /\ i \in is => i \in DOMAIN fs /\ fs[i].dir

\* What is near a part of the tree.
LEMMA NearFacts ==
  ASSUME NEW A \in SUBSET Paths
  PROVE  /\ \A a \in A : Near(A, a)
         /\ \A x \in Seq(Names) : InA(A, x) => Near(A, x)
         /\ \A x \in Paths : InA(A, x) => Near(A, Front(x))
         /\ \A x, y \in Seq(Names) : InA(A, x) /\ IsPrefix(x, y) => InA(A, y)
<1>p. Paths \subseteq Seq(Names) /\ A \subseteq Seq(Names)
  BY DEF Paths
<1>1. \A a \in A : Near(A, a)
  BY <1>p, PrefixOrder DEF Near, Related
<1>2. \A x \in Seq(Names) : InA(A, x) => Near(A, x)
  BY DEF InA, Near, Related
<1>3. ASSUME NEW x \in Paths, InA(A, x) PROVE Near(A, Front(x))
  <2>1. PICK a \in A : IsPrefix(a, x)
    BY <1>3 DEF InA
  <2>2. CASE a = x
    BY <2>1, <2>2, FrontOf DEF Near, Related
  <2>3. CASE a # x
    BY <1>p, <2>1, <2>3, PrefixFront DEF Near, Related
  <2> QED BY <2>2, <2>3
<1>4. \A x, y \in Seq(Names) : InA(A, x) /\ IsPrefix(x, y) => InA(A, y)
  BY <1>p, PrefixOrder DEF InA
<1> QED BY <1>1, <1>2, <1>3, <1>4

\* A row in one of two parts that are apart is far from the other.
LEMMA ApartFar ==
  ASSUME NEW A \in SUBSET Paths, NEW B \in SUBSET Paths, Apart(A, B),
         NEW x \in Seq(Names), InA(B, x)
  PROVE  ~Near(A, x) /\ ~InA(A, x)
<1>p. A \subseteq Seq(Names) /\ B \subseteq Seq(Names)
  BY DEF Paths
<1>1. PICK b \in B : IsPrefix(b, x)
  BY DEF InA
<1>2. ASSUME NEW a \in A, Related(a, x) PROVE FALSE
  <2>1. CASE IsPrefix(a, x)
    <3>1. Related(a, b)
      BY <1>p, <1>1, <2>1, PrefixOrder
    <3> QED BY <3>1 DEF Apart
  <2>2. CASE IsPrefix(x, a)
    <3>1. IsPrefix(b, a)
      BY <1>p, <1>1, <2>2, PrefixOrder
    <3> QED BY <3>1 DEF Apart, Related
  <2> QED BY <1>2, <2>1, <2>2 DEF Related
<1> QED BY <1>2 DEF Near, InA, Related

\* Apart is symmetric.
LEMMA ApartSym ==
  ASSUME NEW A, NEW B, Apart(A, B) PROVE Apart(B, A)
BY DEF Apart, Related

\* The fields of row i of any table.
LEMMA TableRow ==
  ASSUME NEW fs, NEW is, Table(fs, is), NEW i \in DOMAIN fs
  PROVE  /\ fs[i] \in Rows /\ i \in is /\ i \in Ids /\ i # Root
         /\ fs[i].path \in Paths /\ fs[i].path \in Seq(Names)
         /\ fs[i].parent \in Ids \cup {Root} /\ fs[i].dir \in BOOLEAN
BY RowFields, TreeAssumption DEF Table, Paths

\* What a request read of its row stays true.
LEMMA SubjectStays ==
  ASSUME NEW A \in SUBSET Paths, NEW is, NEW fs, NEW gs, NEW j, Keeps(A, is, fs, gs),
         Subject(fs, j, A)
  PROVE  Subject(gs, j, A)
<1>1. j.id \in DOMAIN fs /\ fs[j.id].path \in A => j.id \in DOMAIN gs /\ Same(fs[j.id], gs[j.id])
  BY NearFacts DEF Keeps
<1> QED BY <1>1 DEF Subject, Same

\* A place stays a place.
LEMMA PlaceStays ==
  ASSUME NEW A \in SUBSET Paths, NEW is, NEW fs, NEW gs, Keeps(A, is, fs, gs),
         NEW p, NEW path \in Paths, InA(A, path), Place(fs, p, path)
  PROVE  Place(gs, p, path)
<1>1. CASE p = Root /\ Len(path) = 1
  BY <1>1 DEF Place
<1>2. CASE p \in DOMAIN fs /\ fs[p].dir /\ Front(path) = fs[p].path
  <2>1. Near(A, fs[p].path)
    BY <1>2, NearFacts
  <2>2. p \in DOMAIN gs /\ Same(fs[p], gs[p])
    BY <1>2, <2>1 DEF Keeps
  <2> QED BY <1>2, <2>2 DEF Place, Same
<1> QED BY <1>1, <1>2 DEF Place

\* A path lies in its own part of the tree.
LEMMA InItself ==
  ASSUME NEW A \in SUBSET Paths, NEW a \in A PROVE InA(A, a)
<1>1. a \in Seq(Names)
  BY DEF Paths
<1> QED BY <1>1, PrefixOrder DEF InA

\* The path of a folder in any table.
LEMMA PathInIs ==
  ASSUME NEW fs, NEW is, NEW p, Table(fs, is)
  PROVE  PathIn(fs, p) \in Seq(Names)
<1>1. CASE p \in DOMAIN fs
  BY <1>1, TableRow DEF PathIn
<1>2. CASE p \notin DOMAIN fs
  BY <1>2, EmptySeq DEF PathIn
<1> QED BY <1>1, <1>2

\* The folder above a path that a request is about stays what it was.
LEMMA AboveStays ==
  ASSUME NEW A \in SUBSET Paths, NEW is, NEW fs, NEW gs, Keeps(A, is, fs, gs), Table(fs, is),
         NEW p \in DOMAIN fs, NEW n \in Names, Append(fs[p].path, n) \in A
  PROVE  p \in DOMAIN gs /\ Same(fs[p], gs[p])
<1>1. fs[p].path \in Seq(Names)
  BY TableRow
<1>2. Front(Append(fs[p].path, n)) = fs[p].path /\ InA(A, Append(fs[p].path, n))
  BY <1>1, AppendTo, InItself
<1>3. Near(A, fs[p].path)
  BY <1>2, NearFacts
<1> QED BY <1>3 DEF Keeps

\* The folder a request puts something in stays there.
LEMMA DestinationStays ==
  ASSUME NEW A \in SUBSET Paths, NEW is, NEW js, NEW fs, NEW gs, NEW j, Keeps(A, is, fs, gs),
         Table(fs, is), Table(gs, js), is \subseteq js, JobOK(j, is), Destination(fs, is, j, A)
  PROVE  Destination(gs, js, j, A)
<1>r. Root \notin DOMAIN fs /\ Root \notin DOMAIN gs
  BY TableRow
<1>1. j.at = "parent" /\ j.op # "dir" =>
        /\ j.dest = Root \/ (j.dest \in DOMAIN gs /\ gs[j.dest].dir)
        /\ Append(PathIn(gs, j.dest), j.name) \in A
  <2> SUFFICES ASSUME j.at = "parent", j.op # "dir"
               PROVE  /\ j.dest = Root \/ (j.dest \in DOMAIN gs /\ gs[j.dest].dir)
                      /\ Append(PathIn(gs, j.dest), j.name) \in A
    OBVIOUS
  <2>1. /\ j.name \in Names
        /\ j.dest = Root \/ (j.dest \in DOMAIN fs /\ fs[j.dest].dir)
        /\ Append(PathIn(fs, j.dest), j.name) \in A
    BY DEF JobOK, Has, Destination
  <2>2. CASE j.dest = Root
    BY <1>r, <2>1, <2>2 DEF PathIn
  <2>3. CASE j.dest \in DOMAIN fs /\ fs[j.dest].dir
    <3>1. Append(fs[j.dest].path, j.name) \in A
      BY <2>1, <2>3 DEF PathIn
    <3>2. j.dest \in DOMAIN gs /\ Same(fs[j.dest], gs[j.dest])
      BY <2>1, <2>3, <3>1, AboveStays
    <3> QED BY <2>3, <3>1, <3>2 DEF PathIn, Same
  <2> QED BY <2>1, <2>2, <2>3
<1>2. j.at = "parent" /\ j.op = "dir" =>
        j.target \in A /\ \E p \in DOMAIN gs \cup {Root} : Place(gs, p, j.target)
  <2> SUFFICES ASSUME j.at = "parent", j.op = "dir"
               PROVE  j.target \in A /\ \E p \in DOMAIN gs \cup {Root} : Place(gs, p, j.target)
    OBVIOUS
  <2>1. j.target \in A
    BY DEF Destination
  <2>2. PICK p \in DOMAIN fs \cup {Root} : Place(fs, p, j.target)
    BY DEF Destination
  <2>3. Place(gs, p, j.target)
    BY <2>1, <2>2, InItself, PlaceStays
  <2> QED BY <2>1, <2>3 DEF Place
<1>3. j.at = "dest" =>
        /\ j.dest \in js \cup {Root}
        /\ j.dest = Root \/ (j.dest \in DOMAIN gs /\ gs[j.dest].dir) =>
             Append(PathIn(gs, j.dest), j.name) \in A
  <2> SUFFICES ASSUME j.at = "dest"
               PROVE  /\ j.dest \in js \cup {Root}
                      /\ j.dest = Root \/ (j.dest \in DOMAIN gs /\ gs[j.dest].dir) =>
                           Append(PathIn(gs, j.dest), j.name) \in A
    OBVIOUS
  <2>1. /\ j.name \in Names /\ j.dest \in is \cup {Root}
        /\ j.dest = Root \/ (j.dest \in DOMAIN fs /\ fs[j.dest].dir) =>
             Append(PathIn(fs, j.dest), j.name) \in A
    BY DEF JobOK, Has, Way, Destination
  <2>2. CASE j.dest = Root
    BY <1>r, <2>1, <2>2 DEF PathIn
  <2>3. ASSUME j.dest # Root, j.dest \in DOMAIN gs, gs[j.dest].dir
        PROVE  Append(PathIn(gs, j.dest), j.name) \in A
    <3>1. j.dest \in DOMAIN fs /\ fs[j.dest].dir
      BY <2>1, <2>3 DEF Keeps
    <3>2. Append(fs[j.dest].path, j.name) \in A
      BY <2>1, <3>1 DEF PathIn
    <3>3. j.dest \in DOMAIN gs /\ Same(fs[j.dest], gs[j.dest])
      BY <2>1, <3>1, <3>2, AboveStays
    <3> QED BY <3>2, <3>3 DEF PathIn, Same
  <2> QED BY <2>1, <2>2, <2>3
<1>4. ASSUME j.target \in A, Place(fs, j.dest, j.target)
      PROVE  Place(gs, j.dest, j.target)
  BY <1>4, InItself, PlaceStays
<1> QED BY <1>1, <1>2, <1>3, <1>4 DEF Destination

\* The list of rows below stays right.
LEMMA ListStays ==
  ASSUME NEW A \in SUBSET Paths, NEW is, NEW js, NEW fs, NEW gs, NEW j, Keeps(A, is, fs, gs),
         Table(fs, is), Table(gs, js), JobOK(j, is), List(fs, j),
         Subject(fs, j, A), Destination(fs, is, j, A)
  PROVE  List(gs, j)
<1>1. ASSUME j.row.path \in A, NEW i \in DOMAIN fs, IsPrefix(j.row.path, fs[i].path)
      PROVE  i \in DOMAIN gs /\ Same(fs[i], gs[i])
  BY <1>1 DEF Keeps, Near, Related
<1>2. ASSUME j.row.path \in A, NEW i \in DOMAIN gs, IsPrefix(j.row.path, gs[i].path)
      PROVE  i \in DOMAIN fs /\ Same(fs[i], gs[i])
  BY <1>2 DEF Keeps, Near, Related
<1>3. j.at \in {"rebase", "erase"} =>
       /\ \A t \in j.todo :
            /\ t[1] \in DOMAIN gs /\ t[1] # j.id
            /\ IsStrictPrefix(j.row.path, gs[t[1]].path)
            /\ t[2] = Swap(j.row.path, j.target, gs[t[1]].path)
       /\ \A t, s \in j.todo : t[1] = s[1] => t = s
  <2> SUFFICES ASSUME j.at \in {"rebase", "erase"}
               PROVE  /\ \A t \in j.todo :
                           /\ t[1] \in DOMAIN gs /\ t[1] # j.id
                           /\ IsStrictPrefix(j.row.path, gs[t[1]].path)
                           /\ t[2] = Swap(j.row.path, j.target, gs[t[1]].path)
                      /\ \A t, s \in j.todo : t[1] = s[1] => t = s
    OBVIOUS
  <2>1. j.row.path \in A
    BY DEF JobOK, Way, Subject, Moving
  <2>2. \A t, s \in j.todo : t[1] = s[1] => t = s
    BY DEF List
  <2>3. ASSUME NEW t \in j.todo
        PROVE  /\ t[1] \in DOMAIN gs /\ t[1] # j.id
               /\ IsStrictPrefix(j.row.path, gs[t[1]].path)
               /\ t[2] = Swap(j.row.path, j.target, gs[t[1]].path)
    <3>1. /\ t[1] \in DOMAIN fs /\ t[1] # j.id
          /\ IsStrictPrefix(j.row.path, fs[t[1]].path)
          /\ t[2] = Swap(j.row.path, j.target, fs[t[1]].path)
      BY DEF List
    <3>2. t[1] \in DOMAIN gs /\ Same(fs[t[1]], gs[t[1]])
      BY <1>1, <2>1, <3>1 DEF IsStrictPrefix
    <3> QED BY <3>1, <3>2 DEF Same
  <2> QED BY <2>2, <2>3
<1>4. j.at = "relink" => j.id \in DOMAIN gs /\ gs[j.id].path = j.target
  <2> SUFFICES ASSUME j.at = "relink" PROVE j.id \in DOMAIN gs /\ gs[j.id].path = j.target
    OBVIOUS
  <2>1. j.id \in DOMAIN fs /\ fs[j.id].path = j.target /\ j.target \in A
    BY DEF List, Destination
  <2>2. j.id \in DOMAIN gs /\ Same(fs[j.id], gs[j.id])
    BY <2>1, NearFacts DEF Keeps
  <2> QED BY <2>1, <2>2 DEF Same
<1> QED BY <1>3, <1>4 DEF List

\* What an upload has made stays there.
LEMMA UploadingStays ==
  ASSUME NEW A \in SUBSET Paths, NEW is, NEW js, NEW fs, NEW gs, NEW j, Keeps(A, is, fs, gs),
         Table(fs, is), Table(gs, js), JobOK(j, is), Uploading(fs, j, A),
         j.at = "store" => j.id \in DOMAIN fs \/ j.id \notin DOMAIN gs
  PROVE  Uploading(gs, j, A)
<1>1. j.op = "dir" /\ j.at \in {"walk", "lookup", "store"} =>
       /\ j.target \in A
       /\ \A x \in DOMAIN j.dirs :
            /\ j.dirs[x] \in DOMAIN gs /\ gs[j.dirs[x]].dir
            /\ gs[j.dirs[x]].path = j.target \o x
  <2> SUFFICES ASSUME j.op = "dir", j.at \in {"walk", "lookup", "store"}, NEW x \in DOMAIN j.dirs
               PROVE  /\ j.dirs[x] \in DOMAIN gs /\ gs[j.dirs[x]].dir
                      /\ gs[j.dirs[x]].path = j.target \o x
    BY DEF Uploading
  <2> DEFINE d == j.dirs[x]
  <2>1. d \in DOMAIN fs /\ fs[d].dir /\ fs[d].path = j.target \o x /\ j.target \in A
    BY DEF Uploading
  <2>2. x \in Seq(Names)
    BY DirsBuilt DEF JobOK, Jobs
  <2>3. IsPrefix(j.target, j.target \o x)
    <3>1. CASE x = <<>>
      <4>1. j.target \in Seq(Names) /\ j.target \o x = j.target
        BY <2>1, <3>1, Below, ConcatEmptySeq DEF Paths
      <4> QED BY <4>1, PrefixOrder
    <3>2. CASE x # <<>>
      <4>1. x \in Paths /\ j.target \in Paths
        BY <2>1, <2>2, <3>2 DEF Paths
      <4> QED BY <4>1, Below
    <3> QED BY <3>1, <3>2
  <2> HIDE DEF d
  <2>4. Near(A, fs[d].path)
    BY <2>1, <2>3 DEF Near, Related
  <2>5. d \in DOMAIN gs /\ Same(fs[d], gs[d])
    BY <2>1, <2>4 DEF Keeps
  <2> QED BY <2>1, <2>5 DEF Same, d
<1>2. j.at = "store" =>
       /\ InA(A, j.row.path) /\ Place(gs, j.row.parent, j.row.path)
       /\ \/ /\ j.id \in DOMAIN gs
             /\ gs[j.id].path = j.row.path /\ gs[j.id].dir = j.row.dir
          \/ j.id \notin DOMAIN gs /\ RowsAt(gs, j.row.path) = {} /\ ~j.row.dir
  <2> SUFFICES ASSUME j.at = "store"
               PROVE  /\ InA(A, j.row.path) /\ Place(gs, j.row.parent, j.row.path)
                      /\ \/ /\ j.id \in DOMAIN gs
                            /\ gs[j.id].path = j.row.path /\ gs[j.id].dir = j.row.dir
                         \/ j.id \notin DOMAIN gs /\ RowsAt(gs, j.row.path) = {} /\ ~j.row.dir
    OBVIOUS
  <2>1. InA(A, j.row.path) /\ Place(fs, j.row.parent, j.row.path)
    BY DEF Uploading
  <2>2. j.row \in Rows /\ j.row.path \in Paths /\ j.row.path \in Seq(Names)
    BY RowFields DEF JobOK, Has, Paths
  <2>3. Place(gs, j.row.parent, j.row.path)
    BY <2>1, <2>2, PlaceStays
  <2>4. Near(A, j.row.path)
    BY <2>1, <2>2, NearFacts
  <2>5. CASE j.id \in DOMAIN fs /\ fs[j.id].path = j.row.path /\ fs[j.id].dir = j.row.dir
    <3>1. j.id \in DOMAIN gs /\ Same(fs[j.id], gs[j.id])
      BY <2>4, <2>5 DEF Keeps
    <3> QED BY <2>1, <2>3, <2>5, <3>1 DEF Same
  <2>6. CASE j.id \notin DOMAIN fs /\ RowsAt(fs, j.row.path) = {} /\ ~j.row.dir
    <3>1. j.id \notin DOMAIN gs
      BY <2>6
    <3>2. ASSUME NEW i \in DOMAIN gs, gs[i].path = j.row.path PROVE FALSE
      <4>1. i \in DOMAIN fs /\ Same(fs[i], gs[i])
        BY <2>4, <3>2 DEF Keeps
      <4> QED BY <2>6, <3>2, <4>1 DEF RowsAt, Same
    <3>3. RowsAt(gs, j.row.path) = {}
      BY <3>2 DEF RowsAt
    <3> QED BY <2>1, <2>3, <2>6, <3>1, <3>3
  <2> QED BY <2>5, <2>6 DEF Uploading
<1> QED BY <1>1, <1>2 DEF Uploading

\* Rows in Final, field by field.
LEMMA FinalRow ==
  ASSUME NEW fs, NEW is, NEW j, Table(fs, is), NEW i \in Staying(fs, j)
  PROVE  /\ i \in DOMAIN fs /\ i \in DOMAIN Final(fs, j)
         /\ Final(fs, j)[i].path = NewPath(fs, j, i)
         /\ Final(fs, j)[i].parent = NewParent(fs, j, i)
         /\ Final(fs, j)[i].dir = fs[i].dir
<1>1. i \in DOMAIN fs
  BY DEF Staying
<1>2. fs[i] \in Rows
  BY <1>1, TableRow
<1>3. DOMAIN Final(fs, j) = Staying(fs, j)
  BY DEF Final
<1>4. Final(fs, j)[i] = [fs[i] EXCEPT !.path = NewPath(fs, j, i), !.parent = NewParent(fs, j, i)]
  BY DEF Final
<1> QED BY <1>1, <1>2, <1>3, <1>4 DEF Rows

\* Whether a row is attached in Final, without Final.
LEMMA AttachedFinally ==
  ASSUME NEW fs, NEW is, NEW j, Table(fs, is), NEW i \in Staying(fs, j)
  PROVE  AttachedIn(Final(fs, j), i) <=>
           \/ NewParent(fs, j, i) = Root /\ Len(NewPath(fs, j, i)) = 1
           \/ /\ NewParent(fs, j, i) \in Staying(fs, j)
              /\ fs[NewParent(fs, j, i)].dir
              /\ Front(NewPath(fs, j, i)) = NewPath(fs, j, NewParent(fs, j, i))
<1> DEFINE F == Final(fs, j)
<1> DEFINE p == NewParent(fs, j, i)
<1>1. F[i].path = NewPath(fs, j, i) /\ F[i].parent = p /\ DOMAIN F = Staying(fs, j)
  <2>1. F[i].path = NewPath(fs, j, i) /\ F[i].parent = p
    BY FinalRow
  <2>2. DOMAIN F = Staying(fs, j)
    BY DEF Final
  <2> QED BY <2>1, <2>2
<1>2. p \in Staying(fs, j) => F[p].path = NewPath(fs, j, p) /\ F[p].dir = fs[p].dir
  BY FinalRow
<1> HIDE DEF F, p
<1>3. AttachedIn(F, i) <=> \/ p = Root /\ Len(NewPath(fs, j, i)) = 1
                           \/ /\ p \in Staying(fs, j) /\ fs[p].dir
                              /\ Front(NewPath(fs, j, i)) = NewPath(fs, j, p)
  BY <1>1, <1>2 DEF AttachedIn
<1> QED BY <1>3 DEF F, p

\* Where a request has put what it moves so far, and where it will put the rest.
LEMMA NewPathIs ==
  ASSUME NEW A \in SUBSET Paths, NEW is, NEW fs, NEW j, Table(fs, is), JobOK(j, is),
         Subject(fs, j, A), Destination(fs, is, j, A), List(fs, j),
         NEW i \in DOMAIN fs
  PROVE  \/ /\ NewPath(fs, j, i) = fs[i].path
            /\ ~(j.at \in {"rebase", "self"} /\ i \in Pending(j))
         \/ /\ j.at \in {"rebase", "self"} /\ i \in Pending(j)
            /\ NewPath(fs, j, i) = Swap(j.row.path, j.target, fs[i].path)
            /\ NewPath(fs, j, i) \in Paths /\ IsPrefix(j.target, NewPath(fs, j, i))
            /\ j.row.path \in A /\ j.target \in A /\ IsPrefix(j.row.path, fs[i].path)
            /\ i = j.id => NewPath(fs, j, i) = j.target /\ fs[i].path = j.row.path
            /\ i # j.id => /\ IsStrictPrefix(j.row.path, fs[i].path)
                           /\ Front(NewPath(fs, j, i)) =
                                Swap(j.row.path, j.target, Front(fs[i].path))
<1>1. CASE ~(j.at \in {"rebase", "self"} /\ i \in Pending(j))
  BY <1>1 DEF NewPath
<1>2. CASE j.at \in {"rebase", "self"} /\ i \in Pending(j)
  <2> DEFINE o == j.row.path
  <2> DEFINE w == j.target
  <2> DEFINE x == fs[i].path
  <2>1. NewPath(fs, j, i) = Swap(o, w, x)
    BY <1>2 DEF NewPath
  <2>2. o \in A /\ w \in A /\ (i = j.id => x = o)
    BY <1>2 DEF JobOK, Way, Subject, Moving, Destination
  <2>3. o \in Paths /\ w \in Paths /\ o \in Seq(Names) /\ w \in Seq(Names) /\ x \in Paths
    BY <2>2, TableRow DEF Paths
  <2>4. i # j.id => IsStrictPrefix(o, x)
    <3> SUFFICES ASSUME i # j.id PROVE IsStrictPrefix(o, x)
      OBVIOUS
    <3>1. PICK t \in j.todo : t[1] = i
      BY <1>2 DEF Pending
    <3>2. j.at = "rebase"
      BY <1>2, <3>1 DEF List
    <3> QED BY <3>1, <3>2 DEF List
  <2>5. IsPrefix(o, x)
    BY <2>2, <2>3, <2>4, PrefixOrder DEF IsStrictPrefix
  <2>6. i = j.id => Swap(o, w, x) = w
    BY <2>2, <2>3, SwapWhole
  <2>7. i # j.id => /\ Swap(o, w, x) \in Paths
                    /\ Front(Swap(o, w, x)) = Swap(o, w, Front(x))
    BY <2>3, <2>4, SwapFront DEF IsStrictPrefix
  <2>8. IsPrefix(w, Swap(o, w, x))
    <3>1. x \in Seq(Names)
      BY <2>3 DEF Paths
    <3> QED BY <2>3, <2>5, <3>1, SwapIs
  <2>9. Swap(o, w, x) \in Paths
    BY <2>3, <2>6, <2>7
  <2> HIDE DEF o, w, x
  <2> QED BY <1>2, <2>1, <2>2, <2>4, <2>5, <2>6, <2>7, <2>8, <2>9 DEF o, w, x
<1> QED BY <1>1, <1>2

\* What hangs together in the end still does.
LEMMA RegionStays ==
  ASSUME NEW A \in SUBSET Paths, NEW is, NEW js, NEW fs, NEW gs, NEW j, Keeps(A, is, fs, gs),
         Table(fs, is), Table(gs, js), JobOK(j, is),
         Subject(fs, j, A), Destination(fs, is, j, A), List(fs, j), Region(fs, j, A)
  PROVE  Region(gs, j, A)
<1> SUFFICES ASSUME NEW i \in Staying(gs, j), InA(A, gs[i].path)
             PROVE  AttachedIn(Final(gs, j), i)
  BY DEF Region
<1>1. i \in DOMAIN gs /\ gs[i].path \in Paths /\ gs[i].path \in Seq(Names)
  BY TableRow DEF Staying
<1>2. i \in DOMAIN fs /\ Same(fs[i], gs[i]) /\ i \in Staying(fs, j)
  BY <1>1, NearFacts DEF Keeps, Staying
<1>3. /\ NewPath(gs, j, i) = NewPath(fs, j, i) /\ NewParent(gs, j, i) = NewParent(fs, j, i)
      /\ InA(A, fs[i].path) /\ fs[i].path \in Paths
  BY <1>1, <1>2 DEF NewPath, NewParent, Same
<1>4. AttachedIn(Final(fs, j), i)
  BY <1>2, <1>3 DEF Region
<1> DEFINE n == NewPath(fs, j, i)
<1> DEFINE p == NewParent(fs, j, i)
<1>5. \/ p = Root /\ Len(n) = 1
      \/ p \in Staying(fs, j) /\ fs[p].dir /\ Front(n) = NewPath(fs, j, p)
  BY <1>2, <1>4, AttachedFinally
<1>6. n \in Paths /\ InA(A, n)
  <2>1. CASE n = fs[i].path
    BY <1>3, <2>1
  <2>2. CASE n \in Paths /\ IsPrefix(j.target, n) /\ j.target \in A
    BY <2>2 DEF InA
  <2> QED BY <1>2, <2>1, <2>2, NewPathIs
<1>7. Near(A, Front(n))
  BY <1>6, NearFacts
<1> HIDE DEF n, p
<1>8. CASE p = Root /\ Len(n) = 1
  <2>1. NewParent(gs, j, i) = Root /\ Len(NewPath(gs, j, i)) = 1
    BY <1>3, <1>8 DEF n, p
  <2> QED BY <2>1, AttachedFinally
<1>9. CASE p \in Staying(fs, j) /\ fs[p].dir /\ Front(n) = NewPath(fs, j, p)
  <2>1. p \in DOMAIN fs
    BY <1>9 DEF Staying
  <2>2. Near(A, fs[p].path)
    <3>1. CASE NewPath(fs, j, p) = fs[p].path
      BY <1>7, <1>9, <3>1
    <3>2. CASE j.row.path \in A /\ IsPrefix(j.row.path, fs[p].path)
      BY <3>2 DEF Near, Related
    <3> QED BY <2>1, <3>1, <3>2, NewPathIs
  <2>3. p \in DOMAIN gs /\ Same(fs[p], gs[p])
    BY <2>1, <2>2 DEF Keeps
  <2>4. p \in Staying(gs, j) /\ NewPath(gs, j, p) = NewPath(fs, j, p) /\ gs[p].dir
    BY <1>9, <2>3 DEF Staying, NewPath, Same
  <2>5. /\ NewParent(gs, j, i) = p /\ p \in Staying(gs, j) /\ gs[p].dir
        /\ Front(NewPath(gs, j, i)) = NewPath(gs, j, p)
    BY <1>3, <1>9, <2>4 DEF n, p
  <2> QED BY <2>5, AttachedFinally
<1> QED BY <1>5, <1>8, <1>9 DEF n, p

\* So request j stays sound when others change what is far from it.
LEMMA SoundStays ==
  ASSUME NEW A \in SUBSET Paths, NEW is, NEW js, NEW fs, NEW gs, NEW j, Keeps(A, is, fs, gs),
         Table(fs, is), Table(gs, js), is \subseteq js, JobOK(j, is), Sound(fs, is, j, A),
         j.at = "store" => j.id \in DOMAIN fs \/ j.id \notin DOMAIN gs
  PROVE  Sound(gs, js, j, A)
<1>1. /\ j.at = "idle" => A = {}
      /\ Subject(fs, j, A) /\ Destination(fs, is, j, A) /\ List(fs, j)
      /\ Uploading(fs, j, A) /\ Region(fs, j, A)
  BY DEF Sound
<1> QED BY <1>1, SubjectStays, DestinationStays, ListStays, UploadingStays, RegionStays DEF Sound

-----------------------------------------------------------------------------
(***************************************************************************)
(* Turns: what one request may touch.                                      *)
(***************************************************************************)

\* Table gs differs from fs in row k at most, a row in the part of the tree B.
Confined(B, is, fs, gs, k) ==
  /\ \A i \in (DOMAIN fs \cup DOMAIN gs) \ {k} :
        i \in DOMAIN fs /\ i \in DOMAIN gs /\ Same(fs[i], gs[i])
  /\ k \in DOMAIN fs => InA(B, fs[k].path)
  /\ k \in DOMAIN gs => InA(B, gs[k].path)
  /\ k \in DOMAIN gs /\ k \in DOMAIN fs => gs[k].dir = fs[k].dir
  /\ k \in DOMAIN gs /\ k \notin DOMAIN fs => k \notin is \/ ~gs[k].dir

\* A change in a part of the tree that is apart keeps what a request sees.
LEMMA ConfinedKeeps ==
  ASSUME NEW A \in SUBSET Paths, NEW B \in SUBSET Paths, Apart(A, B), NEW is, NEW js,
         NEW fs, NEW gs, NEW k, Table(fs, is), Table(gs, js), Confined(B, is, fs, gs, k)
  PROVE  Keeps(A, is, fs, gs)
<1>1. k \in DOMAIN fs => ~Near(A, fs[k].path)
  BY TableRow, ApartFar DEF Confined
<1>2. k \in DOMAIN gs => ~Near(A, gs[k].path)
  BY TableRow, ApartFar DEF Confined
<1>3. \A i \in DOMAIN fs : Near(A, fs[i].path) => i \in DOMAIN gs /\ Same(fs[i], gs[i])
  BY <1>1 DEF Confined
<1>4. \A i \in DOMAIN gs : Near(A, gs[i].path) => i \in DOMAIN fs /\ Same(fs[i], gs[i])
  BY <1>2 DEF Confined
<1>5. \A i \in DOMAIN gs : gs[i].dir /\ i \in is => i \in DOMAIN fs /\ fs[i].dir
  BY DEF Confined, Same
<1> QED BY <1>3, <1>4, <1>5 DEF Keeps

\* A step of request q: what it may touch, and what it must leave behind.
Turn(q, k) ==
  /\ Confined(about[q], issued, files, files', k)
  /\ k \in DOMAIN files' /\ k \notin DOMAIN files =>
       k \notin issued \/ (h[q].at = "store" /\ k = h[q].id)
  /\ \A r \in Requests \ {q} : h'[r] = h[r] /\ about'[r] = about[r]
  /\ \/ about'[q] = about[q]
     \/ /\ about'[q] = {}
        /\ \A i \in DOMAIN files' : InA(about[q], files'[i].path) => AttachedIn(files', i)
  /\ Sound(files', issued', h'[q], about'[q])
  /\ h'[q].at = "store" =>
       files' = files /\ (h'[q].id \in DOMAIN files \/ h'[q].id \notin issued)
  /\ issued \subseteq issued'
  /\ \A u \in uploads' :
       \/ u \in uploads
       \/ /\ u.id = h[q].id /\ h[q].at = "store"
          /\ u.id \in DOMAIN files' /\ files'[u.id].dir = u.row.dir

\* A row in the hand of nobody stays where it is when q changes its own rows.
LEMMA OthersAttached ==
  ASSUME NEW B \in SUBSET Paths, NEW is, NEW js, NEW fs, NEW gs, NEW k, Table(fs, is),
         Table(gs, js), Confined(B, is, fs, gs, k),
         NEW i \in DOMAIN gs, ~InA(B, gs[i].path), i \in DOMAIN fs => AttachedIn(fs, i)
  PROVE  i \in DOMAIN fs /\ Same(fs[i], gs[i]) /\ AttachedIn(gs, i)
<1>1. i # k /\ i \in DOMAIN fs /\ Same(fs[i], gs[i])
  BY DEF Confined
<1>2. fs[i].path \in Paths /\ fs[i].path \in Seq(Names)
  BY <1>1, TableRow
<1>3. CASE fs[i].parent = Root /\ Len(fs[i].path) = 1
  BY <1>1, <1>3 DEF AttachedIn, Same
<1>4. CASE /\ fs[i].parent \in DOMAIN fs /\ fs[fs[i].parent].dir
           /\ Front(fs[i].path) = fs[fs[i].parent].path
  <2> DEFINE p == fs[i].parent
  <2>1. p \in DOMAIN fs /\ fs[p].dir /\ Front(fs[i].path) = fs[p].path
    BY <1>4
  <2> HIDE DEF p
  <2>2. p # k
    <3> SUFFICES ASSUME p = k PROVE FALSE
      OBVIOUS
    <3>0. k \in DOMAIN fs => InA(B, fs[k].path)
      BY DEF Confined
    <3>3. fs[p].path \in Seq(Names)
      BY <2>1, TableRow
    <3>1. InA(B, fs[p].path) /\ fs[p].path \in Seq(Names)
      BY <2>1, <3>0, <3>3
    <3>2. InA(B, fs[i].path)
      <4>1. IsPrefix(fs[p].path, fs[i].path)
        BY <1>2, <2>1, FrontOf
      <4> QED BY <1>2, <3>1, <4>1, NearFacts
    <3> QED BY <1>1, <3>2 DEF Same
  <2>3. p \in DOMAIN gs /\ Same(fs[p], gs[p])
    BY <2>1, <2>2 DEF Confined
  <2> QED BY <1>1, <2>1, <2>3 DEF AttachedIn, Same, p
<1> QED BY <1>1, <1>3, <1>4 DEF AttachedIn

\* A row is in hand when some request is about it.
LEMMA InHandIs ==
  ASSUME NEW i
  PROVE  InHand(i) <=> \E r \in Requests : InA(about[r], files[i].path)
BY DEF InHand, InA

\* A turn of one request keeps everything in order.
LEMMA TurnInOrder ==
  ASSUME Typed, Typed', InOrder, NEW q \in Requests, NEW k, Turn(q, k)
  PROVE  InOrder'
<1>a. /\ Table(files, issued) /\ Table(files', issued')
      /\ \A r \in Requests : about[r] \in SUBSET Paths /\ JobOK(h[r], issued)
                             /\ about'[r] \in SUBSET Paths
  BY DEF Typed
<1>b. \A r \in Requests \ {q} : Apart(about[r], about[q])
  BY ApartSym DEF InOrder
<1>k. ASSUME NEW r \in Requests \ {q}
      PROVE  Keeps(about[r], issued, files, files')
  BY <1>a, <1>b, ConfinedKeeps DEF Turn
<1>s. ASSUME NEW r \in Requests \ {q}, h[r].at = "store", h[r].id \notin DOMAIN files
      PROVE  h[r].id \notin DOMAIN files'
  <2> SUFFICES ASSUME h[r].id \in DOMAIN files' PROVE FALSE
    OBVIOUS
  <2>1. h[r].id = k
    BY <1>s DEF Turn, Confined
  <2>2. h[r].id \in issued
    BY <1>a, <1>s DEF JobOK, Has
  <2>3. h[q].at = "store" /\ h[q].id = h[r].id
    BY <1>s, <2>1, <2>2 DEF Turn
  <2> QED BY <1>s, <2>3 DEF InOrder
<1>t. ASSUME NEW r \in Requests \ {q}, h[r].at = "store", h[r].id \in DOMAIN files
      PROVE  h[r].id \in DOMAIN files'
  <2>1. Uploading(files, h[r], about[r])
    BY DEF InOrder, Sound
  <2>2. files[h[r].id].path = h[r].row.path /\ InA(about[r], h[r].row.path)
    BY <1>t, <2>1 DEF Uploading
  <2>3. Near(about[r], files[h[r].id].path)
    <3>1. files[h[r].id].path \in Seq(Names)
      BY <1>a, <1>t, TableRow
    <3>2. InA(about[r], files[h[r].id].path)
      BY <2>2
    <3> QED BY <1>a, <3>1, <3>2, NearFacts
  <2> QED BY <1>k, <1>t, <2>3 DEF Keeps
<1>1. ASSUME NEW r \in Requests PROVE Sound(files', issued', h'[r], about'[r])
  <2>1. CASE r = q
    BY <2>1 DEF Turn
  <2>2. CASE r # q
    <3>1. h'[r] = h[r] /\ about'[r] = about[r] /\ issued \subseteq issued'
      BY <2>2 DEF Turn
    <3>2. Sound(files, issued, h[r], about[r])
      BY DEF InOrder
    <3>3. Sound(files', issued', h[r], about[r])
      BY <1>a, <1>k, <1>s, <2>2, <3>1, <3>2, SoundStays
    <3> QED BY <3>1, <3>3
  <2> QED BY <2>1, <2>2
<1>2. \A r, s \in Requests : r # s => Apart(about'[r], about'[s])
  <2>1. \A r \in Requests : about'[r] = about[r] \/ about'[r] = {}
    BY DEF Turn
  <2>2. \A r, s \in Requests : r # s => Apart(about[r], about[s])
    BY DEF InOrder
  <2> QED BY <2>1, <2>2 DEF Apart
<1>3. ASSUME NEW i \in DOMAIN files',
             ~\E r \in Requests : InA(about'[r], files'[i].path)
      PROVE  AttachedIn(files', i)
  <2>1. CASE InA(about[q], files'[i].path)
    BY <1>3, <2>1 DEF Turn
  <2>2. CASE ~InA(about[q], files'[i].path)
    <3>1. i \in DOMAIN files /\ Same(files[i], files'[i])
      BY <2>2 DEF Turn, Confined
    <3>2. ~\E r \in Requests : InA(about[r], files[i].path)
      BY <1>3, <2>2, <3>1 DEF Turn, Same
    <3>3. AttachedIn(files, i)
      BY <3>1, <3>2, InHandIs DEF InOrder
    <3>4. Confined(about[q], issued, files, files', k)
      BY DEF Turn
    <3> QED BY <1>a, <2>2, <3>3, <3>4, OthersAttached
  <2> QED BY <2>1, <2>2
<1>4. ASSUME NEW r \in Requests, NEW s \in Requests, r # s, h'[r].at = "store",
             h'[s].at = "store", h'[r].id = h'[s].id
      PROVE  h'[r].id \in DOMAIN files'
  <2>1. ASSUME NEW x \in Requests \ {q}, h'[x].at = "store", h'[q].at = "store",
               h'[q].id = h'[x].id
        PROVE  h'[q].id \in DOMAIN files'
    <3>1. h'[x] = h[x] /\ h[x].id \in issued
      <4>1. h'[x] = h[x]
        BY DEF Turn
      <4> QED BY <1>a, <2>1, <4>1 DEF JobOK, Has
    <3>2. files' = files /\ h'[q].id \in DOMAIN files
      BY <2>1, <3>1 DEF Turn
    <3> QED BY <3>2
  <2>2. CASE r # q /\ s # q
    <3>1. h'[r] = h[r] /\ h'[s] = h[s]
      BY <2>2 DEF Turn
    <3>2. h[r].id \in DOMAIN files
      BY <1>4, <3>1 DEF InOrder
    <3> QED BY <1>4, <1>t, <2>2, <3>1, <3>2
  <2> QED BY <1>4, <2>1, <2>2
<1>5. ASSUME NEW u \in uploads'
      PROVE  /\ u.id \in DOMAIN files' => files'[u.id].dir = u.row.dir
             /\ \A r \in Requests : h'[r].at = "store" /\ h'[r].id = u.id => u.id \in DOMAIN files'
  <2>1. CASE u \in uploads
    <3>1. u.id \in issued /\ (u.id \in DOMAIN files => files[u.id].dir = u.row.dir)
      BY <2>1 DEF Typed, InOrder
    <3>2. \A r \in Requests : h[r].at = "store" /\ h[r].id = u.id => u.id \in DOMAIN files
      BY <2>1 DEF InOrder
    <3>3. ASSUME u.id \in DOMAIN files' PROVE files'[u.id].dir = u.row.dir
      <4>1. CASE u.id \in DOMAIN files
        BY <3>1, <3>3, <4>1 DEF Turn, Confined, Same
      <4>2. CASE u.id \notin DOMAIN files
        <5>1. u.id = k
          BY <3>3, <4>2 DEF Turn, Confined
        <5>2. h[q].at = "store" /\ u.id = h[q].id
          BY <3>1, <3>3, <4>2, <5>1 DEF Turn
        <5> QED BY <3>2, <4>2, <5>2
      <4> QED BY <4>1, <4>2
    <3>4. ASSUME NEW r \in Requests, h'[r].at = "store", h'[r].id = u.id
          PROVE  u.id \in DOMAIN files'
      <4>1. CASE r = q
        BY <3>1, <3>4, <4>1 DEF Turn
      <4>2. CASE r # q
        <5>1. h'[r] = h[r]
          BY <4>2 DEF Turn
        <5> QED BY <1>t, <3>2, <3>4, <4>2, <5>1
      <4> QED BY <4>1, <4>2
    <3> QED BY <3>3, <3>4
  <2>2. CASE u \notin uploads
    BY <2>2 DEF Turn
  <2> QED BY <2>1, <2>2
<1>6. \A i \in DOMAIN files' :
         (\E r \in Requests : \E p \in about'[r] : IsPrefix(p, files'[i].path)) \/ AttachedIn(files', i)
  BY <1>3 DEF InA
<1> QED BY <1>1, <1>2, <1>4, <1>5, <1>6 DEF InOrder, InHand

-----------------------------------------------------------------------------
(***************************************************************************)
(* Steps of no request, and requests that begin.                           *)
(***************************************************************************)

\* A request at rest is sound.
LEMMA SoundIdle ==
  ASSUME NEW fs, NEW is PROVE Sound(fs, is, Idle, {})
<1>1. Idle.at = "idle" /\ Idle.op = "none" /\ Idle.todo = {}
  BY DEF Idle
<1>2. Subject(fs, Idle, {}) /\ Destination(fs, is, Idle, {}) /\ List(fs, Idle)
      /\ Uploading(fs, Idle, {}) /\ Region(fs, Idle, {})
  BY <1>1 DEF Subject, Moving, Destination, List, Uploading, Region, InA
<1> QED BY <1>2 DEF Sound

\* Tables with the same paths and parents have the same rows attached.
LEMMA AlikeAttached ==
  ASSUME NEW fs, NEW gs, DOMAIN gs = DOMAIN fs, \A i \in DOMAIN fs : Same(fs[i], gs[i]),
         NEW i \in DOMAIN fs
  PROVE  AttachedIn(gs, i) <=> AttachedIn(fs, i)
BY DEF AttachedIn, Same

\* A step of no request that keeps paths and parents.
LEMMA AlikeInOrder ==
  ASSUME Typed, Typed', InOrder, DOMAIN files' = DOMAIN files,
         \A i \in DOMAIN files : Same(files[i], files'[i]),
         UNCHANGED <<h, about, issued>>, uploads' \subseteq uploads
  PROVE  InOrder'
<1>a. /\ Table(files, issued) /\ Table(files', issued')
      /\ \A r \in Requests : about[r] \in SUBSET Paths /\ JobOK(h[r], issued)
  BY DEF Typed
<1>1. ASSUME NEW r \in Requests PROVE Sound(files', issued', h'[r], about'[r])
  <2>1. Keeps(about[r], issued, files, files')
    BY DEF Keeps, Same
  <2>2. Sound(files, issued, h[r], about[r])
    BY DEF InOrder
  <2>3. Sound(files', issued', h[r], about[r])
    BY <1>a, <2>1, <2>2, SoundStays
  <2> QED BY <2>3
<1>2. \A r, s \in Requests : r # s => Apart(about'[r], about'[s])
  BY DEF InOrder
<1>3. ASSUME NEW i \in DOMAIN files'
      PROVE  (\E r \in Requests : \E p \in about'[r] : IsPrefix(p, files'[i].path)) \/ AttachedIn(files', i)
  <2>1. InHand(i) \/ AttachedIn(files, i)
    BY <1>3 DEF InOrder
  <2>2. AttachedIn(files', i) <=> AttachedIn(files, i)
    BY AlikeAttached
  <2> QED BY <2>1, <2>2 DEF InHand, Same
<1>4. \A r, s \in Requests :
       r # s /\ h'[r].at = "store" /\ h'[s].at = "store" /\ h'[r].id = h'[s].id => h'[r].id \in DOMAIN files'
  BY DEF InOrder
<1>5. ASSUME NEW u \in uploads'
      PROVE  /\ u.id \in DOMAIN files' => files'[u.id].dir = u.row.dir
             /\ \A r \in Requests : h'[r].at = "store" /\ h'[r].id = u.id => u.id \in DOMAIN files'
  BY DEF InOrder, Same
<1> QED BY <1>1, <1>2, <1>3, <1>4, <1>5 DEF InOrder, InHand

\* Trash and restore keep every row in its place.
LEMMA SetTrashedInOrder ==
  ASSUME Typed, Typed', InOrder, NEW i \in issued, NEW on \in BOOLEAN, SetTrashed(i, on)
  PROVE  InOrder'
<1>1. /\ i \in DOMAIN files /\ files' = [files EXCEPT ![i].trashed = on]
      /\ UNCHANGED <<issued, h, uploads, about, spoiled>>
  BY DEF SetTrashed
<1>2. \A k \in DOMAIN files : files[k] \in Rows
  BY DEF Typed, Table
<1>3. DOMAIN files' = DOMAIN files /\ \A k \in DOMAIN files : Same(files[k], files'[k])
  BY <1>1, <1>2 DEF Same, Rows
<1> QED BY <1>1, <1>3, AlikeInOrder

\* The record written at the end of an upload is what the row is already.
LEMMA PublishNothing ==
  ASSUME Typed, InOrder, NEW u \in uploads, Publish(u), spoiled' = {}
  PROVE  files' = files
<1> DEFINE there == RowsAt(files, u.row.path)
<1>1. ~(\/ there \ {u.id} # {} \/ u.id \notin DOMAIN files
        \/ files[u.id].path = u.row.path /\ files[u.id].parent # u.row.parent)
  BY DEF Publish, Spoil, If
<1>2. u.row \in Rows /\ files[u.id] \in Rows /\ files[u.id].dir = u.row.dir
  BY <1>1 DEF Typed, Table, InOrder
<1>3. files' = Upserted(files, u.id, u.row)
  BY DEF Publish
<1>4. \A k : k \in there <=> k \in DOMAIN files /\ files[k].path = u.row.path
  BY DEF RowsAt
<1>f. files = [k \in DOMAIN files |-> files[k]]
  BY DEF Typed, Table
<1>5. CASE there = {}
  BY <1>1, <1>3, <1>5 DEF Upserted
<1>6. CASE there # {}
  <2>1. there = {u.id} /\ files[u.id].path = u.row.path /\ files[u.id].parent = u.row.parent
    BY <1>1, <1>4, <1>6
  <2>2. Upserted(files, u.id, u.row) =
          [k \in DOMAIN files |-> IF k \in there
             THEN [u.row EXCEPT !.trashed = files[k].trashed] ELSE files[k]]
    BY <1>6 DEF Upserted
  <2>3. [u.row EXCEPT !.trashed = files[u.id].trashed] = files[u.id]
    BY <1>2, <2>1 DEF Rows
  <2> HIDE DEF there
  <2>4. Upserted(files, u.id, u.row) = [k \in DOMAIN files |-> files[k]]
    BY <2>1, <2>2, <2>3
  <2> QED BY <1>3, <1>f, <2>4
<1> QED BY <1>5, <1>6

\* So the end of an upload keeps everything in order.
LEMMA PublishInOrder ==
  ASSUME Typed, Typed', InOrder, NEW u \in uploads, Publish(u), spoiled' = {}
  PROVE  InOrder'
<1>1. files' = files
  BY PublishNothing
<1>2. UNCHANGED <<issued, h, about>> /\ uploads' \subseteq uploads
  BY DEF Publish
<1>3. DOMAIN files' = DOMAIN files /\ \A k \in DOMAIN files : Same(files[k], files'[k])
  BY <1>1 DEF Same
<1> QED BY <1>2, <1>3, AlikeInOrder

\* So does an upload given up.
LEMMA GiveUpInOrder ==
  ASSUME Typed, Typed', InOrder, NEW u \in uploads, GiveUp(u)
  PROVE  InOrder'
<1>2. UNCHANGED <<files, issued, h, about>> /\ uploads' \subseteq uploads
  BY DEF GiveUp
<1>3. DOMAIN files' = DOMAIN files /\ \A k \in DOMAIN files : Same(files[k], files'[k])
  BY <1>2 DEF Same
<1> QED BY <1>2, <1>3, AlikeInOrder

\* With no request under way every row hangs where its path says.
LEMMA AllAttached ==
  ASSUME Typed, InOrder, \A r \in Requests : h[r] = Idle
  PROVE  \A i \in DOMAIN files : AttachedIn(files, i)
<1>1. \A r \in Requests : about[r] = {}
  BY DEF InOrder, Sound, Idle
<1> QED BY <1>1 DEF InOrder, InHand

\* and the statement of migrate finds nothing to reset.
LEMMA ResetNothing ==
  ASSUME Typed, InOrder, \A r \in Requests : h[r] = Idle, ResetParents
  PROVE  files' = files
<1>f. files = [i \in DOMAIN files |-> files[i]]
  BY DEF Typed, Table
<1>1. ASSUME NEW i \in DOMAIN files, ~IsFolder(files[i].parent)
      PROVE  [files[i] EXCEPT !.parent = Root] = files[i]
  <2>1. AttachedIn(files, i) /\ files[i] \in Rows
    BY AllAttached DEF Typed, Table
  <2>2. files[i].parent = Root
    BY <1>1, <2>1 DEF AttachedIn, IsFolder
  <2> QED BY <2>1, <2>2 DEF Rows
<1>2. files' = [i \in DOMAIN files |-> files[i]]
  BY <1>1 DEF ResetParents
<1> QED BY <1>f, <1>2

\* So a restart with no request under way changes no row.
LEMMA RestartInOrder ==
  ASSUME Typed, InOrder, Restart, spoiled' = {}
  PROVE  InOrder' /\ files' = files
<1>1. /\ h' = [r \in Requests |-> Idle] /\ about' = [r \in Requests |-> {}]
      /\ uploads' = {} /\ issued' = issued
  BY DEF Restart
<1>2. \A r \in Requests : h[r] = Idle
  BY DEF Restart, Spoil, If
<1>3. files' = files /\ \A i \in DOMAIN files : AttachedIn(files, i)
  BY <1>2, AllAttached, ResetNothing DEF Restart
<1>4. \A r \in Requests : Sound(files', issued', h'[r], about'[r])
  BY <1>1, SoundIdle
<1>5. \A r, s \in Requests : Apart(about'[r], about'[s]) /\ h'[r].at # "store"
  BY <1>1 DEF Apart, Idle
<1>6. InOrder'
  BY <1>1, <1>3, <1>4, <1>5 DEF InOrder
<1> QED BY <1>3, <1>6

\* A request that begins sound, about paths nobody else is about.
LEMMA BeginInOrder ==
  ASSUME Typed, InOrder, NEW r \in Requests, NEW paths \in SUBSET Paths, NEW why,
         NEW job, Begin(r, paths, why, job), spoiled' = {}, job.at # "store",
         (\A i \in DOMAIN files : InA(paths, files[i].path) => AttachedIn(files, i))
           => Sound(files, issued, job, paths)
  PROVE  InOrder'
<1>1. /\ h' = [h EXCEPT ![r] = job] /\ about' = [about EXCEPT ![r] = paths]
      /\ UNCHANGED <<files, issued, uploads>> /\ h[r] = Idle
  BY DEF Begin
<1>2. \A q \in Requests \ {r} : \A a \in about[q], b \in paths : ~Related(a, b)
  <2>1. If(\E q \in Requests \ {r} : \E a \in about[q], b \in paths :
                           Related(a, b), "overlap") = {}
    BY DEF Begin, Spoil
  <2> QED BY <2>1 DEF If
<1>3. /\ h'[r] = job /\ about'[r] = paths /\ about[r] = {}
      /\ \A q \in Requests \ {r} : h'[q] = h[q] /\ about'[q] = about[q]
  BY <1>1 DEF Typed, InOrder, Sound, Idle
<1>4. ASSUME NEW i \in DOMAIN files, InA(paths, files[i].path) PROVE AttachedIn(files, i)
  <2>1. files[i].path \in Seq(Names) /\ paths \subseteq Seq(Names)
    BY TableRow DEF Typed, Paths
  <2>2. ASSUME NEW q \in Requests, NEW p \in about[q], IsPrefix(p, files[i].path) PROVE FALSE
    <3>1. q # r
      BY <1>3, <2>2
    <3>2. PICK b \in paths : IsPrefix(b, files[i].path)
      BY <1>4 DEF InA
    <3>3. p \in Seq(Names)
      BY DEF Typed, Paths
    <3>4. Related(p, b)
      BY <2>1, <2>2, <3>2, <3>3, PrefixOrder
    <3> QED BY <1>2, <3>1, <3>4
  <2> QED BY <2>2 DEF InOrder, InHand
<1>5. Sound(files, issued, job, paths)
  BY <1>4
<1>6. \A q \in Requests : Sound(files', issued', h'[q], about'[q])
  BY <1>1, <1>3, <1>5 DEF InOrder
<1>7. ASSUME NEW q \in Requests, NEW s \in Requests, q # s
      PROVE  Apart(about'[q], about'[s])
  <2>1. \A x \in Requests \ {r} : Apart(about[x], paths) /\ Apart(paths, about[x])
    BY <1>2, ApartSym DEF Apart
  <2>2. Apart(about[q], about[s])
    BY <1>7 DEF InOrder
  <2> QED BY <1>3, <1>7, <2>1, <2>2
<1>8. ASSUME NEW i \in DOMAIN files'
      PROVE  (\E q \in Requests : \E p \in about'[q] : IsPrefix(p, files'[i].path)) \/ AttachedIn(files', i)
  BY <1>1, <1>3, <1>8 DEF InOrder, InHand
<1>9. \A q \in Requests : h'[q].at = "store" => q # r /\ h'[q] = h[q]
  BY <1>3
<1>10. /\ \A q, s \in Requests :
            q # s /\ h'[q].at = "store" /\ h'[s].at = "store" /\ h'[q].id = h'[s].id
              => h'[q].id \in DOMAIN files'
       /\ \A u \in uploads' :
            /\ u.id \in DOMAIN files' => files'[u.id].dir = u.row.dir
            /\ \A q \in Requests : h'[q].at = "store" /\ h'[q].id = u.id => u.id \in DOMAIN files'
  BY <1>1, <1>9 DEF InOrder
<1> QED BY <1>6, <1>7, <1>8, <1>10 DEF InOrder, InHand

-----------------------------------------------------------------------------
(***************************************************************************)
(* Requests that arrive.                                                   *)
(***************************************************************************)

\* Before a request has begun to move or erase, and after, Final is the table.
LEMMA PlainRegion ==
  ASSUME NEW fs, NEW is, NEW j, NEW A, Table(fs, is),
         j.at \notin {"rebase", "self", "relink", "erase"}
  PROVE  Region(fs, j, A) <=> \A i \in DOMAIN fs : InA(A, fs[i].path) => AttachedIn(fs, i)
<1>1. Staying(fs, j) = DOMAIN fs
  BY DEF Staying
<1>2. \A i \in DOMAIN fs : NewPath(fs, j, i) = fs[i].path /\ NewParent(fs, j, i) = fs[i].parent
  BY DEF NewPath, NewParent
<1>3. ASSUME NEW i \in DOMAIN fs PROVE AttachedIn(Final(fs, j), i) <=> AttachedIn(fs, i)
  <2>1. AttachedIn(Final(fs, j), i) <=>
           \/ NewParent(fs, j, i) = Root /\ Len(NewPath(fs, j, i)) = 1
           \/ /\ NewParent(fs, j, i) \in Staying(fs, j)
              /\ fs[NewParent(fs, j, i)].dir
              /\ Front(NewPath(fs, j, i)) = NewPath(fs, j, NewParent(fs, j, i))
    BY <1>1, AttachedFinally
  <2>2. NewParent(fs, j, i) = fs[i].parent /\ NewPath(fs, j, i) = fs[i].path
    BY <1>2
  <2>3. fs[i].parent \in DOMAIN fs => NewPath(fs, j, fs[i].parent) = fs[fs[i].parent].path
    BY <1>2
  <2> QED BY <1>1, <2>1, <2>2, <2>3 DEF AttachedIn
<1> QED BY <1>1, <1>3 DEF Region

\* PathIn of the catalog is PathOf.
LEMMA PathOfIn == \A p : PathIn(files, p) = PathOf(p)
BY DEF PathIn, PathOf

\* The top of the drive is no row.
LEMMA RootIsNoRow ==
  ASSUME NEW fs, NEW is, Table(fs, is)
  PROVE  Root \notin DOMAIN fs /\ PathIn(fs, Root) = <<>>
<1>1. Root \notin DOMAIN fs
  BY TableRow
<1> QED BY <1>1 DEF PathIn

\* A rename arrives in order.
LEMMA RenameInOrder ==
  ASSUME Typed, InOrder, NEW r \in Requests, NEW i \in issued, NEW n \in Names,
         Rename(r, i, n), spoiled' = {}
  PROVE  InOrder'
<1> DEFINE job == [Idle EXCEPT !.op = "rename", !.at = "parent", !.id = i, !.row = files[i],
                        !.dest = files[i].parent, !.name = n]
<1> DEFINE paths == {files[i].path, Append(PathOf(files[i].parent), n)}
<1>0. Table(files, issued)
  BY DEF Typed
<1>1. i \in DOMAIN files /\ Begin(r, paths, {}, job)
  BY DEF Rename
<1>2. files[i].path \in paths /\ Append(PathOf(files[i].parent), n) \in paths /\ paths \in SUBSET Paths
  BY <1>0, <1>1, RowOf, PathOfIs
<1>3. /\ job.op = "rename" /\ job.at = "parent" /\ job.id = i /\ job.row = files[i]
      /\ job.dest = files[i].parent /\ job.name = n /\ job.todo = {}
  BY DEF Idle
<1> HIDE DEF job, paths
<1>4. ASSUME \A k \in DOMAIN files : InA(paths, files[k].path) => AttachedIn(files, k)
      PROVE  Sound(files, issued, job, paths)
  <2>1. AttachedIn(files, i)
    BY <1>1, <1>2, <1>4, InItself
  <2>2. files[i].parent = Root \/ (files[i].parent \in DOMAIN files /\ files[files[i].parent].dir)
    BY <2>1 DEF AttachedIn
  <2>3. Subject(files, job, paths)
    BY <1>1, <1>2, <1>3 DEF Subject
  <2>4. Destination(files, issued, job, paths)
    BY <1>2, <1>3, <2>2, PathOfIn DEF Destination
  <2>5. List(files, job) /\ Uploading(files, job, paths)
    BY <1>3 DEF List, Uploading
  <2>6. Region(files, job, paths)
    BY <1>0, <1>3, <1>4, PlainRegion
  <2> QED BY <1>3, <2>3, <2>4, <2>5, <2>6 DEF Sound
<1> QED BY <1>1, <1>2, <1>3, <1>4, BeginInOrder

\* A move or a relocation arrives in order.
LEMMA TransferInOrder ==
  ASSUME Typed, InOrder, NEW r \in Requests, NEW op \in {"move", "relocate"}, NEW i \in issued,
         NEW p \in Named, NEW why, Transfer(r, op, i, p, why), spoiled' = {},
         op = "relocate" => p = files[i].parent
  PROVE  InOrder'
<1> DEFINE job == [Idle EXCEPT !.op = op, !.at = "dest", !.id = i, !.row = files[i], !.dest = p,
                        !.name = Last(files[i].path)]
<1> DEFINE n == Last(files[i].path)
<1> DEFINE paths == {files[i].path, Append(PathOf(p), n)}
<1>0. Table(files, issued)
  BY DEF Typed
<1>1. i \in DOMAIN files /\ Begin(r, paths, why, job)
  BY DEF Transfer
<1>n. n \in Names
  BY <1>0, <1>1, RowOf
<1>2. files[i].path \in paths /\ Append(PathOf(p), n) \in paths /\ paths \in SUBSET Paths
  BY <1>0, <1>1, <1>n, RowOf, PathOfIs
<1>3. /\ job.op = op /\ job.at = "dest" /\ job.id = i /\ job.row = files[i]
      /\ job.dest = p /\ job.name = n /\ job.todo = {}
  BY DEF Idle
<1> HIDE DEF job, paths, n
<1>4. ASSUME \A k \in DOMAIN files : InA(paths, files[k].path) => AttachedIn(files, k)
      PROVE  Sound(files, issued, job, paths)
  <2>3. Subject(files, job, paths)
    BY <1>1, <1>2, <1>3 DEF Subject
  <2>4. Destination(files, issued, job, paths)
    <3>1. p \in issued \cup {Root}
      BY DEF Named
    <3> QED BY <1>2, <1>3, <3>1, PathOfIn DEF Destination
  <2>5. List(files, job) /\ Uploading(files, job, paths)
    BY <1>3 DEF List, Uploading
  <2>6. Region(files, job, paths)
    BY <1>0, <1>3, <1>4, PlainRegion
  <2> QED BY <1>3, <2>3, <2>4, <2>5, <2>6 DEF Sound
<1> QED BY <1>1, <1>2, <1>3, <1>4, BeginInOrder

\* An unspoiled relocation names the folder the row is in.
LEMMA RelocateStays ==
  ASSUME NEW r \in Requests, NEW i, NEW p, Relocate(r, i, p), spoiled' = {}
  PROVE  p = files[i].parent
<1>1. /\ i \in DOMAIN files
      /\ Spoil(If(i \in DOMAIN files /\ p # files[i].parent, "relocate")
                 \cup If(\E q \in Requests \ {r} : \E a \in about[q],
                           b \in {files[i].path, Append(PathOf(p), Last(files[i].path))} :
                             Related(a, b), "overlap"))
  BY DEF Relocate, Transfer, Begin
<1>2. If(i \in DOMAIN files /\ p # files[i].parent, "relocate") = {}
  BY <1>1 DEF Spoil
<1> QED BY <1>1, <1>2 DEF If

\* A new folder or an upload arrives in order.
LEMMA CreateInOrder ==
  ASSUME Typed, InOrder, NEW r \in Requests, NEW op \in {"folder", "upload"}, NEW p \in Named,
         NEW n \in Names, Create(r, op, p, n), spoiled' = {}
  PROVE  InOrder'
<1> DEFINE job == [Idle EXCEPT !.op = op, !.at = "parent", !.dest = p, !.name = n]
<1> DEFINE paths == {Append(PathOf(p), n)}
<1>0. Table(files, issued)
  BY DEF Typed
<1>1. Begin(r, paths, Gone(p), job)
  BY DEF Create
<1>g. p = Root \/ IsFolder(p)
  <2>1. Gone(p) = {}
    BY <1>1 DEF Begin, Spoil
  <2> QED BY <2>1 DEF Gone, If
<1>2. Append(PathOf(p), n) \in paths /\ paths \in SUBSET Paths
  BY <1>0, PathOfIs
<1>3. job.op = op /\ job.at = "parent" /\ job.dest = p /\ job.name = n /\ job.todo = {}
  BY DEF Idle
<1> HIDE DEF job, paths
<1>4. ASSUME \A k \in DOMAIN files : InA(paths, files[k].path) => AttachedIn(files, k)
      PROVE  Sound(files, issued, job, paths)
  <2>3. Subject(files, job, paths)
    BY <1>3 DEF Subject, Moving
  <2>4. Destination(files, issued, job, paths)
    BY <1>2, <1>3, <1>g, PathOfIn DEF Destination, IsFolder
  <2>5. List(files, job) /\ Uploading(files, job, paths)
    BY <1>3 DEF List, Uploading
  <2>6. Region(files, job, paths)
    BY <1>0, <1>3, <1>4, PlainRegion
  <2> QED BY <1>3, <2>3, <2>4, <2>5, <2>6 DEF Sound
<1> QED BY <1>1, <1>2, <1>3, <1>4, BeginInOrder

\* Below a folder, or at the root, every name has its place.
LEMMA PlaceBelow ==
  ASSUME Table(files, issued), NEW p, p = Root \/ IsFolder(p), NEW n \in Names
  PROVE  Place(files, p, Append(PathOf(p), n))
<1> DEFINE q == Append(PathOf(p), n)
<1>2. q \in Paths /\ Front(q) = PathOf(p) /\ Len(q) = Len(PathOf(p)) + 1
  BY PathOfIs, AppendTo
<1> HIDE DEF q
<1>3. CASE IsFolder(p)
  BY <1>2, <1>3 DEF IsFolder, PathOf, Place, q
<1>4. CASE p = Root
  <2>1. PathOf(p) = <<>> /\ Len(PathOf(p)) = 0
    BY <1>4, RootIsNoRow, PathOfIn, EmptySeq
  <2>2. Len(q) = 1
    BY <1>2, <2>1
  <2> QED BY <1>4, <2>2 DEF Place, q
<1> QED BY <1>3, <1>4

\* An upload to a path arrives in order: the path is that of the parent and a name.
LEMMA UploadToInOrder ==
  ASSUME Typed, InOrder, NEW r \in Requests, NEW p \in Named, NEW q \in Spelled,
         UploadTo(r, p, q), spoiled' = {}
  PROVE  InOrder'
<1> DEFINE job == [Idle EXCEPT !.op = "upload", !.at = "taken", !.dest = p, !.name = Last(q),
                        !.target = q]
<1> DEFINE why == Gone(p) \cup If(q # Append(PathOf(p), Last(q)), "misfiled")
<1>0. Table(files, issued)
  BY DEF Typed
<1>1. Begin(r, {q}, why, job) /\ q # <<>>
  BY DEF UploadTo
<1>2. q \in Paths /\ Last(q) \in Names
  BY <1>1, SpelledIs
<1>3. job.op = "upload" /\ job.at = "taken" /\ job.dest = p /\ job.target = q /\ job.todo = {}
  BY DEF Idle
<1> HIDE DEF job
<1>g. (p = Root \/ IsFolder(p)) /\ q = Append(PathOf(p), Last(q))
  <2>1. why = {}
    BY <1>1 DEF Begin, Spoil
  <2>2. Gone(p) = {} /\ If(q # Append(PathOf(p), Last(q)), "misfiled") = {}
    BY <2>1
  <2> QED BY <2>2 DEF Gone, If
<1> HIDE DEF why
<1>p. Place(files, p, q)
  BY <1>0, <1>2, <1>g, PlaceBelow
<1>4. ASSUME \A k \in DOMAIN files : InA({q}, files[k].path) => AttachedIn(files, k)
      PROVE  Sound(files, issued, job, {q})
  <2>3. Subject(files, job, {q})
    BY <1>3 DEF Subject, Moving
  <2>4. Destination(files, issued, job, {q})
    BY <1>3, <1>p DEF Destination
  <2>5. List(files, job) /\ Uploading(files, job, {q})
    BY <1>3 DEF List, Uploading
  <2>6. Region(files, job, {q})
    BY <1>0, <1>3, <1>4, PlainRegion
  <2> QED BY <1>3, <2>3, <2>4, <2>5, <2>6 DEF Sound
<1>5. {q} \in SUBSET Paths
  BY <1>2
<1> QED BY <1>1, <1>3, <1>4, <1>5, BeginInOrder

\* The upload of a folder arrives in order.
LEMMA UploadDirInOrder ==
  ASSUME Typed, InOrder, NEW r \in Requests, NEW base \in Spelled, NEW n \in Names,
         UploadDir(r, base, n), spoiled' = {}
  PROVE  InOrder'
<1> DEFINE q == Append(base, n)
<1> DEFINE job == [Idle EXCEPT !.op = "dir", !.at = "parent", !.target = q, !.walk = LocalDir]
<1> DEFINE why == If(base # <<>> /\ ~\E i \in RowsAt(files, base) : files[i].dir, "misfiled")
<1>0. Table(files, issued)
  BY DEF Typed
<1>1. Begin(r, {q}, why, job)
  BY DEF UploadDir
<1>2. q \in Paths
  BY SpelledIs
<1>3. job.op = "dir" /\ job.at = "parent" /\ job.target = q /\ job.todo = {}
  BY DEF Idle
<1> HIDE DEF job
<1>w. PICK p \in DOMAIN files \cup {Root} : (p = Root \/ IsFolder(p)) /\ base = PathOf(p)
  <2>1. why = {}
    BY <1>1 DEF Begin, Spoil
  <2>2. base = <<>> \/ \E i \in RowsAt(files, base) : files[i].dir
    BY <2>1 DEF If
  <2>3. CASE base = <<>>
    BY <1>0, <2>3, RootIsNoRow DEF PathOf
  <2>4. CASE \E i \in RowsAt(files, base) : files[i].dir
    BY <2>4 DEF RowsAt, IsFolder, PathOf
  <2> QED BY <2>2, <2>3, <2>4
<1> HIDE DEF why
<1>p. Place(files, p, q)
  BY <1>0, <1>w, PlaceBelow
<1> HIDE DEF q
<1>4. ASSUME \A k \in DOMAIN files : InA({q}, files[k].path) => AttachedIn(files, k)
      PROVE  Sound(files, issued, job, {q})
  <2>3. Subject(files, job, {q})
    BY <1>3 DEF Subject, Moving
  <2>4. Destination(files, issued, job, {q})
    BY <1>3, <1>p DEF Destination
  <2>5. List(files, job) /\ Uploading(files, job, {q})
    BY <1>3 DEF List, Uploading
  <2>6. Region(files, job, {q})
    BY <1>0, <1>3, <1>4, PlainRegion
  <2> QED BY <1>3, <2>3, <2>4, <2>5, <2>6 DEF Sound
<1>5. {q} \in SUBSET Paths
  BY <1>2
<1> QED BY <1>1, <1>3, <1>4, <1>5, BeginInOrder

\* A delete arrives in order.
LEMMA DeleteInOrder ==
  ASSUME Typed, InOrder, NEW r \in Requests, NEW i \in issued, Delete(r, i), spoiled' = {}
  PROVE  InOrder'
<1> DEFINE job == [Idle EXCEPT !.op = "delete", !.at = IF files[i].dir THEN "below" ELSE "erase",
                        !.id = i, !.row = files[i]]
<1> DEFINE path == files[i].path
<1>0. Table(files, issued)
  BY DEF Typed
<1>1. i \in DOMAIN files /\ Begin(r, {path}, {}, job)
  BY DEF Delete
<1>2. {path} \in SUBSET Paths /\ files[i].dir \in BOOLEAN
  BY <1>0, <1>1, RowOf
<1>3. /\ job.op = "delete" /\ job.id = i /\ job.row = files[i] /\ job.todo = {}
      /\ job.at = IF files[i].dir THEN "below" ELSE "erase"
  BY DEF Idle
<1> HIDE DEF job
<1>4. ASSUME \A k \in DOMAIN files : InA({path}, files[k].path) => AttachedIn(files, k)
      PROVE  Sound(files, issued, job, {path})
  <2>3. Subject(files, job, {path})
    BY <1>1, <1>3 DEF Subject
  <2>4. Destination(files, issued, job, {path})
    BY <1>3 DEF Destination, Moving
  <2>5. List(files, job) /\ Uploading(files, job, {path})
    BY <1>3 DEF List, Uploading, Moving
  <2>6. Region(files, job, {path})
    <3>1. CASE files[i].dir
      BY <1>0, <1>3, <1>4, <3>1, PlainRegion
    <3>2. CASE ~files[i].dir
      <4>1. job.at = "erase" /\ Pending(job) = {i}
        BY <1>3, <3>2 DEF Pending
      <4>2. Staying(files, job) = DOMAIN files \ {i}
        BY <4>1 DEF Staying
      <4>3. ASSUME NEW k \in DOMAIN files \ {i}, InA({path}, files[k].path)
            PROVE  AttachedIn(Final(files, job), k)
        <5>1. AttachedIn(files, k)
          BY <1>4, <4>3
        <5>2. /\ NewParent(files, job, k) = files[k].parent /\ NewPath(files, job, k) = files[k].path
              /\ files[k].parent \in DOMAIN files =>
                   NewPath(files, job, files[k].parent) = files[files[k].parent].path
          BY <4>1 DEF NewParent, NewPath
        <5>3. files[k].parent # i \/ files[k].parent = Root
          BY <3>2, <5>1 DEF AttachedIn
        <5>4. \/ NewParent(files, job, k) = Root /\ Len(NewPath(files, job, k)) = 1
              \/ /\ NewParent(files, job, k) \in Staying(files, job)
                 /\ files[NewParent(files, job, k)].dir
                 /\ Front(NewPath(files, job, k)) = NewPath(files, job, NewParent(files, job, k))
          BY <3>2, <4>2, <5>1, <5>2, <5>3 DEF AttachedIn
        <5> QED BY <1>0, <4>2, <5>4, AttachedFinally
      <4> QED BY <4>2, <4>3 DEF Region
    <3> QED BY <3>1, <3>2
  <2> QED BY <1>3, <2>3, <2>4, <2>5, <2>6 DEF Sound
<1>5. job.at # "store"
  BY <1>3
<1> QED BY <1>1, <1>2, <1>4, <1>5, BeginInOrder

-----------------------------------------------------------------------------
(***************************************************************************)
(* The turns.                                                              *)
(***************************************************************************)

\* What InOrder says of request r.
LEMMA Mine ==
  ASSUME Typed, InOrder, NEW r \in Requests
  PROVE  /\ Table(files, issued) /\ about[r] \in SUBSET Paths
         /\ h[r] \in Jobs /\ Way(h[r]) /\ Has(h[r], issued) /\ JobOK(h[r], issued)
         /\ Subject(files, h[r], about[r]) /\ Destination(files, issued, h[r], about[r])
         /\ List(files, h[r]) /\ Uploading(files, h[r], about[r])
         /\ Region(files, h[r], about[r])
         /\ Root \notin DOMAIN files
BY TypedParts, RootIsNoRow DEF Typed, InOrder, Sound

\* Where nothing changes the change is confined.
LEMMA StillConfined ==
  ASSUME NEW B, NEW is, NEW fs, Table(fs, is)
  PROVE  Confined(B, is, fs, fs, Root)
BY RootIsNoRow DEF Confined, Same

\* A request that goes on, and what is to be shown of its step.
LEMMA GoTurn ==
  ASSUME Typed, NEW r \in Requests, NEW j, NEW k, h' = [h EXCEPT ![r] = j], about' = about,
         Confined(about[r], issued, files, files', k),
         k \in DOMAIN files' /\ k \notin DOMAIN files =>
           k \notin issued \/ (h[r].at = "store" /\ k = h[r].id),
         Sound(files', issued', j, about[r]), issued \subseteq issued',
         j.at = "store" => files' = files /\ (j.id \in DOMAIN files \/ j.id \notin issued),
         \A u \in uploads' : u \in uploads \/
            (u.id = h[r].id /\ h[r].at = "store" /\ u.id \in DOMAIN files' /\ files'[u.id].dir = u.row.dir)
  PROVE  Turn(r, k)
<1>1. h'[r] = j /\ \A q \in Requests \ {r} : h'[q] = h[q]
  BY DEF Typed
<1> QED BY <1>1 DEF Turn

\* A request that answers, and what is to be shown of its step.
LEMMA AnswerTurn ==
  ASSUME Typed, NEW r \in Requests, NEW k, Answer(r),
         Confined(about[r], issued, files, files', k),
         k \in DOMAIN files' /\ k \notin DOMAIN files =>
           k \notin issued \/ (h[r].at = "store" /\ k = h[r].id),
         issued \subseteq issued',
         \A i \in DOMAIN files' : InA(about[r], files'[i].path) => AttachedIn(files', i),
         \A u \in uploads' : u \in uploads \/
            (u.id = h[r].id /\ h[r].at = "store" /\ u.id \in DOMAIN files' /\ files'[u.id].dir = u.row.dir)
  PROVE  Turn(r, k)
<1>1. /\ h'[r] = Idle /\ about'[r] = {}
      /\ \A q \in Requests \ {r} : h'[q] = h[q] /\ about'[q] = about[q]
  BY DEF Answer, Typed
<1>2. Sound(files', issued', h'[r], about'[r]) /\ h'[r].at # "store"
  <2>1. Sound(files', issued', Idle, {}) /\ Idle.at # "store"
    BY SoundIdle DEF Idle
  <2> QED BY <1>1, <2>1
<1> QED BY <1>1, <1>2 DEF Turn

\* The two, for a step that leaves the rows alone.
LEMMA QuietTurn ==
  ASSUME Typed, InOrder, NEW r \in Requests, UNCHANGED <<files, uploads>>,
         issued \subseteq issued',
         \/ /\ about' = about
            /\ \E j : /\ h' = [h EXCEPT ![r] = j] /\ Sound(files, issued', j, about[r])
                      /\ j.at = "store" => j.id \in DOMAIN files \/ j.id \notin issued
         \/ /\ Answer(r)
            /\ h[r].at \notin {"rebase", "self", "relink", "erase"}
  PROVE  Turn(r, Root)
<1>1. Confined(about[r], issued, files, files', Root) /\ Root \notin DOMAIN files'
  BY Mine, StillConfined
<1>2. CASE /\ about' = about
           /\ \E j : /\ h' = [h EXCEPT ![r] = j] /\ Sound(files, issued', j, about[r])
                     /\ j.at = "store" => j.id \in DOMAIN files \/ j.id \notin issued
  <2>1. PICK j : /\ h' = [h EXCEPT ![r] = j] /\ Sound(files, issued', j, about[r])
                 /\ j.at = "store" => j.id \in DOMAIN files \/ j.id \notin issued
    BY <1>2
  <2>2. Sound(files', issued', j, about[r])
    BY <2>1
  <2> QED BY <1>1, <1>2, <2>1, <2>2, GoTurn
<1>3. CASE Answer(r) /\ h[r].at \notin {"rebase", "self", "relink", "erase"}
  <2>1. \A i \in DOMAIN files : InA(about[r], files[i].path) => AttachedIn(files, i)
    BY <1>3, Mine, PlainRegion
  <2> QED BY <1>1, <1>3, <2>1, AnswerTurn
<1> QED BY <1>2, <1>3

\* ReadParent is a turn.
LEMMA ReadParentTurn ==
  ASSUME Typed, InOrder, NEW r \in Requests, ReadParent(r)
  PROVE  Turn(r, Root)
<1> DEFINE A == about[r]
<1> DEFINE up == RowsAt(files, Front(h[r].target))
<1> DEFINE d == IF up = {} THEN Root ELSE CHOOSE i \in up : TRUE
<1> DEFINE t == Append(PathOf(h[r].dest), h[r].name)
<1> DEFINE j == IF h[r].op = "dir" THEN [h[r] EXCEPT !.at = "insert", !.dest = d]
                ELSE [h[r] EXCEPT !.at = "taken", !.target = t]
<1>1. /\ h[r].at = "parent" /\ h' = [h EXCEPT ![r] = j]
      /\ UNCHANGED <<files, issued, uploads, made, about, spoiled>>
  BY DEF ReadParent
<1>2. /\ Table(files, issued) /\ A \in SUBSET Paths /\ h[r] \in Jobs
      /\ Way(h[r]) /\ Has(h[r], issued)
      /\ Subject(files, h[r], A) /\ Destination(files, issued, h[r], A)
      /\ List(files, h[r]) /\ Uploading(files, h[r], A) /\ Region(files, h[r], A)
      /\ Root \notin DOMAIN files
  BY Mine
<1>3. h[r].op = "dir" => h[r].target \in A /\ Place(files, d, h[r].target)
  <2> SUFFICES ASSUME h[r].op = "dir" PROVE h[r].target \in A /\ Place(files, d, h[r].target)
    OBVIOUS
  <2>1. h[r].target \in A /\ h[r].target \in Paths
    BY <1>1, <1>2 DEF Destination
  <2>2. PICK p \in DOMAIN files \cup {Root} : Place(files, p, h[r].target)
    BY <1>1, <1>2 DEF Destination
  <2>3. CASE p = Root /\ Len(h[r].target) = 1
    <3>1. Len(Front(h[r].target)) = 0 /\ Front(h[r].target) \in Seq(Names)
      <4> DEFINE g == h[r].target
      <4>1. g \in Paths /\ Len(g) = 1
        BY <2>1, <2>3
      <4> HIDE DEF g
      <4>3. Len(Front(g)) = Len(g) - 1 /\ Front(g) \in Seq(Names)
        BY <4>1, FrontOf
      <4>2. Len(Front(g)) = 0 /\ Front(g) \in Seq(Names)
        BY <4>1, <4>3
      <4> QED BY <4>2 DEF g
    <3>2. Front(h[r].target) = <<>>
      BY <3>1, EmptySeq
    <3>3. up = {}
      <4>1. \A i \in DOMAIN files : files[i].path # <<>>
        BY <1>2, TableRow DEF Paths
      <4> QED BY <3>2, <4>1 DEF RowsAt
    <3> QED BY <2>1, <2>3, <3>3 DEF Place
  <2>4. CASE p \in DOMAIN files /\ files[p].dir /\ Front(h[r].target) = files[p].path
    <3>1. up = {p}
      BY <1>2, <2>4 DEF RowsAt, Table
    <3>2. d = p
      BY <3>1
    <3> QED BY <2>1, <2>2, <3>2
  <2> QED BY <2>2, <2>3, <2>4 DEF Place
<1>4. h[r].op # "dir" => t \in A /\ Place(files, h[r].dest, t)
  <2> SUFFICES ASSUME h[r].op # "dir" PROVE t \in A /\ Place(files, h[r].dest, t)
    OBVIOUS
  <2>1. /\ h[r].dest = Root \/ (h[r].dest \in DOMAIN files /\ files[h[r].dest].dir)
        /\ Append(PathIn(files, h[r].dest), h[r].name) \in A /\ h[r].name \in Names
    BY <1>1, <1>2 DEF Destination, Has
  <2>2. t \in A /\ PathOf(h[r].dest) \in Seq(Names)
    BY <1>2, <2>1, PathOfIn, PathOfIs
  <2>3. Front(t) = PathOf(h[r].dest) /\ Len(t) = Len(PathOf(h[r].dest)) + 1
    BY <2>1, <2>2, AppendTo
  <2> HIDE DEF t
  <2>4. CASE h[r].dest = Root
    <3>1. Len(PathOf(h[r].dest)) = 0
      BY <1>2, <2>4, EmptySeq DEF PathOf
    <3>2. Len(t) = 1
      BY <2>3, <3>1
    <3> QED BY <2>2, <2>4, <3>2 DEF Place
  <2>5. CASE h[r].dest \in DOMAIN files /\ files[h[r].dest].dir
    BY <2>2, <2>3, <2>5 DEF Place, PathOf
  <2> QED BY <2>1, <2>4, <2>5
<1> HIDE DEF d, t
<1>5. /\ h[r].op = "dir" => j.at = "insert" /\ j.target = h[r].target /\ j.dest = d
      /\ h[r].op # "dir" => j.at = "taken" /\ j.target = t /\ j.dest = h[r].dest
      /\ j.op = h[r].op /\ j.row = h[r].row /\ j.id = h[r].id /\ j.todo = h[r].todo
  <2>1. CASE h[r].op = "dir"
    BY <1>2, <2>1 DEF Jobs
  <2>2. CASE h[r].op # "dir"
    BY <1>2, <2>2 DEF Jobs
  <2> QED BY <2>1, <2>2
<1> HIDE DEF j
<1>6. Subject(files, j, A)
  BY <1>1, <1>2, <1>5 DEF Subject, Moving
<1>7. Destination(files, issued, j, A)
  BY <1>1, <1>2, <1>3, <1>4, <1>5 DEF Destination, Way
<1>8. List(files, j) /\ Uploading(files, j, A)
  BY <1>1, <1>2, <1>5 DEF List, Uploading
<1>9. Region(files, j, A)
  BY <1>1, <1>2, <1>5, PlainRegion
<1>10. Sound(files, issued', j, A) /\ j.at # "store"
  BY <1>1, <1>5, <1>6, <1>7, <1>8, <1>9 DEF Sound
<1> QED BY <1>1, <1>10, QuietTurn

\* ReadDest is a turn.
LEMMA ReadDestTurn ==
  ASSUME Typed, InOrder, NEW r \in Requests, ReadDest(r)
  PROVE  Turn(r, Root)
<1> DEFINE A == about[r]
<1> DEFINE t == Append(PathOf(h[r].dest), h[r].name)
<1> DEFINE j == [h[r] EXCEPT !.at = "taken", !.target = t]
<1>1. h[r].at = "dest" /\ UNCHANGED <<files, issued, uploads, made, spoiled>>
  BY DEF ReadDest
<1>2. /\ Table(files, issued) /\ A \in SUBSET Paths /\ h[r] \in Jobs
      /\ Way(h[r]) /\ Has(h[r], issued)
      /\ Subject(files, h[r], A) /\ Destination(files, issued, h[r], A)
      /\ List(files, h[r]) /\ Uploading(files, h[r], A) /\ Region(files, h[r], A)
      /\ Root \notin DOMAIN files
  BY Mine
<1>3. CASE Answer(r)
  BY <1>1, <1>3, QuietTurn
<1>4. CASE /\ h[r].dest = Root \/ IsFolder(h[r].dest)
           /\ UNCHANGED about
           /\ h' = [h EXCEPT ![r].at = "taken", ![r].target = t]
  <2>1. /\ h[r].dest = Root \/ (h[r].dest \in DOMAIN files /\ files[h[r].dest].dir)
        /\ h[r].name \in Names
    BY <1>1, <1>2, <1>4 DEF Has, Way, IsFolder
  <2>2. t \in A /\ PathOf(h[r].dest) \in Seq(Names)
    BY <1>1, <1>2, <2>1, PathOfIn, PathOfIs DEF Destination
  <2>3. Front(t) = PathOf(h[r].dest) /\ Len(t) = Len(PathOf(h[r].dest)) + 1
    BY <2>1, <2>2, AppendTo
  <2> HIDE DEF t
  <2>6. Place(files, h[r].dest, t)
    <3>4. CASE h[r].dest = Root
      <4>1. Len(PathOf(h[r].dest)) = 0
        BY <1>2, <3>4, EmptySeq DEF PathOf
      <4>2. Len(t) = 1
        BY <2>3, <4>1
      <4> QED BY <3>4, <4>2 DEF Place
    <3>5. CASE h[r].dest \in DOMAIN files /\ files[h[r].dest].dir
      BY <2>2, <2>3, <3>5 DEF Place, PathOf
    <3> QED BY <2>1, <3>4, <3>5
  <2>7. /\ j.at = "taken" /\ j.target = t /\ j.dest = h[r].dest
        /\ j.op = h[r].op /\ j.row = h[r].row /\ j.id = h[r].id /\ j.todo = h[r].todo
    BY <1>2 DEF Jobs
  <2>8. h' = [h EXCEPT ![r] = j]
    BY <1>4
  <2> HIDE DEF j
  <2>9. Subject(files, j, A)
    BY <1>1, <1>2, <2>7 DEF Subject, Moving
  <2>10. Destination(files, issued, j, A)
    BY <1>1, <1>2, <2>2, <2>6, <2>7 DEF Destination
  <2>11. List(files, j) /\ Uploading(files, j, A)
    BY <1>1, <1>2, <2>7 DEF List, Uploading
  <2>12. Region(files, j, A)
    BY <1>1, <1>2, <2>7, PlainRegion
  <2>13. Sound(files, issued', j, A) /\ j.at # "store"
    BY <1>1, <2>7, <2>9, <2>10, <2>11, <2>12 DEF Sound
  <2> QED BY <1>1, <1>4, <2>8, <2>13, QuietTurn
<1> QED BY <1>3, <1>4 DEF ReadDest

\* A folder that does not go into itself is not above the folder it goes to.
LEMMA NotInto ==
  ASSUME NEW fs, NEW is, Table(fs, is), NEW o \in Paths, NEW w \in Paths, NEW p \in DOMAIN fs,
         Front(w) = fs[p].path, ~IsStrictPrefix(o, w)
  PROVE  ~IsPrefix(o, fs[p].path)
<1> SUFFICES ASSUME IsPrefix(o, fs[p].path) PROVE FALSE
  OBVIOUS
<1>1. o \in Seq(Names) /\ w \in Seq(Names) /\ fs[p].path \in Seq(Names)
  BY TableRow DEF Paths
<1>2. IsPrefix(fs[p].path, w) /\ Len(fs[p].path) = Len(w) - 1 /\ Len(w) \in Nat
  BY FrontOf
<1>3. IsPrefix(o, w)
  BY <1>1, <1>2, PrefixOrder
<1>4. o = w
  BY <1>3 DEF IsStrictPrefix
<1>5. Len(o) <= Len(fs[p].path)
  BY <1>1, PrefixIs
<1> QED BY <1>2, <1>4, <1>5

\* The list is complete, and every row it names is on its way: what a request is
\* about hangs together in what the request will make of it.
LEMMA SetOff ==
  ASSUME NEW A \in SUBSET Paths, NEW is, NEW fs, NEW j, Table(fs, is), JobOK(j, is),
         Subject(fs, j, A), Destination(fs, is, j, A), List(fs, j),
         j.at \in {"rebase", "self", "erase"},
         \A i \in DOMAIN fs : InA(A, fs[i].path) => AttachedIn(fs, i),
         \/ ~j.row.dir /\ Pending(j) = {j.id}
         \/ /\ j.row.dir
            /\ \A i \in DOMAIN fs : IsPrefix(j.row.path, fs[i].path) => i \in Pending(j)
  PROVE  Region(fs, j, A)
<1> SUFFICES ASSUME NEW i \in Staying(fs, j), InA(A, fs[i].path)
             PROVE  AttachedIn(Final(fs, j), i)
  BY DEF Region
<1>a. /\ j.id \in DOMAIN fs /\ fs[j.id].path = j.row.path /\ fs[j.id].dir = j.row.dir
      /\ j.row.path \in A /\ j.row.path \in Paths
  BY DEF JobOK, Way, Subject, Moving
<1>b. i \in DOMAIN fs /\ fs[i].path \in Paths /\ fs[i].path \in Seq(Names) /\ AttachedIn(fs, i)
  BY TableRow DEF Staying
<1>c. \A k \in DOMAIN fs : k \in Pending(j) => IsPrefix(j.row.path, fs[k].path)
  <2>1. \A t \in j.todo : IsPrefix(j.row.path, fs[t[1]].path)
    BY DEF List, IsStrictPrefix
  <2>2. IsPrefix(j.row.path, j.row.path)
    BY <1>a, PrefixOrder DEF Paths
  <2> QED BY <1>a, <2>1, <2>2 DEF Pending
<1>1. CASE i \notin Pending(j)
  <2>1. NewPath(fs, j, i) = fs[i].path /\ NewParent(fs, j, i) = fs[i].parent
    BY <1>1 DEF NewPath, NewParent, Pending
  <2>2. CASE fs[i].parent = Root /\ Len(fs[i].path) = 1
    BY <2>1, <2>2, AttachedFinally
  <2>3. CASE /\ fs[i].parent \in DOMAIN fs /\ fs[fs[i].parent].dir
             /\ Front(fs[i].path) = fs[fs[i].parent].path
    <3> DEFINE p == fs[i].parent
    <3>1. p \in DOMAIN fs /\ fs[p].dir /\ Front(fs[i].path) = fs[p].path
      BY <2>3
    <3> HIDE DEF p
    <3>2. p \notin Pending(j)
      <4>1. CASE ~j.row.dir /\ Pending(j) = {j.id}
        BY <1>a, <3>1, <4>1
      <4>2. CASE /\ j.row.dir
                 /\ \A k \in DOMAIN fs : IsPrefix(j.row.path, fs[k].path) => k \in Pending(j)
        <5>1. ~IsPrefix(j.row.path, fs[i].path)
          BY <1>1, <1>b, <4>2
        <5>2. IsPrefix(fs[p].path, fs[i].path) /\ fs[p].path \in Seq(Names)
          BY <1>b, <3>1, FrontOf
        <5>3. j.row.path \in Seq(Names)
          BY <1>a DEF Paths
        <5>4. ~IsPrefix(j.row.path, fs[p].path)
          BY <1>b, <5>1, <5>2, <5>3, PrefixOrder
        <5> QED BY <1>c, <3>1, <5>4
      <4> QED BY <4>1, <4>2
    <3>3. p \in Staying(fs, j) /\ NewPath(fs, j, p) = fs[p].path
      BY <3>1, <3>2 DEF Staying, NewPath
    <3>4. /\ NewParent(fs, j, i) = p /\ p \in Staying(fs, j) /\ fs[p].dir
          /\ Front(NewPath(fs, j, i)) = NewPath(fs, j, p)
      BY <2>1, <3>1, <3>3 DEF p
    <3> QED BY <3>4, AttachedFinally
  <2> QED BY <1>b, <2>2, <2>3 DEF AttachedIn
<1>2. CASE i \in Pending(j)
  <2>0. j.at \in {"rebase", "self"} /\ Staying(fs, j) = DOMAIN fs
    BY <1>2 DEF Staying
  <2>p. j.target \in Paths /\ j.target \in A /\ Place(fs, j.dest, j.target)
    BY <2>0 DEF JobOK, Has, Destination
  <2>1. CASE i = j.id
    <3>1. NewParent(fs, j, i) = j.dest /\ NewPath(fs, j, i) = j.target
      BY <1>2, <1>b, <2>0, <2>1, NewPathIs DEF NewParent
    <3>2. CASE j.dest = Root /\ Len(j.target) = 1
      BY <3>1, <3>2, AttachedFinally
    <3>3. CASE j.dest \in DOMAIN fs /\ fs[j.dest].dir /\ Front(j.target) = fs[j.dest].path
      <4>1. j.dest \notin Pending(j)
        <5>1. CASE ~j.row.dir /\ Pending(j) = {j.id}
          BY <1>a, <3>3, <5>1
        <5>2. CASE j.row.dir
          <6>1. ~IsStrictPrefix(j.row.path, j.target)
            BY <2>0, <5>2 DEF List, JobOK, Way, Moving
          <6>2. ~IsPrefix(j.row.path, fs[j.dest].path)
            BY <1>a, <2>p, <3>3, <6>1, NotInto
          <6> QED BY <1>c, <3>3, <6>2
        <5> QED BY <5>1, <5>2
      <4>2. NewPath(fs, j, j.dest) = fs[j.dest].path
        BY <4>1 DEF NewPath
      <4>3. /\ NewParent(fs, j, i) = j.dest /\ j.dest \in Staying(fs, j) /\ fs[j.dest].dir
            /\ Front(NewPath(fs, j, i)) = NewPath(fs, j, j.dest)
        BY <2>0, <3>1, <3>3, <4>2
      <4> QED BY <4>3, AttachedFinally
    <3> QED BY <2>p, <3>2, <3>3 DEF Place
  <2>2. CASE i # j.id
    <3>1. /\ NewPath(fs, j, i) = Swap(j.row.path, j.target, fs[i].path)
          /\ IsStrictPrefix(j.row.path, fs[i].path)
          /\ Front(NewPath(fs, j, i)) = Swap(j.row.path, j.target, Front(fs[i].path))
      BY <1>2, <1>b, <2>0, <2>2, NewPathIs
    <3>2. NewParent(fs, j, i) = fs[i].parent
      BY <2>2 DEF NewParent
    <3>3. j.row.path \in Seq(Names) /\ Len(j.row.path) \in Nat /\ Len(j.row.path) > 0
      BY <1>a, FrontOf DEF Paths
    <3>4. IsPrefix(j.row.path, Front(fs[i].path)) /\ Len(j.row.path) < Len(fs[i].path)
      BY <1>b, <3>1, <3>3, PrefixFront DEF IsStrictPrefix
    <3>5. Len(fs[i].path) # 1
      BY <1>b, <3>3, <3>4, FrontOf
    <3> DEFINE p == fs[i].parent
    <3>6. p \in DOMAIN fs /\ fs[p].dir /\ Front(fs[i].path) = fs[p].path
      BY <1>b, <3>5 DEF AttachedIn
    <3> HIDE DEF p
    <3>7. p \in Pending(j)
      <4>1. CASE ~j.row.dir /\ Pending(j) = {j.id}
        BY <1>2, <2>2, <4>1
      <4>2. CASE /\ j.row.dir
                 /\ \A k \in DOMAIN fs : IsPrefix(j.row.path, fs[k].path) => k \in Pending(j)
        BY <3>4, <3>6, <4>2
      <4> QED BY <4>1, <4>2
    <3>8. NewPath(fs, j, p) = Swap(j.row.path, j.target, fs[p].path)
      BY <2>0, <3>7 DEF NewPath
    <3>9. /\ NewParent(fs, j, i) = p /\ p \in Staying(fs, j) /\ fs[p].dir
          /\ Front(NewPath(fs, j, i)) = NewPath(fs, j, p)
      BY <2>0, <3>1, <3>2, <3>6, <3>8 DEF p
    <3> QED BY <3>9, AttachedFinally
  <2> QED BY <2>1, <2>2
<1> QED BY <1>1, <1>2

\* A folder that is called something else where it is does not go into itself.
LEMMA SameDepth ==
  ASSUME NEW fs, NEW is, Table(fs, is), NEW i \in DOMAIN fs, AttachedIn(fs, i),
         NEW w \in Paths, Place(fs, fs[i].parent, w)
  PROVE  ~IsStrictPrefix(fs[i].path, w)
<1>1. fs[i].path \in Paths /\ fs[i].path \in Seq(Names) /\ w \in Seq(Names) /\ i # Root
      /\ Root \notin DOMAIN fs
  BY TableRow, RootIsNoRow DEF Paths
<1>2. Len(fs[i].path) \in Nat /\ Len(fs[i].path) > 0 /\ Len(Front(fs[i].path)) = Len(fs[i].path) - 1
  BY <1>1, FrontOf
<1>3. Len(w) \in Nat /\ Len(w) > 0 /\ Len(Front(w)) = Len(w) - 1
  BY FrontOf
<1>4. Len(w) <= Len(fs[i].path)
  <2>1. CASE fs[i].parent = Root
    BY <1>1, <1>2, <2>1 DEF Place
  <2>2. CASE fs[i].parent # Root
    <3>1. Front(w) = fs[fs[i].parent].path /\ Front(fs[i].path) = fs[fs[i].parent].path
      BY <2>2 DEF Place, AttachedIn
    <3> QED BY <1>2, <1>3, <3>1
  <2> QED BY <2>1, <2>2
<1> QED BY <1>1, <1>4, PrefixOrder DEF IsStrictPrefix

\* LookUp is a turn: the target is free and the rows move there.
LEMMA LookUpTurn ==
  ASSUME Typed, Typed', InOrder, NEW r \in Requests, LookUp(r)
  PROVE  Turn(r, Root)
<1> DEFINE A == about[r]
<1> DEFINE st == CASE h[r].op = "folder"  -> "insert"
                   [] h[r].op # "folder" /\ h[r].row.dir -> "below"
                   [] OTHER -> "self"
<1> DEFINE j == [h[r] EXCEPT !.at = st]
<1>1. h[r].at = "taken" /\ h[r].op # "upload" /\ UNCHANGED <<files, issued, uploads>>
  BY DEF LookUp
<1>2. /\ Table(files, issued) /\ A \in SUBSET Paths /\ h[r] \in Jobs
      /\ Way(h[r]) /\ Has(h[r], issued)
      /\ Subject(files, h[r], A) /\ Destination(files, issued, h[r], A)
      /\ List(files, h[r]) /\ Uploading(files, h[r], A) /\ Region(files, h[r], A)
      /\ Root \notin DOMAIN files
  BY Mine
<1>3. CASE Answer(r)
  BY <1>1, <1>3, QuietTurn
<1>4. CASE ~IntoItself(r) /\ Goto(r, st) /\ UNCHANGED about
  <2>1. /\ st = "insert" <=> h[r].op = "folder"
        /\ st = "below" <=> h[r].op # "folder" /\ h[r].row.dir
        /\ st \in {"insert", "below", "self"}
    OBVIOUS
  <2> HIDE DEF st
  <2>2. /\ j.at = st /\ j.target = h[r].target /\ j.dest = h[r].dest
        /\ j.op = h[r].op /\ j.row = h[r].row /\ j.id = h[r].id /\ j.todo = h[r].todo
    BY <1>2 DEF Jobs
  <2>3. h' = [h EXCEPT ![r] = j]
    BY <1>4 DEF Goto
  <2> HIDE DEF j
  <2>4. JobOK(j, issued)
    <3>1. h'[r] = j /\ JobOK(h'[r], issued')
      BY <2>3 DEF Typed
    <3> QED BY <1>1, <3>1
  <2>5. h[r].op \in {"rename", "move", "relocate", "folder"}
    BY <1>1, <1>2 DEF Way
  <2>6. Subject(files, j, A)
    BY <1>1, <1>2, <2>1, <2>2, <2>5 DEF Subject, Moving
  <2>7. Destination(files, issued, j, A)
    BY <1>1, <1>2, <2>1, <2>2, <2>5 DEF Destination
  <2>8. Uploading(files, j, A)
    BY <1>1, <1>2, <2>1, <2>2, <2>5 DEF Uploading
  <2>9. \A i \in DOMAIN files : InA(A, files[i].path) => AttachedIn(files, i)
    BY <1>1, <1>2, PlainRegion
  <2>10. ASSUME h[r].op # "folder", h[r].row.dir
         PROVE  ~IsStrictPrefix(h[r].row.path, h[r].target)
    <3>1. CASE h[r].op \in {"move", "relocate"}
      BY <1>4, <2>10, <3>1 DEF IntoItself
    <3>2. CASE h[r].op = "rename"
      <4>1. /\ h[r].id \in DOMAIN files /\ files[h[r].id].path = h[r].row.path
            /\ files[h[r].id].parent = h[r].row.parent /\ h[r].row.path \in A
        BY <1>1, <1>2, <3>2 DEF Subject, Moving
      <4>2. InA(A, h[r].row.path)
        BY <1>2, <4>1, InItself
      <4>3. AttachedIn(files, h[r].id)
        BY <2>9, <4>1, <4>2
      <4>4. h[r].target \in Paths /\ Place(files, files[h[r].id].parent, h[r].target)
        BY <1>1, <1>2, <3>2, <4>1 DEF Has, Destination
      <4>5. ~IsStrictPrefix(files[h[r].id].path, h[r].target)
        BY <1>2, <4>1, <4>3, <4>4, SameDepth
      <4> QED BY <4>1, <4>5
    <3> QED BY <2>5, <2>10, <3>1, <3>2
  <2>11. h[r].todo = {}
    BY <1>1, <1>2 DEF List
  <2>12. List(files, j)
    BY <2>1, <2>2, <2>5, <2>10, <2>11 DEF List, Moving
  <2>13. Region(files, j, A)
    <3>1. CASE st = "self"
      <4>1. ~j.row.dir /\ Pending(j) = {j.id} /\ j.at \in {"rebase", "self", "erase"}
        BY <2>1, <2>2, <2>11, <3>1 DEF Pending
      <4> QED BY <1>2, <2>4, <2>6, <2>7, <2>9, <2>12, <4>1, SetOff
    <3>2. CASE st # "self"
      BY <1>2, <2>1, <2>2, <2>9, <3>2, PlainRegion
    <3> QED BY <3>1, <3>2
  <2>14. Sound(files, issued', j, A) /\ j.at # "store"
    BY <1>1, <2>1, <2>2, <2>6, <2>7, <2>8, <2>12, <2>13 DEF Sound
  <2> QED BY <1>1, <1>4, <2>3, <2>14, QuietTurn
<1> QED BY <1>3, <1>4 DEF LookUp

\* ListBelow is a turn: the list is complete.
LEMMA ListBelowTurn ==
  ASSUME Typed, Typed', InOrder, NEW r \in Requests, ListBelow(r)
  PROVE  Turn(r, Root)
<1> DEFINE A == about[r]
<1> DEFINE old == h[r].row.path
<1> DEFINE todo == {<<i, Swap(old, h[r].target, files[i].path)>> : i \in Under(old)}
<1> DEFINE st == IF h[r].op = "delete" THEN "erase" ELSE "rebase"
<1> DEFINE j == [h[r] EXCEPT !.at = st, !.todo = todo]
<1>1. h[r].at = "below" /\ h' = [h EXCEPT ![r] = j]
      /\ UNCHANGED <<files, issued, uploads, about>>
  BY DEF ListBelow, Swap
<1>2. /\ Table(files, issued) /\ A \in SUBSET Paths /\ h[r] \in Jobs
      /\ Way(h[r]) /\ Has(h[r], issued)
      /\ Subject(files, h[r], A) /\ Destination(files, issued, h[r], A)
      /\ List(files, h[r]) /\ Uploading(files, h[r], A) /\ Region(files, h[r], A)
      /\ Root \notin DOMAIN files
  BY Mine
<1>3. /\ h[r].op \in {"rename", "move", "relocate", "delete"} /\ h[r].row.dir
      /\ h[r].row \in Rows
  BY <1>1, <1>2 DEF Way, List, Has
<1>4. /\ j.at = IF h[r].op = "delete" THEN "erase" ELSE "rebase"
      /\ j.target = h[r].target /\ j.dest = h[r].dest /\ j.todo = todo
      /\ j.op = h[r].op /\ j.row = h[r].row /\ j.id = h[r].id
  BY <1>2 DEF Jobs
<1> HIDE DEF j
<1>5. JobOK(j, issued)
  <2>1. h'[r] = j /\ JobOK(h'[r], issued')
    BY <1>1 DEF Typed
  <2> QED BY <1>1, <2>1
<1>6. /\ h[r].id \in DOMAIN files /\ files[h[r].id].path = old
  BY <1>1, <1>2, <1>3 DEF Subject, Moving
<1>7. \A t \in todo : /\ t[1] \in DOMAIN files /\ t[1] # h[r].id
                      /\ IsStrictPrefix(old, files[t[1]].path)
                      /\ t[2] = Swap(old, h[r].target, files[t[1]].path)
  BY <1>6 DEF Under, IsStrictPrefix
<1>8. \A t, s \in todo : t[1] = s[1] => t = s
  OBVIOUS
<1>9. ASSUME NEW i \in Under(old) PROVE \E t \in todo : t[1] = i
  <2> DEFINE t == <<i, Swap(old, h[r].target, files[i].path)>>
  <2>1. t \in todo /\ t[1] = i
    OBVIOUS
  <2> QED BY <2>1
<1> HIDE DEF todo
<1>10. Subject(files, j, A)
  BY <1>1, <1>2, <1>3, <1>4 DEF Subject, Moving
<1>11. Destination(files, issued, j, A)
  BY <1>1, <1>2, <1>3, <1>4 DEF Destination, Moving
<1>12. List(files, j)
  BY <1>1, <1>2, <1>3, <1>4, <1>7, <1>8 DEF List, Moving
<1>13. Uploading(files, j, A)
  BY <1>1, <1>2, <1>3, <1>4 DEF Uploading
<1>14. ASSUME NEW i \in DOMAIN files, IsPrefix(j.row.path, files[i].path) PROVE i \in Pending(j)
  <2>1. CASE files[i].path = old
    <3>1. i = h[r].id
      BY <1>2, <1>6, <2>1 DEF Table
    <3> QED BY <1>4, <3>1 DEF Pending
  <2>2. CASE files[i].path # old
    <3>1. i \in Under(old)
      BY <1>4, <1>14, <2>2 DEF Under, IsStrictPrefix
    <3> QED BY <1>4, <1>9, <3>1 DEF Pending
  <2> QED BY <2>1, <2>2
<1>15. \A i \in DOMAIN files : InA(A, files[i].path) => AttachedIn(files, i)
  BY <1>1, <1>2, PlainRegion
<1>16. j.at \in {"rebase", "self", "erase"} /\ j.row.dir
  BY <1>3, <1>4
<1>17. Region(files, j, A)
  BY <1>2, <1>5, <1>10, <1>11, <1>12, <1>14, <1>15, <1>16, SetOff
<1>18. Sound(files, issued', j, A) /\ j.at # "store"
  BY <1>1, <1>10, <1>11, <1>12, <1>13, <1>16, <1>17 DEF Sound
<1> QED BY <1>1, <1>18, QuietTurn

\* Attached in one Final, attached in another that has the same rows.
LEMMA FinalAlike ==
  ASSUME NEW fs, NEW is, NEW j, NEW gs, NEW js, NEW g, Table(fs, is), Table(gs, js),
         Staying(gs, g) = Staying(fs, j),
         \A i \in Staying(fs, j) : /\ NewPath(gs, g, i) = NewPath(fs, j, i)
                                   /\ NewParent(gs, g, i) = NewParent(fs, j, i)
                                   /\ gs[i].dir = fs[i].dir,
         NEW i \in Staying(fs, j), AttachedIn(Final(fs, j), i)
  PROVE  AttachedIn(Final(gs, g), i)
<1>1. \/ NewParent(fs, j, i) = Root /\ Len(NewPath(fs, j, i)) = 1
      \/ /\ NewParent(fs, j, i) \in Staying(fs, j)
         /\ fs[NewParent(fs, j, i)].dir
         /\ Front(NewPath(fs, j, i)) = NewPath(fs, j, NewParent(fs, j, i))
  BY AttachedFinally
<1>2. \/ NewParent(gs, g, i) = Root /\ Len(NewPath(gs, g, i)) = 1
      \/ /\ NewParent(gs, g, i) \in Staying(gs, g)
         /\ gs[NewParent(gs, g, i)].dir
         /\ Front(NewPath(gs, g, i)) = NewPath(gs, g, NewParent(gs, g, i))
  BY <1>1
<1> QED BY <1>2, AttachedFinally

\* Attached in Final, attached in a table with the same rows.
LEMMA FinalIs ==
  ASSUME NEW fs, NEW is, NEW j, NEW gs, Table(fs, is), DOMAIN gs = Staying(fs, j),
         \A i \in DOMAIN gs : /\ NewPath(fs, j, i) = gs[i].path
                              /\ NewParent(fs, j, i) = gs[i].parent
                              /\ gs[i].dir = fs[i].dir,
         NEW i \in DOMAIN gs, AttachedIn(Final(fs, j), i)
  PROVE  AttachedIn(gs, i)
<1>1. \/ NewParent(fs, j, i) = Root /\ Len(NewPath(fs, j, i)) = 1
      \/ /\ NewParent(fs, j, i) \in Staying(fs, j)
         /\ fs[NewParent(fs, j, i)].dir
         /\ Front(NewPath(fs, j, i)) = NewPath(fs, j, NewParent(fs, j, i))
  BY AttachedFinally
<1> QED BY <1>1 DEF AttachedIn

\* A row that moves or goes is one that the request is about.
LEMMA Travels ==
  ASSUME Typed, InOrder, NEW r \in Requests, h[r].at \in {"rebase", "self", "erase"},
         NEW k \in Pending(h[r])
  PROVE  /\ k \in DOMAIN files /\ InA(about[r], files[k].path)
         /\ IsPrefix(h[r].row.path, files[k].path)
         /\ h[r].at # "erase" =>
              /\ Swap(h[r].row.path, h[r].target, files[k].path) \in Paths
              /\ InA(about[r], Swap(h[r].row.path, h[r].target, files[k].path))
              /\ h[r].dest # k
<1>1. /\ Table(files, issued) /\ about[r] \in SUBSET Paths
      /\ Way(h[r]) /\ Has(h[r], issued) /\ JobOK(h[r], issued) /\ h[r] \in Jobs
      /\ Subject(files, h[r], about[r]) /\ Destination(files, issued, h[r], about[r])
      /\ List(files, h[r]) /\ Root \notin DOMAIN files
  BY Mine
<1>2. /\ h[r].id \in DOMAIN files /\ files[h[r].id].path = h[r].row.path
      /\ h[r].row.path \in about[r] /\ h[r].row.path \in Paths
      /\ files[h[r].id].dir = h[r].row.dir
      /\ h[r].at # "erase" => Moving(h[r])
  BY <1>1 DEF Subject, Moving, Way
<1>3. h[r].row.path \in Seq(Names)
  BY <1>2 DEF Paths
<1>4. /\ k \in DOMAIN files /\ IsPrefix(h[r].row.path, files[k].path)
      /\ k # h[r].id => h[r].at # "self" /\ \E t \in h[r].todo : t[1] = k
  BY <1>1, <1>2, <1>3, PrefixOrder DEF Pending, List, IsStrictPrefix
<1>5. InA(about[r], files[k].path)
  BY <1>2, <1>4 DEF InA
<1>6. ASSUME h[r].at # "erase"
      PROVE  /\ Swap(h[r].row.path, h[r].target, files[k].path) \in Paths
             /\ InA(about[r], Swap(h[r].row.path, h[r].target, files[k].path))
             /\ h[r].dest # k
  <2>1. h[r].target \in Paths /\ h[r].target \in about[r] /\ Place(files, h[r].dest, h[r].target)
    BY <1>1, <1>6 DEF Has, Destination
  <2>2. files[k].path \in Paths /\ files[k].path \in Seq(Names) /\ h[r].target \in Seq(Names)
    BY <1>1, <1>4, <2>1, TableRow DEF Paths
  <2> DEFINE w == Swap(h[r].row.path, h[r].target, files[k].path)
  <2>3. IsPrefix(h[r].target, w)
    BY <1>3, <1>4, <2>2, SwapIs
  <2>4. w \in Paths
    <3>1. CASE files[k].path = h[r].row.path
      BY <1>3, <2>1, <2>2, <3>1, SwapWhole
    <3>2. CASE files[k].path # h[r].row.path
      BY <1>3, <1>4, <2>2, <3>2, SwapFront
    <3> QED BY <3>1, <3>2
  <2>5. InA(about[r], w)
    BY <2>1, <2>3 DEF InA
  <2>6. h[r].dest # k
    <3> SUFFICES ASSUME h[r].dest = k PROVE FALSE
      OBVIOUS
    <3>1. files[k].dir /\ Front(h[r].target) = files[k].path
      BY <1>1, <1>4, <2>1 DEF Place
    <3>2. h[r].row.dir
      <4>1. CASE k = h[r].id
        BY <1>2, <3>1, <4>1
      <4>2. CASE k # h[r].id
        BY <1>1, <1>4, <1>6, <4>2 DEF List
      <4> QED BY <4>1, <4>2
    <3>3. ~IsStrictPrefix(h[r].row.path, h[r].target)
      BY <1>1, <1>2, <1>6, <3>2 DEF List
    <3> QED BY <1>1, <1>2, <1>4, <2>1, <3>1, <3>3, NotInto
  <2> QED BY <2>4, <2>5, <2>6
<1> QED BY <1>4, <1>5, <1>6

\* Row k is called w, or has another parent, and nothing else has changed.
LEMMA ConfinedRow ==
  ASSUME NEW B, NEW is, NEW fs, NEW gs, NEW k \in DOMAIN fs, Table(fs, is), DOMAIN gs = DOMAIN fs,
         \A i \in DOMAIN fs \ {k} : gs[i] = fs[i], gs[k].dir = fs[k].dir,
         InA(B, fs[k].path), InA(B, gs[k].path)
  PROVE  Confined(B, is, fs, gs, k)
BY DEF Confined, Same

\* A place survives a change of another row.
LEMMA PlaceRest ==
  ASSUME NEW fs, NEW gs, NEW k, \A i \in DOMAIN fs \ {k} : i \in DOMAIN gs /\ gs[i] = fs[i],
         NEW p, p # k, NEW path, Place(fs, p, path)
  PROVE  Place(gs, p, path)
BY DEF Place

\* UpdateFilePath that is not refused changes that path.
LEMMA RenamedRow ==
  ASSUME NEW k \in DOMAIN files, NEW w, Table(files, issued), ~Blocked(k, w)
  PROVE  /\ DOMAIN Renamed(k, w) = DOMAIN files
         /\ \A i \in DOMAIN files \ {k} : Renamed(k, w)[i] = files[i]
         /\ Renamed(k, w)[k].path = w /\ Renamed(k, w)[k].parent = files[k].parent
         /\ Renamed(k, w)[k].dir = files[k].dir
<1>1. Renamed(k, w) = [files EXCEPT ![k].path = w]
  BY DEF Renamed
<1>2. files[k] \in Rows
  BY TableRow
<1>3. /\ [files[k] EXCEPT !.path = w].path = w
      /\ [files[k] EXCEPT !.path = w].parent = files[k].parent
      /\ [files[k] EXCEPT !.path = w].dir = files[k].dir
  BY <1>2 DEF Rows
<1> QED BY <1>1, <1>3

\* Rebase is a turn: one row below goes where Final has it.
LEMMA RebaseTurn ==
  ASSUME Typed, Typed', InOrder, NEW r \in Requests, Rebase(r), spoiled' = {}
  PROVE  \E k : Turn(r, k)
<1> DEFINE A == about[r]
<1>1. h[r].at = "rebase" /\ UNCHANGED <<issued, uploads, about>>
  BY DEF Rebase
<1>2. /\ Table(files, issued) /\ A \in SUBSET Paths /\ h[r] \in Jobs
      /\ Way(h[r]) /\ Has(h[r], issued) /\ JobOK(h[r], issued)
      /\ Subject(files, h[r], A) /\ Destination(files, issued, h[r], A)
      /\ List(files, h[r]) /\ Uploading(files, h[r], A) /\ Region(files, h[r], A)
      /\ Root \notin DOMAIN files
  BY Mine
<1>3. Moving(h[r]) /\ h[r].row.dir
  BY <1>1, <1>2 DEF Way, Moving, List
<1>4. CASE \E t \in h[r].todo :
             /\ files' = Renamed(t[1], t[2]) /\ Spoil(If(Blocked(t[1], t[2]), "blocked"))
             /\ h' = [h EXCEPT ![r].todo = @ \ {t}]
  <2>1. PICK t \in h[r].todo :
             /\ files' = Renamed(t[1], t[2]) /\ Spoil(If(Blocked(t[1], t[2]), "blocked"))
             /\ h' = [h EXCEPT ![r].todo = @ \ {t}]
    BY <1>4
  <2> DEFINE k == t[1]
  <2> DEFINE w == Swap(h[r].row.path, h[r].target, files[k].path)
  <2> DEFINE j == [h[r] EXCEPT !.todo = @ \ {t}]
  <2>2. t[2] = w /\ k # h[r].id /\ k \in DOMAIN files
    BY <1>1, <1>2, <2>1 DEF List
  <2>3. ~Blocked(k, w)
    BY <2>1, <2>2 DEF Spoil, If
  <2>4. files' = Renamed(k, w) /\ h' = [h EXCEPT ![r] = j]
    BY <2>1, <2>2
  <2>5. k \in Pending(h[r])
    BY <2>1 DEF Pending
  <2>6. /\ j.todo = h[r].todo \ {t} /\ j.at = h[r].at /\ j.op = h[r].op /\ j.id = h[r].id
        /\ j.row = h[r].row /\ j.dest = h[r].dest /\ j.target = h[r].target
    BY <1>2 DEF Jobs
  <2>7. \A s \in h[r].todo : s[1] = k => s = t
    BY <1>1, <1>2, <2>1 DEF List
  <2> HIDE DEF j
  <2>8. /\ InA(A, files[k].path) /\ w \in Paths /\ InA(A, w) /\ h[r].dest # k
    BY <1>1, <2>5, Travels
  <2>9. /\ DOMAIN files' = DOMAIN files /\ \A i \in DOMAIN files \ {k} : files'[i] = files[i]
        /\ files'[k].path = w /\ files'[k].parent = files[k].parent /\ files'[k].dir = files[k].dir
    BY <1>2, <2>2, <2>3, <2>4, RenamedRow
  <2>10. w = NewPath(files, h[r], k)
    BY <1>1, <2>5 DEF NewPath
  <2> HIDE DEF k, w
  <2>11. Confined(A, issued, files, files', k)
    BY <1>2, <2>2, <2>8, <2>9, ConfinedRow
  <2>12. Subject(files', j, A)
    <3>1. /\ h[r].id \in DOMAIN files \ {k} /\ files[h[r].id].path = h[r].row.path
          /\ files[h[r].id].parent = h[r].row.parent /\ files[h[r].id].dir = h[r].row.dir
          /\ h[r].row.path \in A
      BY <1>1, <1>2, <1>3, <2>2 DEF Subject
    <3>2. h[r].id \in DOMAIN files' /\ files'[h[r].id] = files[h[r].id]
      BY <2>9, <3>1
    <3> QED BY <2>6, <3>1, <3>2 DEF Subject
  <2>13. Place(files', j.dest, j.target)
    BY <1>1, <1>2, <2>6, <2>8, <2>9, PlaceRest DEF Destination
  <2>14. Destination(files', issued', j, A)
    BY <1>1, <1>2, <2>6, <2>13 DEF Destination
  <2>15. List(files', j)
    <3>1. \A s \in j.todo : s \in h[r].todo /\ s[1] # k
      BY <2>6, <2>7
    <3>2. \A s \in j.todo : /\ s[1] \in DOMAIN files' /\ s[1] # j.id
                            /\ IsStrictPrefix(j.row.path, files'[s[1]].path)
                            /\ s[2] = Swap(j.row.path, j.target, files'[s[1]].path)
      BY <1>1, <1>2, <2>6, <2>9, <3>1 DEF List
    <3>3. \A s, q \in j.todo : s[1] = q[1] => s = q
      BY <1>1, <1>2, <2>6, <3>1 DEF List
    <3>4. ~IsStrictPrefix(j.row.path, j.target)
      BY <1>1, <1>2, <1>3, <2>6 DEF List
    <3> QED BY <1>1, <1>3, <2>6, <3>2, <3>3, <3>4 DEF List
  <2>16. Uploading(files', j, A)
    BY <1>1, <1>3, <2>6 DEF Uploading, Moving
  <2>17. Region(files', j, A)
    <3>1. Staying(files', j) = Staying(files, h[r]) /\ Staying(files', j) = DOMAIN files
      BY <1>1, <2>6, <2>9 DEF Staying
    <3>2. k \notin Pending(j) /\ \A i \in DOMAIN files \ {k} : i \in Pending(j) <=> i \in Pending(h[r])
      <4>1. k \notin Pending(j)
        BY <2>2, <2>6, <2>7 DEF Pending
      <4>2. \A s \in h[r].todo : s[1] # k => s \in j.todo
        BY <2>6 DEF k
      <4> QED BY <2>6, <4>1, <4>2 DEF Pending
    <3>3. ASSUME NEW i \in DOMAIN files
          PROVE  /\ NewPath(files', j, i) = NewPath(files, h[r], i)
                 /\ NewParent(files', j, i) = NewParent(files, h[r], i)
                 /\ files'[i].dir = files[i].dir
      <4>1. CASE i = k
        BY <2>2, <2>6, <2>9, <2>10, <3>2, <4>1 DEF NewPath, NewParent
      <4>2. CASE i # k
        BY <2>6, <2>9, <3>2, <4>2 DEF NewPath, NewParent
      <4> QED BY <4>1, <4>2
    <3>4. ASSUME NEW i \in Staying(files', j), InA(A, files'[i].path)
          PROVE  AttachedIn(Final(files', j), i)
      <4>1. i \in DOMAIN files /\ InA(A, files[i].path)
        BY <2>8, <2>9, <3>1, <3>4
      <4>2. AttachedIn(Final(files, h[r]), i)
        BY <1>2, <3>1, <4>1 DEF Region
      <4>3. Table(files', issued')
        BY DEF Typed
      <4> QED BY <1>2, <3>1, <3>3, <4>1, <4>2, <4>3, FinalAlike
    <3> QED BY <3>4 DEF Region
  <2>18. Sound(files', issued', j, A) /\ j.at # "store"
    BY <1>1, <2>6, <2>12, <2>14, <2>15, <2>16, <2>17 DEF Sound
  <2>19. k \in DOMAIN files /\ issued \subseteq issued' /\ about' = about /\ uploads' = uploads
    BY <1>1, <2>2
  <2> QED BY <2>4, <2>11, <2>18, <2>19, GoTurn
<1>5. CASE h[r].todo = {} /\ Goto(r, "self") /\ UNCHANGED files
  <2> DEFINE j == [h[r] EXCEPT !.at = "self"]
  <2>1. h' = [h EXCEPT ![r] = j]
    BY <1>5 DEF Goto
  <2>2. /\ j.todo = h[r].todo /\ j.at = "self" /\ j.op = h[r].op /\ j.id = h[r].id
        /\ j.row = h[r].row /\ j.dest = h[r].dest /\ j.target = h[r].target
    BY <1>2 DEF Jobs
  <2> HIDE DEF j
  <2>3. Subject(files, j, A) /\ Destination(files, issued, j, A) /\ Uploading(files, j, A)
    BY <1>1, <1>2, <1>3, <2>2 DEF Subject, Destination, Uploading, Moving
  <2>4. List(files, j)
    BY <1>1, <1>2, <1>5, <2>2 DEF List, Moving
  <2>5. Region(files, j, A)
    <3>1. Staying(files, j) = DOMAIN files /\ Staying(files, h[r]) = DOMAIN files
      BY <1>1, <2>2 DEF Staying
    <3>2. \A i \in DOMAIN files : /\ NewPath(files, j, i) = NewPath(files, h[r], i)
                                  /\ NewParent(files, j, i) = NewParent(files, h[r], i)
      BY <1>1, <2>2 DEF NewPath, NewParent, Pending
    <3> QED BY <1>2, <3>1, <3>2, FinalAlike DEF Region
  <2>6. Sound(files, issued', j, A) /\ j.at # "store"
    BY <1>1, <2>2, <2>3, <2>4, <2>5 DEF Sound
  <2>7. Turn(r, Root)
    BY <1>1, <1>5, <2>1, <2>6, QuietTurn
  <2> QED BY <2>7
<1> QED BY <1>4, <1>5 DEF Rebase

\* RenameFile is a turn: the row itself goes there.
LEMMA RenameFileTurn ==
  ASSUME Typed, Typed', InOrder, NEW r \in Requests, RenameFile(r), spoiled' = {}
  PROVE  \E k : Turn(r, k)
<1> DEFINE A == about[r]
<1> DEFINE k == h[r].id
<1> DEFINE w == h[r].target
<1>1. /\ h[r].at = "self" /\ UNCHANGED <<issued, uploads>>
      /\ files' = Renamed(k, w) /\ ~Blocked(k, w)
  BY DEF RenameFile, Spoil, If
<1>2. /\ Table(files, issued) /\ A \in SUBSET Paths /\ h[r] \in Jobs
      /\ Way(h[r]) /\ Has(h[r], issued) /\ JobOK(h[r], issued)
      /\ Subject(files, h[r], A) /\ Destination(files, issued, h[r], A)
      /\ List(files, h[r]) /\ Uploading(files, h[r], A) /\ Region(files, h[r], A)
      /\ Root \notin DOMAIN files
  BY Mine
<1>3. Moving(h[r]) /\ h[r].todo = {}
  BY <1>1, <1>2 DEF Way, Moving, List
<1>4. /\ k \in DOMAIN files /\ files[k].path = h[r].row.path /\ files[k].parent = h[r].row.parent
      /\ h[r].row.path \in A /\ w \in A /\ w \in Paths /\ h[r].row.path \in Paths
  BY <1>1, <1>2, <1>3 DEF Subject, Destination, Has
<1>5. k \in Pending(h[r]) /\ Pending(h[r]) = {k}
  BY <1>3 DEF Pending
<1>6. h[r].dest # k
  BY <1>1, <1>5, Travels
<1>7. InA(A, files[k].path) /\ InA(A, w)
  BY <1>2, <1>4, InItself
<1>8. /\ DOMAIN files' = DOMAIN files /\ \A i \in DOMAIN files \ {k} : files'[i] = files[i]
      /\ files'[k].path = w /\ files'[k].parent = files[k].parent /\ files'[k].dir = files[k].dir
  BY <1>1, <1>2, <1>4, RenamedRow
<1>9. Confined(A, issued, files, files', k)
  BY <1>2, <1>4, <1>7, <1>8, ConfinedRow
<1>10. /\ \A i \in DOMAIN files : NewPath(files, h[r], i) = files'[i].path
       /\ NewParent(files, h[r], k) = h[r].dest
       /\ \A i \in DOMAIN files \ {k} : NewParent(files, h[r], i) = files[i].parent
       /\ Staying(files, h[r]) = DOMAIN files
  <2>1. Swap(h[r].row.path, w, files[k].path) = w
    BY <1>4, SwapWhole DEF Paths
  <2> QED BY <1>1, <1>5, <1>8, <2>1 DEF NewPath, NewParent, Staying
<1> HIDE DEF k
<1>11. CASE h[r].op = "move"
  <2> DEFINE j == [h[r] EXCEPT !.at = "relink"]
  <2>1. h' = [h EXCEPT ![r] = j] /\ about' = about
    BY <1>1, <1>11 DEF RenameFile, Goto, k
  <2>2. /\ j.todo = h[r].todo /\ j.at = "relink" /\ j.op = h[r].op /\ j.id = k
        /\ j.row = h[r].row /\ j.dest = h[r].dest /\ j.target = h[r].target
    BY <1>2 DEF Jobs, k
  <2> HIDE DEF j
  <2>3. Subject(files', j, A) /\ Uploading(files', j, A)
    BY <1>11, <2>2 DEF Subject, Uploading
  <2>4. Place(files', j.dest, j.target)
    <3>1. Place(files, h[r].dest, w)
      BY <1>1, <1>2 DEF Destination
    <3>2. \A i \in DOMAIN files \ {k} : i \in DOMAIN files' /\ files'[i] = files[i]
      BY <1>8
    <3>3. Place(files', h[r].dest, w)
      BY <1>6, <3>1, <3>2, PlaceRest
    <3> QED BY <2>2, <3>3
  <2>5. Destination(files', issued', j, A)
    BY <1>4, <1>11, <2>2, <2>4 DEF Destination
  <2>6. List(files', j)
    BY <1>3, <1>4, <1>8, <2>2 DEF List
  <2>7. Region(files', j, A)
    <3>1. Staying(files', j) = DOMAIN files
      BY <1>8, <2>2 DEF Staying
    <3>2. \A i \in DOMAIN files : /\ NewPath(files', j, i) = NewPath(files, h[r], i)
                                  /\ NewParent(files', j, i) = NewParent(files, h[r], i)
                                  /\ files'[i].dir = files[i].dir
      BY <1>8, <1>10, <2>2 DEF NewPath, NewParent
    <3>3. ASSUME NEW i \in Staying(files', j), InA(A, files'[i].path)
          PROVE  AttachedIn(Final(files', j), i)
      <4>1. i \in DOMAIN files /\ InA(A, files[i].path)
        BY <1>7, <1>8, <3>1, <3>3
      <4>2. AttachedIn(Final(files, h[r]), i)
        BY <1>2, <1>10, <4>1 DEF Region
      <4>3. Table(files', issued')
        BY DEF Typed
      <4> QED BY <1>2, <1>10, <3>1, <3>2, <4>1, <4>2, <4>3, FinalAlike
    <3> QED BY <3>3 DEF Region
  <2>8. Sound(files', issued', j, A) /\ j.at # "store"
    BY <2>2, <2>3, <2>5, <2>6, <2>7 DEF Sound
  <2>9. issued \subseteq issued' /\ uploads' = uploads
    BY <1>1
  <2> QED BY <1>4, <1>9, <2>1, <2>8, <2>9, GoTurn
<1>12. CASE h[r].op # "move"
  <2>1. Answer(r)
    BY <1>12 DEF RenameFile
  <2>2. h[r].dest = files[k].parent
    BY <1>2, <1>3, <1>4, <1>12 DEF Destination, Moving
  <2>3. ASSUME NEW i \in DOMAIN files', InA(A, files'[i].path) PROVE AttachedIn(files', i)
    <3>1. i \in DOMAIN files /\ InA(A, files[i].path)
      BY <1>7, <1>8, <2>3
    <3>2. AttachedIn(Final(files, h[r]), i)
      BY <1>2, <1>10, <3>1 DEF Region
    <3>3. \A x \in DOMAIN files' : /\ NewPath(files, h[r], x) = files'[x].path
                                   /\ NewParent(files, h[r], x) = files'[x].parent
                                   /\ files'[x].dir = files[x].dir
      BY <1>8, <1>10, <2>2
    <3> QED BY <1>2, <1>8, <1>10, <3>2, <3>3, FinalIs
  <2>4. issued \subseteq issued' /\ uploads' = uploads
    BY <1>1
  <2> QED BY <1>4, <1>9, <2>1, <2>3, <2>4, AnswerTurn
<1> QED BY <1>11, <1>12

\* UpdateFileParent is a turn: the row gets the parent Final has.
LEMMA UpdateFileParentTurn ==
  ASSUME Typed, Typed', InOrder, NEW r \in Requests, UpdateFileParent(r)
  PROVE  \E k : Turn(r, k)
<1> DEFINE A == about[r]
<1> DEFINE k == h[r].id
<1>1. /\ h[r].at = "relink" /\ UNCHANGED <<issued, uploads>> /\ Answer(r)
      /\ files' = Reparented(k, h[r].dest)
  BY DEF UpdateFileParent
<1>2. /\ Table(files, issued) /\ A \in SUBSET Paths /\ h[r] \in Jobs
      /\ Destination(files, issued, h[r], A) /\ List(files, h[r]) /\ Region(files, h[r], A)
  BY Mine
<1>3. k \in DOMAIN files /\ files[k].path = h[r].target /\ h[r].target \in A
  BY <1>1, <1>2 DEF List, Destination
<1>4. /\ DOMAIN files' = DOMAIN files /\ \A i \in DOMAIN files \ {k} : files'[i] = files[i]
      /\ files'[k].path = files[k].path /\ files'[k].parent = h[r].dest
      /\ files'[k].dir = files[k].dir
  <2>1. files' = [files EXCEPT ![k].parent = h[r].dest]
    BY <1>1, <1>3 DEF Reparented
  <2>2. files[k] \in Rows
    BY <1>2, <1>3, TableRow
  <2>3. /\ [files[k] EXCEPT !.parent = h[r].dest].path = files[k].path
        /\ [files[k] EXCEPT !.parent = h[r].dest].parent = h[r].dest
        /\ [files[k] EXCEPT !.parent = h[r].dest].dir = files[k].dir
    BY <2>2 DEF Rows
  <2> QED BY <1>3, <2>1, <2>3
<1>5. InA(A, files[k].path)
  BY <1>2, <1>3, InItself
<1>6. Confined(A, issued, files, files', k)
  BY <1>2, <1>3, <1>4, <1>5, ConfinedRow
<1>7. /\ Staying(files, h[r]) = DOMAIN files
      /\ \A x \in DOMAIN files' : /\ NewPath(files, h[r], x) = files'[x].path
                                  /\ NewParent(files, h[r], x) = files'[x].parent
                                  /\ files'[x].dir = files[x].dir
  BY <1>1, <1>4 DEF Staying, NewPath, NewParent
<1> HIDE DEF k
<1>8. ASSUME NEW i \in DOMAIN files', InA(A, files'[i].path) PROVE AttachedIn(files', i)
  <2>1. i \in DOMAIN files /\ InA(A, files[i].path)
    BY <1>4, <1>5, <1>8
  <2>2. AttachedIn(Final(files, h[r]), i)
    BY <1>2, <1>7, <2>1 DEF Region
  <2> QED BY <1>2, <1>4, <1>7, <2>2, FinalIs
<1>9. issued \subseteq issued' /\ uploads' = uploads
  BY <1>1
<1> QED BY <1>1, <1>3, <1>6, <1>8, <1>9, AnswerTurn

\* DeleteFile is a turn: one row goes that Final does not have.
LEMMA DeleteFileTurn ==
  ASSUME Typed, Typed', InOrder, NEW r \in Requests, DeleteFile(r)
  PROVE  \E k : Turn(r, k)
<1> DEFINE A == about[r]
<1>1. h[r].at = "erase" /\ UNCHANGED <<issued, uploads>>
  BY DEF DeleteFile
<1>2. /\ Table(files, issued) /\ A \in SUBSET Paths /\ h[r] \in Jobs
      /\ Way(h[r]) /\ Has(h[r], issued) /\ JobOK(h[r], issued)
      /\ Subject(files, h[r], A) /\ Destination(files, issued, h[r], A)
      /\ List(files, h[r]) /\ Uploading(files, h[r], A) /\ Region(files, h[r], A)
      /\ Root \notin DOMAIN files
  BY Mine
<1>3. h[r].op = "delete"
  BY <1>1, <1>2 DEF Way
<1>4. ASSUME NEW k, k \in Pending(h[r]), files' = Without(k)
      PROVE  /\ DOMAIN files' = DOMAIN files \ {k} /\ \A i \in DOMAIN files' : files'[i] = files[i]
             /\ Confined(A, issued, files, files', k) /\ k \notin DOMAIN files'
             /\ issued \subseteq issued' /\ uploads' = uploads
  <2>1. DOMAIN files' = DOMAIN files \ {k} /\ \A i \in DOMAIN files' : files'[i] = files[i]
    BY <1>4 DEF Without
  <2>2. InA(A, files[k].path)
    BY <1>1, <1>4, Travels
  <2> QED BY <1>1, <2>1, <2>2 DEF Confined, Same
<1>5. CASE \E t \in h[r].todo :
             /\ files' = Without(t[1]) /\ h' = [h EXCEPT ![r].todo = @ \ {t}] /\ UNCHANGED about
  <2>1. PICK t \in h[r].todo :
             /\ files' = Without(t[1]) /\ h' = [h EXCEPT ![r].todo = @ \ {t}] /\ UNCHANGED about
    BY <1>5
  <2> DEFINE k == t[1]
  <2> DEFINE j == [h[r] EXCEPT !.todo = @ \ {t}]
  <2>2. /\ k # h[r].id /\ k \in Pending(h[r])
        /\ \A s \in h[r].todo : s[1] = k => s = t
    BY <1>1, <1>2, <2>1 DEF List, Pending
  <2>3. h' = [h EXCEPT ![r] = j] /\ files' = Without(k)
    BY <2>1
  <2>4. /\ j.todo = h[r].todo \ {t} /\ j.at = h[r].at /\ j.op = h[r].op /\ j.id = h[r].id
        /\ j.row = h[r].row /\ j.dest = h[r].dest /\ j.target = h[r].target
    BY <1>2 DEF Jobs
  <2>5. Pending(j) = Pending(h[r]) \ {k}
    <3>1. k \notin Pending(j)
      BY <2>2, <2>4 DEF Pending
    <3>2. \A s \in h[r].todo : s[1] # k => s \in j.todo
      BY <2>4
    <3>3. \A s \in j.todo : s \in h[r].todo
      BY <2>4
    <3> HIDE DEF k, j
    <3> QED BY <2>4, <3>1, <3>2, <3>3 DEF Pending
  <2>6. \A s \in j.todo : s \in h[r].todo /\ s[1] # k
    BY <2>2, <2>4
  <2> HIDE DEF j, k
  <2>7. /\ DOMAIN files' = DOMAIN files \ {k} /\ \A i \in DOMAIN files' : files'[i] = files[i]
        /\ Confined(A, issued, files, files', k) /\ k \notin DOMAIN files'
        /\ issued \subseteq issued' /\ uploads' = uploads
    BY <1>4, <2>2, <2>3
  <2>8. Subject(files', j, A)
    BY <1>2, <1>3, <2>2, <2>4, <2>7 DEF Subject
  <2>9. Destination(files', issued', j, A) /\ Uploading(files', j, A)
    BY <1>1, <1>3, <2>4 DEF Destination, Uploading
  <2>10. List(files', j)
    <3>1. \A s \in j.todo : /\ s[1] \in DOMAIN files' /\ s[1] # j.id
                            /\ IsStrictPrefix(j.row.path, files'[s[1]].path)
                            /\ s[2] = Swap(j.row.path, j.target, files'[s[1]].path)
      BY <1>1, <1>2, <2>4, <2>6, <2>7 DEF List
    <3>2. \A s, q \in j.todo : s[1] = q[1] => s = q
      BY <1>1, <1>2, <2>6 DEF List
    <3> QED BY <1>1, <2>4, <3>1, <3>2 DEF List
  <2>11. Region(files', j, A)
    <3>1. Staying(files', j) = Staying(files, h[r])
      BY <1>1, <2>2, <2>4, <2>5, <2>7 DEF Staying
    <3>2. \A i \in Staying(files, h[r]) :
             i \in DOMAIN files' /\ files'[i] = files[i] /\ NewPath(files', j, i) = NewPath(files, h[r], i)
             /\ NewParent(files', j, i) = NewParent(files, h[r], i)
      BY <1>1, <2>2, <2>4, <2>7 DEF Staying, NewPath, NewParent
    <3>3. Table(files', issued')
      BY DEF Typed
    <3> QED BY <1>2, <3>1, <3>2, <3>3, FinalAlike DEF Region
  <2>12. Sound(files', issued', j, A) /\ j.at # "store" /\ about' = about
    BY <1>1, <2>1, <2>4, <2>8, <2>9, <2>10, <2>11 DEF Sound
  <2>13. Turn(r, k)
    BY <2>3, <2>7, <2>12, GoTurn
  <2> QED BY <2>13
<1>6. CASE h[r].todo = {} /\ files' = Without(h[r].id) /\ Answer(r)
  <2>1. Pending(h[r]) = {h[r].id}
    BY <1>6 DEF Pending
  <2>2. /\ DOMAIN files' = DOMAIN files \ {h[r].id} /\ \A i \in DOMAIN files' : files'[i] = files[i]
        /\ Confined(A, issued, files, files', h[r].id) /\ h[r].id \notin DOMAIN files'
        /\ issued \subseteq issued' /\ uploads' = uploads
    BY <1>4, <1>6, <2>1
  <2>3. /\ Staying(files, h[r]) = DOMAIN files'
        /\ \A x \in DOMAIN files' : /\ NewPath(files, h[r], x) = files'[x].path
                                    /\ NewParent(files, h[r], x) = files'[x].parent
                                    /\ files'[x].dir = files[x].dir
    BY <1>1, <2>1, <2>2 DEF Staying, NewPath, NewParent
  <2>4. ASSUME NEW i \in DOMAIN files', InA(A, files'[i].path) PROVE AttachedIn(files', i)
    <3>1. AttachedIn(Final(files, h[r]), i)
      BY <1>2, <2>2, <2>3, <2>4 DEF Region
    <3> QED BY <1>2, <2>3, <3>1, FinalIs
  <2>5. Turn(r, h[r].id)
    BY <1>6, <2>2, <2>4, AnswerTurn
  <2> QED BY <2>5
<1> QED BY <1>5, <1>6 DEF DeleteFile

\* Row k of table gs is the given one, in a place where there was none or k.
Laid(fs, gs, k, row) ==
  /\ DOMAIN gs = DOMAIN fs \cup {k}
  /\ \A x \in DOMAIN fs \ {k} : gs[x] = fs[x]
  /\ gs[k].path = row.path /\ gs[k].parent = row.parent /\ gs[k].dir = row.dir
  /\ k \in DOMAIN fs => fs[k].path = row.path /\ fs[k].dir = row.dir

\* A row laid in its place hangs there, and the others stay.
LEMMA LaidAttached ==
  ASSUME NEW fs, NEW gs, NEW k, NEW row, Laid(fs, gs, k, row), Place(fs, row.parent, row.path),
         NEW A, \A i \in DOMAIN fs : InA(A, fs[i].path) => AttachedIn(fs, i)
  PROVE  \A i \in DOMAIN gs : InA(A, gs[i].path) => AttachedIn(gs, i)
<1>1. \A x \in DOMAIN fs : x \in DOMAIN gs /\ gs[x].path = fs[x].path /\ gs[x].dir = fs[x].dir
  BY DEF Laid
<1>2. AttachedIn(gs, k)
  BY <1>1 DEF Laid, Place, AttachedIn
<1>3. ASSUME NEW i \in DOMAIN gs, InA(A, gs[i].path), i # k PROVE AttachedIn(gs, i)
  <2>1. i \in DOMAIN fs /\ gs[i] = fs[i] /\ AttachedIn(fs, i)
    BY <1>3 DEF Laid
  <2> QED BY <1>1, <2>1 DEF AttachedIn
<1> QED BY <1>2, <1>3

\* Laying a row is confined to it.
LEMMA LaidConfined ==
  ASSUME NEW fs, NEW gs, NEW is, NEW k, NEW row, Laid(fs, gs, k, row), NEW A, InA(A, row.path),
         k \notin DOMAIN fs => k \notin is \/ ~row.dir
  PROVE  /\ Confined(A, is, fs, gs, k) /\ k \in DOMAIN gs
         /\ \A x \in DOMAIN fs : x \in DOMAIN gs /\ gs[x].path = fs[x].path /\ gs[x].dir = fs[x].dir
BY DEF Laid, Confined, Same

\* UpsertFile of a new row lays it.
LEMMA NewRow ==
  ASSUME NEW fs, NEW k, NEW row, k \notin DOMAIN fs, RowsAt(fs, row.path) = {}
  PROVE  Laid(fs, Upserted(fs, k, row), k, row)
<1>1. Upserted(fs, k, row) = With(fs, k, row)
  BY DEF Upserted
<1> QED BY <1>1 DEF Laid, With

\* UpsertFile of a row with the path it has lays it again.
LEMMA SameRow ==
  ASSUME NEW fs, NEW is, Table(fs, is), NEW k \in DOMAIN fs, NEW row \in Rows,
         fs[k].path = row.path, fs[k].dir = row.dir
  PROVE  Laid(fs, Upserted(fs, k, row), k, row)
<1>1. RowsAt(fs, row.path) = {k}
  BY DEF RowsAt, Table
<1> DEFINE x == [row EXCEPT !.trashed = fs[k].trashed]
<1>2. x.path = row.path /\ x.parent = row.parent /\ x.dir = row.dir
  BY DEF Rows
<1>3. Upserted(fs, k, row) = [j \in DOMAIN fs |-> IF j = k THEN x ELSE fs[j]]
  BY <1>1 DEF Upserted
<1> HIDE DEF x
<1> QED BY <1>2, <1>3 DEF Laid

\* Insert is a turn.
LEMMA InsertTurn ==
  ASSUME Typed, Typed', InOrder, NEW r \in Requests, Insert(r), spoiled' = {}
  PROVE  \E k : Turn(r, k)
<1> DEFINE A == about[r]
<1> DEFINE k == NewId
<1> DEFINE row == Folder(h[r].dest, h[r].target)
<1> DEFINE j == [h[r] EXCEPT !.at = "walk", !.dirs = [x \in {<<>>} |-> k]]
<1>1. /\ h[r].at = "insert" /\ Ids \ issued # {} /\ files' = Upserted(files, k, row)
      /\ issued' = issued \cup {k} /\ uploads' = uploads
      /\ RowsAt(files, h[r].target) = {}
      /\ \/ h[r].op = "dir" /\ h' = [h EXCEPT ![r] = j] /\ about' = about
         \/ h[r].op # "dir" /\ Answer(r)
  BY DEF Insert, Spoil, If
<1>2. /\ Table(files, issued) /\ A \in SUBSET Paths /\ h[r] \in Jobs
      /\ Way(h[r]) /\ Has(h[r], issued)
      /\ Subject(files, h[r], A) /\ Destination(files, issued, h[r], A)
      /\ List(files, h[r]) /\ Uploading(files, h[r], A) /\ Region(files, h[r], A)
      /\ Root \notin DOMAIN files
  BY Mine
<1>3. k \in Ids /\ k \notin issued /\ k \notin DOMAIN files
  BY <1>1, <1>2, FreshId DEF Table
<1>4. h[r].target \in Paths /\ h[r].target \in A /\ Place(files, h[r].dest, h[r].target)
      /\ h[r].dest \in Ids \cup {Root}
  BY <1>1, <1>2 DEF Destination, Has, Jobs
<1>5. row.path = h[r].target /\ row.parent = h[r].dest /\ row.dir
  BY DEF Folder
<1> HIDE DEF k, row
<1>6. Laid(files, files', k, row)
  BY <1>1, <1>3, <1>5, NewRow
<1>7. InA(A, row.path)
  BY <1>2, <1>4, <1>5, InItself
<1>8. /\ Confined(A, issued, files, files', k) /\ k \in DOMAIN files'
      /\ \A x \in DOMAIN files : x \in DOMAIN files' /\ files'[x].path = files[x].path
                                 /\ files'[x].dir = files[x].dir
  BY <1>3, <1>6, <1>7, LaidConfined
<1>9. \A i \in DOMAIN files : InA(A, files[i].path) => AttachedIn(files, i)
  BY <1>1, <1>2, PlainRegion
<1>10. \A i \in DOMAIN files' : InA(A, files'[i].path) => AttachedIn(files', i)
  BY <1>4, <1>5, <1>6, <1>9, LaidAttached
<1>11. issued \subseteq issued'
  BY <1>1
<1>12. CASE h[r].op # "dir" /\ Answer(r)
  <2>1. Turn(r, k)
    BY <1>1, <1>3, <1>8, <1>10, <1>11, <1>12, AnswerTurn
  <2> QED BY <2>1
<1>13. CASE h[r].op = "dir" /\ h' = [h EXCEPT ![r] = j] /\ about' = about
  <2>1. /\ j.at = "walk" /\ j.op = "dir" /\ j.target = h[r].target /\ j.todo = h[r].todo
        /\ j.dirs = [x \in {<<>>} |-> k]
    BY <1>2, <1>13 DEF Jobs
  <2> HIDE DEF j
  <2>2. h[r].todo = {}
    BY <1>1, <1>2 DEF List
  <2>3. Subject(files', j, A) /\ Destination(files', issued', j, A) /\ List(files', j)
    BY <2>1, <2>2 DEF Subject, Destination, List, Moving
  <2>4. h[r].target \o <<>> = h[r].target
    BY <1>4, Below
  <2>5. Uploading(files', j, A)
    <3>1. files'[k].dir /\ files'[k].path = h[r].target
      BY <1>5, <1>6 DEF Laid
    <3>2. ASSUME NEW x \in DOMAIN j.dirs
          PROVE  /\ j.dirs[x] \in DOMAIN files' /\ files'[j.dirs[x]].dir
                 /\ files'[j.dirs[x]].path = h[r].target \o x
      <4>1. x = <<>> /\ j.dirs[x] = k
        BY <2>1, <3>2
      <4> QED BY <1>8, <2>4, <3>1, <4>1
    <3> QED BY <1>4, <2>1, <3>2 DEF Uploading
  <2>6. Region(files', j, A)
    <3>1. Table(files', issued')
      BY DEF Typed
    <3> QED BY <1>10, <2>1, <3>1, PlainRegion
  <2>7. Sound(files', issued', j, A) /\ j.at # "store"
    BY <2>1, <2>3, <2>5, <2>6 DEF Sound
  <2>8. Turn(r, k)
    BY <1>1, <1>3, <1>8, <1>11, <1>13, <2>7, GoTurn
  <2> QED BY <2>8
<1> QED BY <1>1, <1>12, <1>13

\* Walk is a turn.
LEMMA WalkTurn ==
  ASSUME Typed, Typed', InOrder, NEW r \in Requests, Walk(r), spoiled' = {}
  PROVE  \E k : Turn(r, k)
<1> DEFINE A == about[r]
<1> DEFINE k == NewId
<1> DEFINE e == Head(h[r].walk)
<1> DEFINE path == h[r].target \o e.rel
<1> DEFINE up == h[r].dirs[Base(e.rel)]
<1> DEFINE row == Folder(up, path)
<1>1. h[r].at = "walk" /\ uploads' = uploads
  BY DEF Walk
<1>2. /\ Table(files, issued) /\ A \in SUBSET Paths /\ h[r] \in Jobs
      /\ Way(h[r]) /\ Has(h[r], issued) /\ JobOK(h[r], issued)
      /\ Subject(files, h[r], A) /\ Destination(files, issued, h[r], A)
      /\ List(files, h[r]) /\ Uploading(files, h[r], A) /\ Region(files, h[r], A)
      /\ Root \notin DOMAIN files
  BY Mine
<1>3. h[r].op = "dir" /\ h[r].todo = {}
  BY <1>1, <1>2 DEF Way, List
<1>4. CASE Answer(r) /\ UNCHANGED <<files, issued>>
  <2>1. Turn(r, Root)
    BY <1>1, <1>4, QuietTurn
  <2> QED BY <2>1
<1>5. CASE /\ h[r].walk # <<>> /\ e.dir /\ Ids \ issued # {}
           /\ files' = Upserted(files, k, row)
           /\ issued' = issued \cup {k}
           /\ h' = [h EXCEPT ![r].dirs = With(@, e.rel, k), ![r].walk = Tail(@)]
           /\ RowsAt(files, path) = {}
           /\ UNCHANGED about
  <2> DEFINE j == [h[r] EXCEPT !.dirs = With(@, e.rel, k), !.walk = Tail(@)]
  <2>1. k \in Ids /\ k \notin issued /\ k \notin DOMAIN files
    BY <1>2, <1>5, FreshId DEF Table
  <2>2. /\ e.rel \in Paths /\ h[r].target \in Paths /\ path \in Paths
        /\ Base(e.rel) \in DOMAIN h[r].dirs /\ up \in Ids
    BY <1>1, <1>2, <1>5, NextEntry
  <2>3. /\ h[r].target \in A /\ up \in DOMAIN files /\ files[up].dir
        /\ files[up].path = h[r].target \o Base(e.rel)
        /\ \A x \in DOMAIN h[r].dirs : /\ h[r].dirs[x] \in DOMAIN files /\ files[h[r].dirs[x]].dir
                                       /\ files[h[r].dirs[x]].path = h[r].target \o x
    BY <1>1, <1>2, <1>3, <2>2 DEF Uploading
  <2>4. Front(path) = h[r].target \o Base(e.rel) /\ IsPrefix(h[r].target, path)
    BY <2>2, Below
  <2>5. row.path = path /\ row.parent = up /\ row.dir
    BY DEF Folder
  <2>6. h' = [h EXCEPT ![r] = j]
    BY <1>5
  <2>7. /\ j.at = "walk" /\ j.op = "dir" /\ j.target = h[r].target /\ j.todo = h[r].todo
        /\ j.dirs = With(h[r].dirs, e.rel, k)
    BY <1>1, <1>2, <1>3 DEF Jobs
  <2> HIDE DEF j, k, e, row, up
  <2>8. Laid(files, files', k, row)
    BY <1>5, <2>1, <2>5, NewRow
  <2>9. InA(A, path) /\ Place(files, up, path)
    BY <2>3, <2>4 DEF InA, Place
  <2> HIDE DEF path
  <2>10. /\ Confined(A, issued, files, files', k) /\ k \in DOMAIN files'
         /\ \A x \in DOMAIN files : x \in DOMAIN files' /\ files'[x].path = files[x].path
                                    /\ files'[x].dir = files[x].dir
    BY <2>1, <2>5, <2>8, <2>9, LaidConfined
  <2>11. \A i \in DOMAIN files : InA(A, files[i].path) => AttachedIn(files, i)
    BY <1>1, <1>2, PlainRegion
  <2>12. \A i \in DOMAIN files' : InA(A, files'[i].path) => AttachedIn(files', i)
    BY <2>5, <2>8, <2>9, <2>11, LaidAttached
  <2>13. Subject(files', j, A) /\ Destination(files', issued', j, A) /\ List(files', j)
    BY <1>3, <2>7 DEF Subject, Destination, List, Moving
  <2>14. Uploading(files', j, A)
    <3>1. files'[k].dir /\ files'[k].path = path
      BY <2>5, <2>8 DEF Laid
    <3>2. ASSUME NEW x \in DOMAIN j.dirs
          PROVE  /\ j.dirs[x] \in DOMAIN files' /\ files'[j.dirs[x]].dir
                 /\ files'[j.dirs[x]].path = h[r].target \o x
      <4>1. CASE x = e.rel
        <5>1. j.dirs[x] = k /\ path = h[r].target \o x
          BY <2>7, <4>1 DEF With, path
        <5> QED BY <2>10, <3>1, <5>1
      <4>2. CASE x # e.rel
        <5>1. x \in DOMAIN h[r].dirs /\ j.dirs[x] = h[r].dirs[x]
          BY <2>7, <3>2, <4>2 DEF With
        <5> QED BY <2>3, <2>10, <5>1
      <4> QED BY <4>1, <4>2
    <3> QED BY <2>3, <2>7, <3>2 DEF Uploading
  <2>15. Region(files', j, A)
    <3>1. Table(files', issued')
      BY DEF Typed
    <3> QED BY <2>7, <2>12, <3>1, PlainRegion
  <2>16. Sound(files', issued', j, A) /\ j.at # "store" /\ issued \subseteq issued' /\ about' = about
    BY <1>5, <2>7, <2>13, <2>14, <2>15 DEF Sound
  <2>17. Turn(r, k)
    BY <1>1, <2>1, <2>6, <2>10, <2>16, GoTurn
  <2> QED BY <2>17
<1>6. CASE h[r].walk # <<>> /\ ~e.dir /\ Goto(r, "lookup") /\ UNCHANGED <<files, issued, about>>
  <2> DEFINE j == [h[r] EXCEPT !.at = "lookup"]
  <2>1. /\ j.at = "lookup" /\ j.op = "dir" /\ j.target = h[r].target /\ j.todo = h[r].todo
        /\ j.dirs = h[r].dirs
    BY <1>2, <1>3 DEF Jobs
  <2>2. h' = [h EXCEPT ![r] = j]
    BY <1>6 DEF Goto
  <2> HIDE DEF j
  <2>3. Subject(files, j, A) /\ Destination(files, issued', j, A) /\ List(files, j)
    BY <1>3, <2>1 DEF Subject, Destination, List, Moving
  <2>4. Uploading(files, j, A)
    BY <1>1, <1>2, <1>3, <2>1 DEF Uploading
  <2>5. Region(files, j, A)
    BY <1>1, <1>2, <2>1, PlainRegion
  <2>6. Sound(files, issued', j, A) /\ j.at # "store"
    BY <2>1, <2>3, <2>4, <2>5 DEF Sound
  <2>7. Turn(r, Root)
    BY <1>1, <1>6, <2>2, <2>6, QuietTurn
  <2> QED BY <2>7
<1>7. RowsAt(files, path) # {} => ~Spoil(If(RowsAt(files, path) # {}, "remade"))
  BY DEF Spoil, If
<1> QED BY <1>4, <1>5, <1>6, <1>7 DEF Walk

\* Where an upload goes is a place in the part of the tree it is about.
LEMMA GoalFits ==
  ASSUME Typed, InOrder, NEW r \in Requests,
         (h[r].at = "taken" /\ h[r].op = "upload") \/ h[r].at = "lookup"
  PROVE  /\ Goal(r)[2] \in Paths /\ InA(about[r], Goal(r)[2])
         /\ Place(files, Goal(r)[1], Goal(r)[2])
<1> DEFINE A == about[r]
<1>1. /\ Table(files, issued) /\ A \in SUBSET Paths /\ h[r] \in Jobs
      /\ Way(h[r]) /\ Has(h[r], issued) /\ JobOK(h[r], issued)
      /\ Destination(files, issued, h[r], A) /\ Uploading(files, h[r], A)
  BY Mine
<1>2. Goal(r)[2] \in Paths
  BY GoalIs
<1>3. CASE h[r].at = "taken" /\ h[r].op = "upload"
  <2>1. Goal(r)[1] = h[r].dest /\ Goal(r)[2] = h[r].target
    BY <1>3 DEF Goal
  <2>2. h[r].target \in A /\ Place(files, h[r].dest, h[r].target)
    BY <1>1, <1>3 DEF Destination
  <2>3. InA(A, h[r].target)
    BY <1>1, <2>2, InItself
  <2> QED BY <1>2, <2>1, <2>2, <2>3
<1>4. CASE h[r].at = "lookup"
  <2> DEFINE e == Head(h[r].walk)
  <2>1. h[r].op = "dir" /\ h[r].walk # <<>>
    BY <1>1, <1>4 DEF Way, Has
  <2>2. /\ e.rel \in Paths /\ h[r].target \in Paths /\ Base(e.rel) \in DOMAIN h[r].dirs
    BY <1>1, <1>4, <2>1, NextEntry
  <2>3. Goal(r)[1] = h[r].dirs[Base(e.rel)] /\ Goal(r)[2] = h[r].target \o e.rel
    BY <2>1 DEF Goal
  <2>4. /\ h[r].target \in A /\ h[r].dirs[Base(e.rel)] \in DOMAIN files
        /\ files[h[r].dirs[Base(e.rel)]].dir
        /\ files[h[r].dirs[Base(e.rel)]].path = h[r].target \o Base(e.rel)
    BY <1>1, <1>4, <2>1, <2>2 DEF Uploading
  <2> HIDE DEF e
  <2>5. Front(h[r].target \o e.rel) = h[r].target \o Base(e.rel)
        /\ IsPrefix(h[r].target, h[r].target \o e.rel)
    BY <2>2, Below
  <2>6. InA(A, Goal(r)[2])
    BY <2>3, <2>4, <2>5 DEF InA
  <2>7. Place(files, Goal(r)[1], Goal(r)[2])
    BY <2>3, <2>4, <2>5 DEF Place
  <2> QED BY <1>2, <2>6, <2>7
<1> QED BY <1>3, <1>4

\* FindFile is a turn.
LEMMA FindFileTurn ==
  ASSUME Typed, Typed', InOrder, NEW r \in Requests, FindFile(r)
  PROVE  Turn(r, Root)
<1> DEFINE A == about[r]
<1> DEFINE there == RowsAt(files, Goal(r)[2])
<1> DEFINE old(i) == [files[i] EXCEPT !.parent = Goal(r)[1]]
<1> DEFINE fresh == [Folder(Goal(r)[1], Goal(r)[2]) EXCEPT !.dir = FALSE]
<1>1. /\ (h[r].at = "taken" /\ h[r].op = "upload") \/ h[r].at = "lookup"
      /\ files' = files /\ uploads' = uploads /\ about' = about
  BY DEF FindFile
<1>2. /\ Table(files, issued) /\ A \in SUBSET Paths /\ h[r] \in Jobs
      /\ Way(h[r]) /\ Has(h[r], issued) /\ JobOK(h[r], issued)
      /\ Subject(files, h[r], A) /\ Destination(files, issued, h[r], A)
      /\ List(files, h[r]) /\ Uploading(files, h[r], A) /\ Region(files, h[r], A)
      /\ Root \notin DOMAIN files
  BY Mine
<1>3. /\ Goal(r)[2] \in Paths /\ InA(A, Goal(r)[2]) /\ Place(files, Goal(r)[1], Goal(r)[2])
  BY <1>1, GoalFits
<1>4. h[r].op \in {"upload", "dir"} /\ h[r].todo = {} /\ (h[r].at = "taken" => h[r].op # "dir")
  BY <1>1, <1>2 DEF Way, List
<1>5. /\ fresh.parent = Goal(r)[1] /\ fresh.path = Goal(r)[2] /\ fresh.dir = FALSE
  BY DEF Folder
<1>6. ASSUME NEW i \in there
      PROVE  /\ i \in DOMAIN files /\ old(i).parent = Goal(r)[1]
             /\ old(i).path = Goal(r)[2] /\ old(i).dir = files[i].dir
             /\ files[i].path = Goal(r)[2]
  <2>1. i \in DOMAIN files /\ files[i].path = Goal(r)[2]
    BY DEF RowsAt
  <2>2. files[i] \in Rows
    BY <1>2, <2>1, TableRow
  <2> QED BY <2>1, <2>2 DEF Rows
<1>7. ASSUME NEW i, NEW row, issued \subseteq issued',
             row.parent = Goal(r)[1], row.path = Goal(r)[2],
             \/ i \in DOMAIN files /\ files[i].path = row.path /\ files[i].dir = row.dir
             \/ i \notin DOMAIN files /\ i \notin issued /\ there = {} /\ ~row.dir,
             h' = [h EXCEPT ![r].at = "store", ![r].id = i, ![r].row = row]
      PROVE  Turn(r, Root)
  <2> DEFINE j == [h[r] EXCEPT !.at = "store", !.id = i, !.row = row]
  <2>1. /\ j.at = "store" /\ j.op = h[r].op /\ j.target = h[r].target /\ j.todo = h[r].todo
        /\ j.dirs = h[r].dirs /\ j.id = i /\ j.row = row
    BY <1>2 DEF Jobs
  <2>2. h' = [h EXCEPT ![r] = j]
    BY <1>7
  <2> HIDE DEF j, there
  <2>3. Subject(files, j, A) /\ Destination(files, issued', j, A) /\ List(files, j)
    BY <1>4, <2>1 DEF Subject, Destination, List, Moving
  <2>4. Uploading(files, j, A)
    <3>1. InA(A, j.row.path) /\ Place(files, j.row.parent, j.row.path)
      BY <1>3, <1>7, <2>1
    <3>2. \/ /\ j.id \in DOMAIN files
             /\ files[j.id].path = j.row.path /\ files[j.id].dir = j.row.dir
          \/ j.id \notin DOMAIN files /\ RowsAt(files, j.row.path) = {} /\ ~j.row.dir
      BY <1>7, <2>1 DEF there
    <3>3. j.op = "dir" =>
            /\ j.target \in A
            /\ \A x \in DOMAIN j.dirs : /\ j.dirs[x] \in DOMAIN files /\ files[j.dirs[x]].dir
                                        /\ files[j.dirs[x]].path = j.target \o x
      BY <1>1, <1>2, <1>4, <2>1 DEF Uploading
    <3> QED BY <3>1, <3>2, <3>3 DEF Uploading
  <2>5. Region(files, j, A)
    BY <1>1, <1>2, <2>1, PlainRegion
  <2>6. Sound(files, issued', j, A)
    BY <2>1, <2>3, <2>4, <2>5 DEF Sound
  <2>7. j.id \in DOMAIN files \/ j.id \notin issued
    BY <1>7, <2>1
  <2> QED BY <1>1, <1>7, <2>2, <2>6, <2>7, QuietTurn
<1> HIDE DEF old, fresh, there
<1>8. CASE \E i \in there : /\ h' = [h EXCEPT ![r].at = "store", ![r].id = i, ![r].row = old(i)]
                            /\ UNCHANGED issued
  <2>1. PICK i \in there : /\ h' = [h EXCEPT ![r].at = "store", ![r].id = i, ![r].row = old(i)]
                           /\ UNCHANGED issued
    BY <1>8
  <2>2. issued \subseteq issued'
    BY <2>1
  <2>3. /\ i \in DOMAIN files /\ old(i).parent = Goal(r)[1] /\ old(i).path = Goal(r)[2]
        /\ old(i).dir = files[i].dir /\ files[i].path = Goal(r)[2]
    BY <2>1, <1>6
  <2> HIDE DEF A
  <2> QED BY <1>7, <2>1, <2>2, <2>3
<1>9. CASE /\ there = {} /\ Ids \ issued # {} /\ issued' = issued \cup {NewId}
           /\ h' = [h EXCEPT ![r].at = "store", ![r].id = NewId, ![r].row = fresh]
  <2>1. NewId \notin issued /\ NewId \notin DOMAIN files /\ issued \subseteq issued'
    BY <1>2, <1>9, FreshId DEF Table
  <2> QED BY <1>5, <1>7, <1>9, <2>1
<1> QED BY <1>8, <1>9 DEF FindFile, there, old, fresh

\* StoreFile is a turn.
LEMMA StoreFileTurn ==
  ASSUME Typed, Typed', InOrder, NEW r \in Requests, StoreFile(r)
  PROVE  \E k : Turn(r, k)
<1> DEFINE A == about[r]
<1> DEFINE k == h[r].id
<1> DEFINE row == h[r].row
<1> DEFINE j == [h[r] EXCEPT !.at = "walk", !.walk = Tail(@)]
<1>1. /\ h[r].at = "store" /\ files' = Upserted(files, k, row) /\ issued' = issued
      /\ uploads' = uploads \cup {[id |-> k, row |-> row]}
      /\ \/ h[r].op = "upload" /\ Answer(r)
         \/ h[r].op # "upload" /\ h' = [h EXCEPT ![r] = j] /\ about' = about
  BY DEF StoreFile
<1>2. /\ Table(files, issued) /\ A \in SUBSET Paths /\ h[r] \in Jobs
      /\ Way(h[r]) /\ Has(h[r], issued)
      /\ List(files, h[r]) /\ Uploading(files, h[r], A) /\ Region(files, h[r], A)
  BY Mine
<1>3. /\ InA(A, row.path) /\ Place(files, row.parent, row.path) /\ row \in Rows
      /\ \/ k \in DOMAIN files /\ files[k].path = row.path /\ files[k].dir = row.dir
         \/ k \notin DOMAIN files /\ RowsAt(files, row.path) = {} /\ ~row.dir
  BY <1>1, <1>2 DEF Uploading, Has
<1>4. h[r].op \in {"upload", "dir"} /\ h[r].todo = {}
  BY <1>1, <1>2 DEF Way, List
<1>5. /\ h[r].op = "dir" => /\ j.at = "walk" /\ j.op = "dir" /\ j.target = h[r].target
                            /\ j.todo = h[r].todo /\ j.dirs = h[r].dirs
  BY <1>2 DEF Jobs
<1> HIDE DEF k, row, j
<1>6. Laid(files, files', k, row)
  <2>1. CASE k \in DOMAIN files /\ files[k].path = row.path /\ files[k].dir = row.dir
    BY <1>1, <1>2, <1>3, <2>1, SameRow
  <2>2. CASE k \notin DOMAIN files /\ RowsAt(files, row.path) = {}
    BY <1>1, <2>2, NewRow
  <2> QED BY <1>3, <2>1, <2>2
<1>7. /\ Confined(A, issued, files, files', k) /\ k \in DOMAIN files'
      /\ \A x \in DOMAIN files : x \in DOMAIN files' /\ files'[x].path = files[x].path
                                 /\ files'[x].dir = files[x].dir
  BY <1>3, <1>6, LaidConfined
<1>8. \A i \in DOMAIN files : InA(A, files[i].path) => AttachedIn(files, i)
  BY <1>1, <1>2, PlainRegion
<1>9. \A i \in DOMAIN files' : InA(A, files'[i].path) => AttachedIn(files', i)
  BY <1>3, <1>6, <1>8, LaidAttached
<1>10. \A u \in uploads' : u \in uploads \/
          (u.id = h[r].id /\ h[r].at = "store" /\ u.id \in DOMAIN files' /\ files'[u.id].dir = u.row.dir)
  <2>1. files'[k].dir = row.dir
    BY <1>6 DEF Laid
  <2> QED BY <1>1, <1>7, <2>1 DEF k
<1>11. k \in DOMAIN files' /\ k \notin DOMAIN files =>
         k \notin issued \/ (h[r].at = "store" /\ k = h[r].id)
  BY <1>1 DEF k
<1>12. issued \subseteq issued'
  BY <1>1
<1>13. CASE Answer(r)
  <2>1. Turn(r, k)
    BY <1>7, <1>9, <1>10, <1>11, <1>12, <1>13, AnswerTurn
  <2> QED BY <2>1
<1>14. CASE h[r].op # "upload" /\ h' = [h EXCEPT ![r] = j] /\ about' = about
  <2>1. /\ j.at = "walk" /\ j.op = "dir" /\ j.target = h[r].target /\ j.todo = {}
        /\ j.dirs = h[r].dirs
    BY <1>4, <1>5, <1>14
  <2>2. Subject(files', j, A) /\ Destination(files', issued', j, A) /\ List(files', j)
    BY <2>1 DEF Subject, Destination, List, Moving
  <2>3. Uploading(files', j, A)
    <3>1. /\ h[r].target \in A
          /\ \A x \in DOMAIN h[r].dirs : /\ h[r].dirs[x] \in DOMAIN files /\ files[h[r].dirs[x]].dir
                                         /\ files[h[r].dirs[x]].path = h[r].target \o x
      BY <1>1, <1>2, <1>4, <1>14 DEF Uploading
    <3> QED BY <1>7, <2>1, <3>1 DEF Uploading
  <2>4. Region(files', j, A)
    <3>1. Table(files', issued')
      BY DEF Typed
    <3> QED BY <1>9, <2>1, <3>1, PlainRegion
  <2>5. Sound(files', issued', j, A) /\ j.at # "store"
    BY <2>1, <2>2, <2>3, <2>4 DEF Sound
  <2>6. Turn(r, k)
    BY <1>7, <1>10, <1>11, <1>12, <1>14, <2>5, GoTurn
  <2> QED BY <2>6
<1> QED BY <1>1, <1>13, <1>14

-----------------------------------------------------------------------------
(***************************************************************************)
(* The invariant.                                                          *)
(***************************************************************************)

\* The inductive invariant: the types, and order as long as nothing has spoiled it.
Inv == Typed /\ (spoiled = {} => InOrder)

\* InOrder holds at the start.
LEMMA InOrderInit == Init => InOrder
<1> SUFFICES ASSUME Init PROVE InOrder
  OBVIOUS
<1>1. /\ \A r \in Requests : h[r] = Idle /\ about[r] = {}
      /\ uploads = {} /\ Idle.at # "store"
  BY DEF Init, Idle
<1>2. \A i \in DOMAIN files : AttachedIn(files, i)
  BY TreeAssumption DEF Init
<1>3. \A r \in Requests : Sound(files, issued, h[r], about[r])
  BY <1>1, SoundIdle
<1> QED BY <1>1, <1>2, <1>3 DEF InOrder, Apart

\* What is spoiled stays spoiled.
LEMMA SpoiledGrows ==
  ASSUME [Next]_vars, spoiled' = {}
  PROVE  spoiled = {}
<1>1. ASSUME NEW r \in Requests, Arrive(r) PROVE spoiled \subseteq spoiled'
  BY <1>1 DEF Arrive, Rename, Move, Relocate, Transfer, Create, UploadTo, UploadDir, Delete,
            Begin, Spoil
<1>2. ASSUME NEW r \in Requests, Step(r) PROVE spoiled \subseteq spoiled'
  <2>1. CASE ReadParent(r) \/ ReadDest(r) \/ LookUp(r) \/ ListBelow(r)
    BY <2>1 DEF ReadParent, ReadDest, LookUp, ListBelow
  <2>2. CASE Rebase(r) \/ RenameFile(r) \/ UpdateFileParent(r)
    BY <2>2 DEF Rebase, RenameFile, UpdateFileParent, Spoil
  <2>3. CASE Insert(r) \/ Walk(r) \/ FindFile(r) \/ StoreFile(r) \/ DeleteFile(r)
    BY <2>3 DEF Insert, Walk, FindFile, StoreFile, DeleteFile, Spoil
  <2> QED BY <1>2, <2>1, <2>2, <2>3 DEF Step
<1>3. ASSUME NEW i, NEW on, SetTrashed(i, on) PROVE spoiled \subseteq spoiled'
  BY <1>3 DEF SetTrashed
<1>4. ASSUME NEW u \in uploads, Publish(u) \/ GiveUp(u) PROVE spoiled \subseteq spoiled'
  BY <1>4 DEF Publish, GiveUp, Spoil
<1>5. CASE Restart
  BY <1>5 DEF Restart, Spoil
<1>6. CASE UNCHANGED vars
  BY <1>6 DEF vars
<1> QED BY <1>1, <1>2, <1>3, <1>4, <1>5, <1>6 DEF Next

\* A request arrives in order.
LEMMA ArriveInOrder ==
  ASSUME Typed, InOrder, NEW r \in Requests, Arrive(r), spoiled' = {}
  PROVE  InOrder'
<1>1. ASSUME NEW i \in issued, NEW p \in Named, Relocate(r, i, p) PROVE InOrder'
  <2>1. p = files[i].parent /\ "relocate" \in {"move", "relocate"}
    BY <1>1, RelocateStays
  <2> DEFINE why == If(i \in DOMAIN files /\ p # files[i].parent, "relocate")
  <2>2. Transfer(r, "relocate", i, p, why)
    BY <1>1 DEF Relocate
  <2> HIDE DEF why
  <2> QED BY <2>1, <2>2, TransferInOrder
<1>2. ASSUME NEW i \in issued, NEW p \in Named, Move(r, i, p) PROVE InOrder'
  <2>1. "move" \in {"move", "relocate"} /\ Transfer(r, "move", i, p, {})
    BY <1>2 DEF Move
  <2> QED BY <2>1, TransferInOrder
<1>3. ASSUME NEW i \in issued, NEW n \in Names, Rename(r, i, n) PROVE InOrder'
  BY <1>3, RenameInOrder
<1>4. ASSUME NEW op \in {"folder", "upload"}, NEW p \in Named, NEW n \in Names, Create(r, op, p, n)
      PROVE  InOrder'
  BY <1>4, CreateInOrder
<1>7. ASSUME NEW p \in Named, NEW path \in Spelled, UploadTo(r, p, path) PROVE InOrder'
  BY <1>7, UploadToInOrder
<1>5. ASSUME NEW base \in Spelled, NEW n \in Names, UploadDir(r, base, n) PROVE InOrder'
  BY <1>5, UploadDirInOrder
<1>6. ASSUME NEW i \in issued, Delete(r, i) PROVE InOrder'
  BY <1>6, DeleteInOrder
<1> QED BY <1>1, <1>2, <1>3, <1>4, <1>5, <1>6, <1>7 DEF Arrive

\* A step of a request keeps everything in order.
LEMMA StepInOrder ==
  ASSUME Typed, Typed', InOrder, NEW r \in Requests, Step(r), spoiled' = {}
  PROVE  InOrder'
<1>1. CASE ReadParent(r) \/ ReadDest(r) \/ LookUp(r) \/ ListBelow(r) \/ FindFile(r)
  <2>1. Turn(r, Root)
    BY <1>1, ReadParentTurn, ReadDestTurn, LookUpTurn, ListBelowTurn, FindFileTurn
  <2> QED BY <2>1, TurnInOrder
<1>2. CASE \/ Rebase(r) \/ RenameFile(r) \/ UpdateFileParent(r)
           \/ Insert(r) \/ Walk(r) \/ StoreFile(r) \/ DeleteFile(r)
  <2>1. \E k : Turn(r, k)
    BY <1>2, RebaseTurn, RenameFileTurn, UpdateFileParentTurn, InsertTurn, WalkTurn,
       StoreFileTurn, DeleteFileTurn
  <2> QED BY <2>1, TurnInOrder
<1> QED BY <1>1, <1>2 DEF Step

\* Every step that spoils nothing keeps everything in order.
LEMMA InOrderStep ==
  ASSUME Typed, Typed', InOrder, [Next]_vars, spoiled' = {}
  PROVE  InOrder'
<1>1. CASE UNCHANGED vars
  <2>1. /\ files' = files /\ issued' = issued /\ h' = h /\ uploads' = uploads
        /\ about' = about
    BY <1>1 DEF vars
  <2>2. DOMAIN files' = DOMAIN files /\ (\A i \in DOMAIN files : Same(files[i], files'[i]))
        /\ uploads' \subseteq uploads /\ UNCHANGED <<h, about, issued>>
    BY <2>1 DEF Same
  <2> QED BY <2>2, AlikeInOrder
<1>2. ASSUME NEW i \in issued, NEW on \in BOOLEAN, SetTrashed(i, on) PROVE InOrder'
  BY <1>2, SetTrashedInOrder
<1>3. ASSUME NEW u \in uploads, Publish(u) \/ GiveUp(u) PROVE InOrder'
  BY <1>3, PublishInOrder, GiveUpInOrder
<1>4. CASE Restart
  BY <1>4, RestartInOrder
<1> QED BY <1>1, <1>2, <1>3, <1>4, ArriveInOrder, StepInOrder DEF Next

\* Inv is inductive.
LEMMA InvNext == Inv /\ [Next]_vars => Inv'
<1> SUFFICES ASSUME Inv, [Next]_vars PROVE Inv'
  OBVIOUS
<1>1. Typed /\ Typed'
  BY TypedNext DEF Inv
<1>2. spoiled' = {} => InOrder'
  BY <1>1, SpoiledGrows, InOrderStep DEF Inv
<1> QED BY <1>1, <1>2 DEF Inv

\* Inv holds at the start.
LEMMA InvInit == Init => Inv
BY TypedInit, InOrderInit DEF Inv

\* What Inv says of the tree at rest.
LEMMA InvAttached == Inv => Attached
BY DEF Inv, Attached, InOrder

\* Attached: as long as none of the listed causes has struck, every row that no request is
\* working on hangs at the top or right below the folder its path says, whatever renames,
\* moves, uploads and deletes run side by side (qol.go:17-210, server.go:1168-1640).
THEOREM AlwaysAttached == Spec => []Attached
BY InvInit, InvNext, InvAttached, PTL DEF Spec

\* The end of an upload changes no row.
LEMMA EndKeepsPlace ==
  ASSUME Inv, [Next]_vars, uploads' # uploads, uploads' \subseteq uploads, spoiled' = {}
  PROVE  files' = files
<1>1. Typed /\ InOrder
  BY SpoiledGrows DEF Inv
<1>2. ASSUME NEW r \in Requests, Arrive(r) PROVE FALSE
  BY <1>2 DEF Arrive, Rename, Move, Relocate, Transfer, Create, UploadTo, UploadDir, Delete,
            Begin
<1>3. ASSUME NEW r \in Requests, Step(r) PROVE FALSE
  <2>1. CASE ReadParent(r) \/ ReadDest(r) \/ LookUp(r) \/ ListBelow(r)
    BY <2>1 DEF ReadParent, ReadDest, LookUp, ListBelow
  <2>2. CASE Rebase(r) \/ RenameFile(r) \/ UpdateFileParent(r)
    BY <2>2 DEF Rebase, RenameFile, UpdateFileParent
  <2>3. CASE Insert(r) \/ Walk(r) \/ FindFile(r) \/ DeleteFile(r)
    BY <2>3 DEF Insert, Walk, FindFile, DeleteFile
  <2>4. CASE StoreFile(r)
    BY <2>4 DEF StoreFile
  <2> QED BY <1>3, <2>1, <2>2, <2>3, <2>4 DEF Step
<1>4. ASSUME NEW i, NEW on, SetTrashed(i, on) PROVE FALSE
  BY <1>4 DEF SetTrashed
<1>5. ASSUME NEW u \in uploads, Publish(u) PROVE files' = files
  BY <1>1, <1>5, PublishNothing
<1>6. ASSUME NEW u \in uploads, GiveUp(u) PROVE files' = files
  BY <1>6 DEF GiveUp
<1>7. CASE Restart
  BY <1>1, <1>7, RestartInOrder
<1>8. CASE UNCHANGED vars
  BY <1>8 DEF vars
<1> QED BY <1>2, <1>3, <1>4, <1>5, <1>6, <1>7, <1>8 DEF Next

\* UploadEndKeepsPlace: an upload that ends writes back its record without moving a row
\* that was moved, renamed or deleted meanwhile, as long as nothing is spoiled.
THEOREM UploadEnds == Spec => UploadEndKeepsPlace
<1>1. Inv /\ [Next]_vars =>
        [uploads' # uploads /\ uploads' \subseteq uploads /\ spoiled' = {} => files' = files]_vars
  BY EndKeepsPlace
<1> QED BY <1>1, InvInit, InvNext, PTL DEF Spec, UploadEndKeepsPlace

-----------------------------------------------------------------------------
(***************************************************************************)
(* Browsing: level by level.                                               *)
(***************************************************************************)

\* A set of numbers has a least one.
LEMMA Least ==
  ASSUME NEW S \in SUBSET Nat, S # {}
  PROVE  \E m \in S : \A k \in S : m <= k
<1> DEFINE T == {0 .. m : m \in S}
<1>1. \A m \in S : 0 .. m \in FiniteSubsetsOf(Nat)
  <2> SUFFICES ASSUME NEW m \in S PROVE 0 .. m \in FiniteSubsetsOf(Nat)
    OBVIOUS
  <2>1. 0 \in Int /\ m \in Int
    OBVIOUS
  <2>2. IsFiniteSet(0 .. m)
    BY <2>1, FS_Interval
  <2> QED BY <2>2 DEF FiniteSubsetsOf
<1>2. T \subseteq FiniteSubsetsOf(Nat) /\ T # {}
  BY <1>1
<1>3. IsWellFoundedOn(StrictSubsetOrdering(Nat), FiniteSubsetsOf(Nat))
  BY FS_StrictSubsetOrderingWellFounded
<1>4. PICK x \in T : \A y \in T : ~(<<y, x>> \in StrictSubsetOrdering(Nat))
  <2> HIDE DEF T
  <2> QED BY <1>2, <1>3, WFMin
<1>5. PICK m \in S : x = 0 .. m
  BY <1>4
<1>6. ASSUME NEW k \in S, k < m PROVE FALSE
  <2>1. 0 .. k \in T /\ 0 .. k \subseteq 0 .. m /\ m \in 0 .. m /\ m \notin 0 .. k
    BY <1>6
  <2>2. <<0 .. k, 0 .. m>> \in StrictSubsetOrdering(Nat)
    <3>1. 0 .. k \subseteq Nat /\ 0 .. m \subseteq Nat /\ 0 .. k # 0 .. m
      BY <2>1
    <3> QED BY <2>1, <3>1 DEF StrictSubsetOrdering
  <2> QED BY <1>4, <1>5, <2>1, <2>2
<1> QED BY <1>6

\* Every row hangs right below its parent.
InPlace == Table(files, issued) /\ \A i \in DOMAIN files : AttachedIn(files, i)

\* Neither row i nor a folder above it is in the trash.
Live(i) ==
  \A j \in DOMAIN files : IsPrefix(files[j].path, files[i].path) => ~files[j].trashed

\* The live rows down to a depth.
Level(n) == {i \in DOMAIN files : Live(i) /\ Len(files[i].path) <= n + 1}

\* A row is one deeper than its parent.
LEMMA Depth ==
  ASSUME InPlace, NEW i \in DOMAIN files
  PROVE  /\ files[i].path \in Paths /\ files[i].path \in Seq(Names)
         /\ Len(files[i].path) \in Nat /\ Len(files[i].path) > 0
         /\ \/ files[i].parent = Root /\ Len(files[i].path) = 1
            \/ /\ files[i].parent \in DOMAIN files /\ files[i].parent # Root
               /\ files[files[i].parent].dir
               /\ Front(files[i].path) = files[files[i].parent].path
               /\ Len(files[i].path) = Len(files[files[i].parent].path) + 1
               /\ Len(files[files[i].parent].path) > 0
<1>1. Table(files, issued) /\ AttachedIn(files, i)
  BY DEF InPlace
<1>2. \A k \in DOMAIN files : files[k].path \in Paths /\ files[k].path \in Seq(Names) /\ k # Root
  BY <1>1, TableRow
<1>3. \A k \in DOMAIN files : Len(files[k].path) \in Nat /\ Len(files[k].path) > 0
  BY <1>2, FrontOf
<1>4. Len(Front(files[i].path)) = Len(files[i].path) - 1
  BY <1>2, FrontOf
<1>5. CASE files[i].parent = Root /\ Len(files[i].path) = 1
  BY <1>2, <1>3, <1>5
<1>6. CASE /\ files[i].parent \in DOMAIN files /\ files[files[i].parent].dir
           /\ Front(files[i].path) = files[files[i].parent].path
  <2>1. Len(files[i].path) = Len(files[files[i].parent].path) + 1
    BY <1>3, <1>4, <1>6
  <2> QED BY <1>2, <1>3, <1>6, <2>1
<1> QED BY <1>1, <1>5, <1>6 DEF AttachedIn

\* A row at the top is live when it is not in the trash.
LEMMA LiveTop ==
  ASSUME InPlace, NEW i \in DOMAIN files, files[i].parent = Root
  PROVE  Live(i) <=> ~files[i].trashed
<1>0. Table(files, issued) /\ Len(files[i].path) = 1 /\ files[i].path \in Seq(Names)
  BY Depth DEF InPlace
<1>1. IsPrefix(files[i].path, files[i].path)
  BY <1>0, PrefixOrder
<1>2. ASSUME NEW j \in DOMAIN files, IsPrefix(files[j].path, files[i].path) PROVE j = i
  <2>1. files[j].path \in Seq(Names) /\ Len(files[j].path) \in Nat /\ Len(files[j].path) > 0
    BY Depth
  <2>2. Len(files[i].path) <= Len(files[j].path)
    BY <1>0, <2>1
  <2>3. files[j].path = files[i].path
    BY <1>0, <1>2, <2>1, <2>2, PrefixOrder
  <2> QED BY <1>0, <2>3 DEF Table
<1> QED BY <1>1, <1>2 DEF Live

\* A row below is live when it is not in the trash and its parent is live.
LEMMA LiveBelow ==
  ASSUME InPlace, NEW i \in DOMAIN files, files[i].parent # Root
  PROVE  Live(i) <=> ~files[i].trashed /\ Live(files[i].parent)
<1> DEFINE p == files[i].parent
<1>0. /\ Table(files, issued) /\ p \in DOMAIN files /\ Front(files[i].path) = files[p].path
      /\ files[i].path \in Paths /\ files[i].path \in Seq(Names)
      /\ \A j \in DOMAIN files : files[j].path \in Seq(Names)
  BY Depth DEF InPlace
<1> HIDE DEF p
<1>1. IsPrefix(files[i].path, files[i].path)
  BY <1>0, PrefixOrder
<1>2. ASSUME NEW j \in DOMAIN files
      PROVE  IsPrefix(files[j].path, files[i].path) <=> j = i \/ IsPrefix(files[j].path, files[p].path)
  <2>1. CASE files[j].path = files[i].path
    <3>1. j = i
      BY <1>0, <2>1 DEF Table
    <3> QED BY <1>1, <3>1
  <2>2. CASE files[j].path # files[i].path
    <3>1. IsPrefix(files[j].path, files[i].path) => IsPrefix(files[j].path, files[p].path)
      BY <1>0, <2>2, PrefixFront
    <3>2. IsPrefix(files[p].path, files[i].path)
      BY <1>0, FrontOf
    <3>3. IsPrefix(files[j].path, files[p].path) => IsPrefix(files[j].path, files[i].path)
      BY <1>0, <3>2, PrefixOrder
    <3> QED BY <2>2, <3>1, <3>3
  <2> QED BY <2>1, <2>2
<1>3. Live(i) <=> ~files[i].trashed /\ Live(p)
  BY <1>0, <1>2 DEF Live
<1> QED BY <1>3 DEF p

\* ListFiles of a folder, and of the top.
LEMMA ListFilesIs ==
  ASSUME InPlace
  PROVE  /\ ListFiles(Root) = {i \in DOMAIN files : ~files[i].trashed /\ files[i].parent = Root}
         /\ \A p \in DOMAIN files :
              ListFiles(p) = {i \in DOMAIN files : ~files[i].trashed /\ files[i].parent = p}
<1>1. \A i \in DOMAIN files : files[i].parent = Root \/ IsFolder(files[i].parent)
  BY Depth DEF IsFolder
<1>2. Root \notin DOMAIN files
  BY RootIsNoRow DEF InPlace
<1> QED BY <1>1, <1>2 DEF ListFiles

\* The live rows at the top are what the top lists.
LEMMA FirstLevel ==
  ASSUME InPlace PROVE Level(0) = ListFiles(Root)
<1>1. ASSUME NEW i \in DOMAIN files
      PROVE  Live(i) /\ Len(files[i].path) <= 0 + 1 <=> ~files[i].trashed /\ files[i].parent = Root
  <2>1. CASE files[i].parent = Root
    <3>1. Len(files[i].path) = 1
      BY <2>1, Depth
    <3> QED BY <2>1, <3>1, LiveTop
  <2>2. CASE files[i].parent # Root
    <3> DEFINE p == files[i].parent
    <3>1. /\ Len(files[i].path) = Len(files[p].path) + 1 /\ Len(files[p].path) > 0
          /\ p \in DOMAIN files
      BY <2>2, Depth
    <3>2. Len(files[p].path) \in Nat
      BY <3>1, Depth
    <3> HIDE DEF p
    <3>3. ~(Len(files[i].path) <= 0 + 1)
      BY <3>1, <3>2
    <3> QED BY <2>2, <3>3
  <2> QED BY <2>1, <2>2
<1>2. Level(0) = {i \in DOMAIN files : ~files[i].trashed /\ files[i].parent = Root}
  BY <1>1 DEF Level
<1> QED BY <1>2, ListFilesIs

\* The live rows one deeper are what the live folders list.
LEMMA NextLevel ==
  ASSUME InPlace, NEW n \in Nat, n # 0
  PROVE  Level(n) =
           Level(n - 1) \cup UNION {ListFiles(i) : i \in {j \in Level(n - 1) : files[j].dir}}
<1> DEFINE S == UNION {ListFiles(i) : i \in {j \in Level(n - 1) : files[j].dir}}
<1>1. \A x \in S : x \in DOMAIN files
  BY DEF ListFiles
<1>2. ASSUME NEW x \in DOMAIN files
      PROVE  x \in S <=> /\ ~files[x].trashed /\ files[x].parent \in DOMAIN files
                         /\ Live(files[x].parent) /\ Len(files[files[x].parent].path) <= n
                         /\ files[files[x].parent].dir
  <2>1. x \in S <=> \E i \in Level(n - 1) : files[i].dir /\ x \in ListFiles(i)
    OBVIOUS
  <2>2. \A i \in DOMAIN files : x \in ListFiles(i) <=> ~files[x].trashed /\ files[x].parent = i
    BY ListFilesIs
  <2>3. \A i : i \in Level(n - 1) <=> i \in DOMAIN files /\ Live(i) /\ Len(files[i].path) <= n - 1 + 1
    BY DEF Level
  <2>4. n - 1 + 1 = n
    OBVIOUS
  <2> HIDE DEF S
  <2> QED BY <2>1, <2>2, <2>3, <2>4
<1> HIDE DEF S
<1>3. ASSUME NEW x \in DOMAIN files PROVE x \in Level(n) <=> x \in Level(n - 1) \/ x \in S
  <2>0. /\ x \in Level(n) <=> Live(x) /\ Len(files[x].path) <= n + 1
        /\ x \in Level(n - 1) <=> Live(x) /\ Len(files[x].path) <= n
    <3>1. n - 1 + 1 = n
      OBVIOUS
    <3> QED BY <3>1 DEF Level
  <2>1. CASE files[x].parent = Root
    <3>1. Len(files[x].path) = 1 /\ Root \notin DOMAIN files
      BY <2>1, Depth, RootIsNoRow DEF InPlace
    <3>2. Len(files[x].path) <= n + 1 /\ Len(files[x].path) <= n
      BY <3>1
    <3> QED BY <1>2, <2>0, <2>1, <3>1, <3>2
  <2>2. CASE files[x].parent # Root
    <3> DEFINE p == files[x].parent
    <3>1. /\ Len(files[x].path) = Len(files[p].path) + 1
          /\ p \in DOMAIN files /\ files[p].dir
      BY <2>2, Depth
    <3>2. Len(files[p].path) \in Nat
      BY <3>1, Depth
    <3>3. Live(x) <=> ~files[x].trashed /\ Live(p)
      BY <2>2, LiveBelow
    <3>4. x \in S <=> ~files[x].trashed /\ Live(p) /\ Len(files[p].path) <= n
      BY <1>2, <3>1
    <3> HIDE DEF p
    <3>5. Len(files[x].path) <= n + 1 <=> Len(files[p].path) <= n
      BY <3>1, <3>2
    <3>6. Len(files[x].path) <= n => Len(files[x].path) <= n + 1
      BY <3>1, <3>2
    <3> QED BY <2>0, <3>3, <3>4, <3>5, <3>6
  <2> QED BY <2>1, <2>2
<1>4. \A x : x \in Level(n) \/ x \in Level(n - 1) => x \in DOMAIN files
  BY DEF Level
<1>5. Level(n) = Level(n - 1) \cup S
  BY <1>1, <1>3, <1>4
<1> QED BY <1>5 DEF S

\* So browsing n levels down shows the live rows of those levels.
LEMMA ShownIs ==
  ASSUME InPlace, NEW n \in Nat
  PROVE  Shown[n] = Level(n)
<1> DEFINE Grown(X) == X \cup UNION {ListFiles(i) : i \in {j \in X : files[j].dir}}
<1> DEFINE g == [m \in Nat |-> Level(m)]
<1>1. g = [m \in Nat |-> IF m = 0 THEN ListFiles(Root) ELSE Grown(g[m - 1])]
  <2>1. ASSUME NEW m \in Nat
        PROVE  g[m] = IF m = 0 THEN ListFiles(Root) ELSE Grown(g[m - 1])
    <3>1. CASE m = 0
      BY <3>1, FirstLevel
    <3>2. CASE m # 0
      <4>1. m - 1 \in Nat
        BY <3>2
      <4>2. g[m - 1] = Level(m - 1) /\ g[m] = Level(m)
        BY <4>1
      <4>3. Level(m) = Grown(Level(m - 1))
        BY <3>2, NextLevel
      <4> QED BY <3>2, <4>2, <4>3
    <3> QED BY <3>1, <3>2
  <2> QED BY <2>1
<1>2. Shown = [m \in Nat |-> IF m = 0 THEN ListFiles(Root) ELSE Grown(Shown[m - 1])]
  <2> HIDE DEF g
  <2> QED BY <1>1 DEF Shown
<1>3. Shown[0] = Level(0) /\ \A m \in Nat : m # 0 => Shown[m] = Grown(Shown[m - 1])
  <2> DEFINE s == Shown
  <2>1. s = [m \in Nat |-> IF m = 0 THEN ListFiles(Root) ELSE Grown(s[m - 1])]
    BY <1>2
  <2> HIDE DEF s
  <2>2. s[0] = ListFiles(Root) /\ \A m \in Nat : m # 0 => s[m] = Grown(s[m - 1])
    <3> HIDE DEF Grown
    <3> QED BY <2>1
  <2> QED BY <2>2, FirstLevel DEF s
<1>4. \A m \in Nat : m # 0 => Level(m) = Grown(Level(m - 1))
  BY NextLevel
<1> HIDE DEF g, Grown
<1> DEFINE Bad == {m \in Nat : Shown[m] # Level(m)}
<1>5. Bad = {}
  <2> SUFFICES ASSUME Bad # {} PROVE FALSE
    OBVIOUS
  <2>0. Bad \in SUBSET Nat
    OBVIOUS
  <2> HIDE DEF Bad
  <2>1. PICK m \in Bad : \A k \in Bad : m <= k
    BY <2>0, Least
  <2> USE DEF Bad
  <2>2. m \in Nat /\ m # 0 /\ m - 1 \in Nat
    BY <1>3, <2>1
  <2>3. m - 1 \notin Bad
    BY <2>1, <2>2
  <2>4. Shown[m - 1] = Level(m - 1)
    BY <2>2, <2>3
  <2> QED BY <1>3, <1>4, <2>1, <2>2, <2>4
<1> QED BY <1>5

\* Above a row there is a row at every depth.
LEMMA Ancestors ==
  ASSUME InPlace, NEW i \in DOMAIN files, NEW k \in 1 .. Len(files[i].path)
  PROVE  \E j \in DOMAIN files : Len(files[j].path) = k /\ IsPrefix(files[j].path, files[i].path)
<1> DEFINE L == Len(files[i].path)
<1> DEFINE Some(m) ==
  \E j \in DOMAIN files : Len(files[j].path) = L - m /\ IsPrefix(files[j].path, files[i].path)
<1> DEFINE Bad == {m \in 0 .. L - 1 : ~Some(m)}
<1>1. L \in Nat /\ L > 0 /\ files[i].path \in Seq(Names)
  BY Depth
<1>2. Bad = {}
  <2> SUFFICES ASSUME Bad # {} PROVE FALSE
    OBVIOUS
  <2>1. Bad \in SUBSET Nat
    BY <1>1
  <2> HIDE DEF Bad
  <2>2. PICK m \in Bad : \A q \in Bad : m <= q
    BY <2>1, Least
  <2> USE DEF Bad
  <2>3. m \in 0 .. L - 1 /\ ~Some(m)
    BY <2>2
  <2>4. m # 0
    <3>1. IsPrefix(files[i].path, files[i].path) /\ L = L - 0
      BY <1>1, PrefixOrder
    <3>2. Some(0)
      BY <3>1
    <3> QED BY <2>3, <3>2
  <2>5. m - 1 \in 0 .. L - 1 /\ m - 1 \notin Bad
    <3>1. m \in Nat /\ m - 1 \in 0 .. L - 1 /\ ~(m <= m - 1)
      BY <1>1, <2>3, <2>4
    <3> HIDE DEF Bad
    <3> QED BY <2>2, <3>1
  <2>6. Some(m - 1)
    BY <2>5
  <2>7. PICK j \in DOMAIN files : Len(files[j].path) = L - (m - 1) /\ IsPrefix(files[j].path, files[i].path)
    BY <2>6
  <2> DEFINE p == files[j].parent
  <2> HIDE DEF L
  <2>8. Len(files[j].path) # 1
    BY <1>1, <2>3, <2>7
  <2>9. /\ p \in DOMAIN files /\ Front(files[j].path) = files[p].path
        /\ Len(files[j].path) = Len(files[p].path) + 1
        /\ files[j].path \in Paths /\ files[j].path \in Seq(Names)
    BY <2>8, Depth
  <2>10. files[p].path \in Seq(Names) /\ Len(files[p].path) \in Nat
    BY <2>9, Depth
  <2> HIDE DEF p
  <2>11. IsPrefix(files[p].path, files[j].path)
    BY <2>9, FrontOf
  <2>12. IsPrefix(files[p].path, files[i].path)
    BY <1>1, <2>7, <2>9, <2>10, <2>11, PrefixOrder
  <2>13. Len(files[p].path) = L - m
    <3>1. L - (m - 1) = Len(files[p].path) + 1 /\ m \in Nat
      BY <2>3, <2>7, <2>9
    <3> QED BY <1>1, <2>10, <3>1
  <2> QED BY <2>3, <2>9, <2>12, <2>13
<1>3. L - k \in 0 .. L - 1 /\ L - (L - k) = k
  BY <1>1
<1>4. Some(L - k)
  BY <1>2, <1>3
<1> QED BY <1>3, <1>4

\* No row is deeper than there are rows.
LEMMA NotDeep ==
  ASSUME InPlace, NEW i \in DOMAIN files
  PROVE  Len(files[i].path) <= Cardinality(DOMAIN files)
<1> DEFINE L == Len(files[i].path)
<1> DEFINE At(k) == CHOOSE j \in DOMAIN files : Len(files[j].path) = k /\ IsPrefix(files[j].path, files[i].path)
<1> DEFINE f == [k \in 1 .. L |-> At(k)]
<1>1. \A k \in 1 .. L : At(k) \in DOMAIN files /\ Len(files[At(k)].path) = k
  BY Ancestors
<1> HIDE DEF At
<1>2. f \in Injection(1 .. L, DOMAIN files)
  BY <1>1 DEF Injection, IsInjective
<1> HIDE DEF f
<1>3. IsFiniteSet(DOMAIN files)
  BY DEF InPlace, Table
<1>4. Cardinality(1 .. L) <= Cardinality(DOMAIN files)
  BY <1>2, <1>3, FS_Injection
<1>5. L \in Nat /\ L > 0
  BY Depth
<1> HIDE DEF L
<1>6. Cardinality(1 .. L) = L
  <2>1. 1 \in Int /\ L \in Int
    BY <1>5
  <2>2. Cardinality(1 .. L) = IF 1 > L THEN 0 ELSE L - 1 + 1
    BY <2>1, FS_Interval
  <2> QED BY <1>5, <2>2
<1> QED BY <1>4, <1>6 DEF L

\* So all levels show all live rows.
LEMMA InvShows == Inv => BrowsingShowsLive
<1> SUFFICES ASSUME Inv, spoiled = {}, \A r \in Requests : h[r] = Idle
             PROVE  Shown[Cardinality(DOMAIN files)] =
                      {i \in DOMAIN files : \A j \in DOMAIN files :
                          IsPrefix(files[j].path, files[i].path) => ~files[j].trashed}
  BY DEF BrowsingShowsLive
<1> DEFINE c == Cardinality(DOMAIN files)
<1>1. InPlace
  BY AllAttached DEF Inv, InPlace, Typed
<1>2. c \in Nat
  BY <1>1, FS_CardinalityType DEF InPlace, Table
<1>3. \A i \in DOMAIN files : Len(files[i].path) <= c /\ Len(files[i].path) \in Nat
  BY <1>1, NotDeep, Depth
<1>4. Shown[c] = Level(c)
  BY <1>1, <1>2, ShownIs
<1> HIDE DEF c
<1>5. \A i \in DOMAIN files : Len(files[i].path) <= c + 1
  BY <1>2, <1>3
<1>6. Level(c) = {i \in DOMAIN files : \A j \in DOMAIN files :
                     IsPrefix(files[j].path, files[i].path) => ~files[j].trashed}
  BY <1>5 DEF Level, Live
<1> QED BY <1>4, <1>6 DEF c

\* BrowsingShowsLive: whoever opens folder after folder from the top sees exactly the rows
\* that are not in the trash themselves or through a folder above them.
THEOREM BrowsingAgrees == Spec => []BrowsingShowsLive
BY InvInit, InvNext, InvShows, PTL DEF Spec
=============================================================================
