----------------------------- MODULE FetchProofs -----------------------------
(***************************************************************************)
(* Proofs about the two halves of internal/downloader.                     *)
(*                                                                         *)
(* ChunkFetch, for any number of readers, files, parts, uploads, deletes   *)
(* and faults: what a fetch delivers is that part of that file, a part is  *)
(* given up only when nothing readable is left that the database named,    *)
(* and what VerifyFile and GetFileBytes answer is true as far as the list  *)
(* of rows they were given is.                                             *)
(*                                                                         *)
(* The invariant, FetchInv, has five parts.  The catalog has its types     *)
(* (CatalogShape) and is true (CatalogTrue): the bytes behind a row are    *)
(* bytes of its part, and a file that has a hash and was never deleted has *)
(* all its parts, of as many as its one upload had.  What                  *)
(* is known of a reader (Truth) and of a fetch (Tries) is stated over      *)
(* explicit tables, so that it can be said of the tables before a change   *)
(* and after it; a change of the catalog keeps both (TruthStays, TriesStay)*)
(* because it moves only one way (CatalogMoves).  The cache is true as     *)
(* long as what was uploaded stays uploaded (CacheTrue).                   *)
(*                                                                         *)
(* Stream, for every set of stored parts (with or without gaps), every     *)
(* range and every number of goroutines: it implements OrderedDelivery     *)
(* (the invariant is Ordered), and no wake-up is lost (Awake).             *)
(***************************************************************************)
EXTENDS ChunkFetch, Stream, FiniteSetTheorems, TLAPS

-----------------------------------------------------------------------------
(***************************************************************************)
(* ChunkFetch: data.                                                       *)
(***************************************************************************)
FileRow == [size : Nat, sha : Contents \cup {None}]
CopyRow == [file : Files, part : Parts, msg : Ids]
Message == [file : Files, part : Parts, body : Bodies]
Pick    == [id : Ids, msg : Ids]
Planned == [id : Ids, msg : Ids, sha : Bodies]
Work    == [file : Files, content : Contents, sha : Contents \cup {None}, todo : SUBSET Parts,
            counted : BOOLEAN]

\* Setting one entry of a map changes that entry.
LEMMA WithIs ==
  ASSUME NEW f, NEW x, NEW v
  PROVE  /\ DOMAIN With(f, x, v) = DOMAIN f \cup {x}
         /\ With(f, x, v)[x] = v
         /\ \A y \in DOMAIN f \ {x} : With(f, x, v)[y] = f[y]
BY DEF With

\* Parts are numbered from 0.
LEMMA PartsType ==
  /\ IsFiniteSet(Parts) /\ Cardinality(Parts) \in Nat
  /\ Parts \subseteq Nat
  /\ \A k \in Nat : k \in Parts <=> k < Cardinality(Parts)
<1>1. IsFiniteSet(Parts) /\ Cardinality(Parts) \in Nat
  BY FetchAssumption, FS_CardinalityType
<1> QED
  BY <1>1, FetchAssumption

\* What is uploaded has at least one part, and no more than there are numbers for.
LEMMA ContentType ==
  ASSUME NEW c \in Contents
  PROVE  /\ Len(c) \in Nat /\ Len(c) > 0
         /\ c \in [1 .. Len(c) -> Bodies]
         /\ \A k \in Nat : k < Len(c) => k \in Parts /\ c[k + 1] \in Bodies
<1>1. PICK m \in 0 .. Cardinality(Parts) : c \in [1 .. m -> Bodies]
  BY PartsType DEF Contents, SeqOf
<1>2. m \in Nat /\ m <= Cardinality(Parts)
  BY <1>1, PartsType
<1>3. Len(c) = m
  BY <1>1, <1>2
<1>4. m # 0
  <2> SUFFICES ASSUME m = 0 PROVE FALSE
    OBVIOUS
  <2>1. c = <<>>
    BY <1>1
  <2> QED
    BY <2>1 DEF Contents
<1> QED
  BY <1>1, <1>2, <1>3, <1>4, PartsType

\* The plaintexts of part k are bodies, and there is a part k.
LEMMA VariantsType ==
  ASSUME NEW cs \in SUBSET Contents, NEW k \in Nat, NEW b \in Variants(cs, k)
  PROVE  k \in Parts /\ b \in Bodies
<1>1. PICK c \in cs : Len(c) > k /\ b = c[k + 1]
  BY DEF Variants
<1>2. c \in Contents
  OBVIOUS
<1> QED
  BY <1>1, <1>2, ContentType

\* Of a file uploaded once there is one plaintext for every part.
LEMMA VariantsOnce ==
  ASSUME NEW c \in Contents
  PROVE  \A b : \A k \in Nat : b \in Variants({c}, k) <=> k < Len(c) /\ b = c[k + 1]
<1>1. Len(c) \in Nat
  BY ContentType
<1> QED
  BY <1>1 DEF Variants

\* More contents, more plaintexts.
LEMMA VariantsGrow ==
  ASSUME NEW cs, NEW ds, cs \subseteq ds, NEW k
  PROVE  Variants(cs, k) \subseteq Variants(ds, k)
BY DEF Variants

-----------------------------------------------------------------------------
(***************************************************************************)
(* The catalog.                                                            *)
(***************************************************************************)

\* Types of the tables, of the messages on Discord and of the upload under way.
CatalogShape ==
  /\ DOMAIN files \subseteq Files /\ \A f \in DOMAIN files : files[f] \in FileRow
  /\ DOMAIN rows \subseteq taken /\ DOMAIN posted \subseteq taken /\ taken \subseteq Ids
  /\ \A i \in DOMAIN rows : rows[i] \in CopyRow /\ rows[i].msg \in DOMAIN posted
  /\ \A m \in DOMAIN posted : posted[m] \in Message
  /\ discord \subseteq DOMAIN posted /\ sweep \subseteq DOMAIN posted
  /\ versions \in [Files -> SUBSET Contents] /\ deleted \subseteq Files
  /\ up = NoUpload \/ up \in Work

\* There is a row for part k of f.
HasPart(rs, f, k) == \E i \in DOMAIN rs : rs[i].file = f /\ rs[i].part = k

\* There are rows for all the parts of f, if it was uploaded once and never deleted.
Complete(rs, f) ==
  f \notin deleted => \A c \in Contents : versions[f] = {c} =>
    \A k \in Parts : k < Len(c) => HasPart(rs, f, k)

\* The record of f says the truth: its size and its hash are those of a version, and
\* with a hash it is complete.
FileTrue(f) ==
  /\ \E c \in versions[f] : files[f].size = Len(c)
  /\ files[f].sha # None => files[f].sha \in versions[f] /\ Complete(rows, f)

\* What an upload has not yet to store is stored, unless the file was deleted.
UploadTrue ==
  /\ up.content \in versions[up.file]
  /\ up.sha # None => up.sha \in versions[up.file]
  /\ up.file \notin deleted => \A k \in Parts :
       k < Len(up.content) /\ k \notin up.todo => HasPart(rows, up.file, k)
  /\ \A k \in up.todo : k < Len(up.content)
  /\ up.counted => up.todo = {}

\* The catalog says the truth: a row has the bytes of its part, and so on.
CatalogTrue ==
  /\ \A i \in DOMAIN rows : posted[rows[i].msg].body \in Variants(versions[rows[i].file], rows[i].part)
  /\ \A f \in DOMAIN files : FileTrue(f)
  /\ up # NoUpload => UploadTrue

\* How the catalog moves under its readers: what was uploaded, posted, deleted or
\* handed out stays so, a file that is not deleted keeps its hash, and a row that is
\* there has always been the same.
CatalogMoves ==
  /\ \A f \in Files : versions[f] \subseteq versions'[f]
  /\ deleted \subseteq deleted' /\ taken \subseteq taken'
  /\ DOMAIN posted \subseteq DOMAIN posted' /\ \A m \in DOMAIN posted : posted'[m] = posted[m]
  /\ \A f \in DOMAIN files : f \notin deleted' /\ files[f].sha # None =>
       f \in DOMAIN files' /\ files'[f].sha # None
  /\ \A i \in DOMAIN rows' : i \in taken => i \in DOMAIN rows /\ rows'[i] = rows[i]

\* Rows that stay keep a file complete, as long as no other version comes.
LEMMA CompleteStays ==
  ASSUME NEW f \in Files, Complete(rows, f), deleted \subseteq deleted',
         versions'[f] = versions[f] \/ f \in deleted',
         \A k : f \notin deleted' /\ HasPart(rows, f, k) => HasPart(rows', f, k)
  PROVE  Complete(rows, f)'
BY DEF Complete

\* An upload begins.
LEMMA BeginStep ==
  ASSUME CatalogShape, CatalogTrue, NEW f \in Files, NEW c \in Contents, BeginUpload(f, c)
  PROVE  CatalogShape' /\ CatalogTrue' /\ CatalogMoves
<1> DEFINE S == IF f \in DOMAIN files THEN files[f].sha ELSE None
           F == [size |-> Len(c), sha |-> S]
           U == [file |-> f, content |-> c, sha |-> S, todo |-> 0 .. Len(c) - 1, counted |-> FALSE]
<1>0. /\ files' = With(files, f, F)
      /\ up = NoUpload /\ up' = [file |-> f, content |-> c, sha |-> files'[f].sha,
                                 todo |-> 0 .. Len(c) - 1, counted |-> FALSE]
      /\ versions' = [versions EXCEPT ![f] = @ \cup {c}]
      /\ UNCHANGED <<rows, taken, posted, discord, sweep, deleted>>
      /\ f \in DOMAIN files \/ versions[f] = {}
  BY DEF BeginUpload
<1>1. Len(c) \in Nat /\ Len(c) > 0 /\ \A k \in Nat : k < Len(c) => k \in Parts
  BY ContentType
<1>2. F \in FileRow /\ S \in Contents \cup {None} /\ F.sha = S
  BY <1>1 DEF FileRow, CatalogShape
<1>13. f \in DOMAIN files => S = files[f].sha
  OBVIOUS
<1>14. f \notin DOMAIN files => S = None
  OBVIOUS
<1> HIDE DEF F, S
<1>3. /\ DOMAIN files' = DOMAIN files \cup {f} /\ files'[f] = F
      /\ \A g \in DOMAIN files \ {f} : files'[g] = files[g]
  BY <1>0 DEF With
<1>4. /\ versions' \in [Files -> SUBSET Contents]
      /\ versions'[f] = versions[f] \cup {c} /\ \A g \in Files \ {f} : versions'[g] = versions[g]
  BY <1>0 DEF CatalogShape
<1>15. up' = U
  BY <1>0, <1>2, <1>3
<1>5. U \in Work
  BY <1>1, <1>2 DEF Work
<1>6. CatalogShape'
  BY <1>0, <1>2, <1>3, <1>4, <1>5, <1>15 DEF CatalogShape
<1>7. CatalogMoves
  <2>1. \A g \in DOMAIN files : g \in DOMAIN files' /\ files'[g].sha = files[g].sha
    BY <1>2, <1>3, <1>13
  <2>3. \A g \in Files : versions[g] \subseteq versions'[g]
    BY <1>4
  <2> QED
    BY <1>0, <2>1, <2>3 DEF CatalogMoves
<1>8. ASSUME NEW i \in DOMAIN rows'
      PROVE  posted'[rows'[i].msg].body \in Variants(versions'[rows'[i].file], rows'[i].part)
  <2>1. /\ rows[i].file \in Files
        /\ posted[rows[i].msg].body \in Variants(versions[rows[i].file], rows[i].part)
    BY <1>0 DEF CatalogShape, CatalogTrue, CopyRow
  <2>2. versions[rows[i].file] \subseteq versions'[rows[i].file]
    BY <1>4, <2>1
  <2> QED
    BY <1>0, <1>3, <2>1, <2>2, VariantsGrow
<1>9. S # None => f \in DOMAIN files /\ S \in versions[f] /\ Complete(rows, f)
  BY <1>13, <1>14 DEF CatalogTrue, FileTrue
<1>10. ASSUME NEW g \in DOMAIN files'
       PROVE  FileTrue(g)'
  <2>1. CASE g # f
    <3>1. g \in DOMAIN files /\ g \in Files /\ files'[g] = files[g] /\ versions'[g] = versions[g]
      BY <1>3, <1>4, <2>1 DEF CatalogShape
    <3> QED
      BY <1>0, <3>1 DEF CatalogTrue, FileTrue, Complete
  <2>2. CASE g = f
    <3>1. \E d \in versions'[f] : F.size = Len(d)
      BY <1>4 DEF F
    <3>2. S # None => Complete(rows, f)'
      <4> SUFFICES ASSUME S # None, f \notin deleted, NEW d \in Contents, versions'[f] = {d}
                   PROVE  \A k \in Parts : k < Len(d) => HasPart(rows, f, k)
        BY <1>0 DEF Complete
      <4>1. versions[f] = {d}
        BY <1>4, <1>9
      <4> QED
        BY <1>9, <4>1 DEF Complete
    <3> QED
      BY <1>2, <1>3, <1>4, <1>9, <2>2, <3>1, <3>2 DEF FileTrue
  <2> QED
    BY <2>1, <2>2
<1>11. UploadTrue'
  <2>1. /\ up'.content = c /\ up'.file = f /\ up'.sha = S /\ up'.todo = 0 .. Len(c) - 1
        /\ up'.counted = FALSE
    BY <1>15
  <2>2. c \in versions'[f] /\ (S # None => S \in versions'[f])
    BY <1>4, <1>9
  <2>3. \A k \in Parts : k < Len(c) => k \in 0 .. Len(c) - 1
    BY <1>1, PartsType
  <2>4. \A k \in 0 .. Len(c) - 1 : k < Len(c)
    BY <1>1
  <2> HIDE DEF U
  <2> QED
    BY <2>1, <2>2, <2>3, <2>4 DEF UploadTrue
<1> QED
  BY <1>6, <1>7, <1>8, <1>10, <1>11 DEF CatalogTrue

\* A part is stored.
LEMMA StoreStep ==
  ASSUME CatalogShape, CatalogTrue, NEW p \in Parts, StorePart(p)
  PROVE  /\ CatalogShape' /\ CatalogTrue' /\ CatalogMoves
         /\ \A i \in DOMAIN rows : i \in DOMAIN rows' /\ rows'[i] = rows[i]
<1> DEFINE b == up.content[p + 1]
<1>0. /\ p \in up.todo /\ up' = [up EXCEPT !.todo = @ \ {p}]
      /\ UNCHANGED <<files, sweep, versions, deleted>>
  BY DEF StorePart
<1>1. up \in Work /\ up # NoUpload
  BY <1>0 DEF CatalogShape, NoUpload
<1>2. /\ up.file \in Files /\ up.content \in Contents /\ up.content \in versions[up.file]
      /\ p \in Nat /\ p < Len(up.content)
  BY <1>0, <1>1, PartsType DEF Work, CatalogTrue, UploadTrue
<1>3. b \in Bodies /\ b \in Variants(versions[up.file], p)
  BY <1>2, ContentType DEF Variants
<1> HIDE DEF b
<1>4. PICK i \in Ids \ taken :
        /\ taken' = taken \cup {i}
        /\ \/ /\ rows' = With(rows, i, [file |-> up.file, part |-> p, msg |-> i])
              /\ posted' = With(posted, i, [file |-> up.file, part |-> p, body |-> b])
              /\ discord' = discord \cup {i}
           \/ /\ \E j \in DOMAIN rows :
                   posted[rows[j].msg].body = b /\ rows' = With(rows, i, [file |-> up.file, part |-> p, msg |-> rows[j].msg])
              /\ UNCHANGED <<posted, discord>>
  BY DEF StorePart, Sha, b
<1>17. i \notin DOMAIN rows /\ i \notin DOMAIN posted /\ DOMAIN posted \subseteq taken /\ taken \subseteq Ids
  BY <1>4 DEF CatalogShape
<1>5. PICK m : /\ rows' = With(rows, i, [file |-> up.file, part |-> p, msg |-> m])
               /\ m \in DOMAIN posted' /\ posted'[m].body = b
               /\ DOMAIN posted \subseteq DOMAIN posted'
               /\ \A n \in DOMAIN posted : posted'[n] = posted[n]
               /\ DOMAIN posted' \subseteq taken' /\ \A n \in DOMAIN posted' : posted'[n] \in Message
               /\ discord' \subseteq DOMAIN posted'
  <2>1. CASE /\ rows' = With(rows, i, [file |-> up.file, part |-> p, msg |-> i])
             /\ posted' = With(posted, i, [file |-> up.file, part |-> p, body |-> b])
             /\ discord' = discord \cup {i}
    <3>1. /\ DOMAIN posted' = DOMAIN posted \cup {i}
          /\ posted'[i] = [file |-> up.file, part |-> p, body |-> b]
          /\ \A n \in DOMAIN posted \ {i} : posted'[n] = posted[n]
      BY <2>1 DEF With
    <3>2. posted'[i] \in Message /\ posted'[i].body = b
      BY <1>2, <1>3, <3>1 DEF Message
    <3> QED
      BY <1>4, <1>17, <2>1, <3>1, <3>2 DEF CatalogShape
  <2>2. CASE /\ \E j \in DOMAIN rows :
                   posted[rows[j].msg].body = b /\ rows' = With(rows, i, [file |-> up.file, part |-> p, msg |-> rows[j].msg])
             /\ UNCHANGED <<posted, discord>>
    BY <1>4, <2>2 DEF CatalogShape
  <2> QED
    BY <1>4, <2>1, <2>2
<1>6. /\ DOMAIN rows' = DOMAIN rows \cup {i}
      /\ rows'[i] = [file |-> up.file, part |-> p, msg |-> m]
      /\ \A j \in DOMAIN rows : rows'[j] = rows[j]
  BY <1>17, <1>5 DEF With
<1>7. rows'[i] \in CopyRow /\ rows'[i].msg = m /\ rows'[i].file = up.file /\ rows'[i].part = p
  <2>1. m \in Ids
    BY <1>4, <1>5, <1>17
  <2> QED
    BY <1>2, <1>6, <2>1 DEF CopyRow
<1>14. /\ up' \in Work /\ up'.file = up.file /\ up'.content = up.content /\ up'.sha = up.sha
       /\ up'.todo = up.todo \ {p} /\ up'.counted = up.counted
  BY <1>0, <1>1 DEF Work
<1>9. CatalogShape'
  <2>1. DOMAIN rows' \subseteq taken' /\ taken' \subseteq Ids
    BY <1>4, <1>6, <1>17 DEF CatalogShape
  <2>2. \A j \in DOMAIN rows' : rows'[j] \in CopyRow /\ rows'[j].msg \in DOMAIN posted'
    BY <1>5, <1>6, <1>7 DEF CatalogShape
  <2> QED
    BY <1>0, <1>5, <1>14, <2>1, <2>2 DEF CatalogShape
<1>10. CatalogMoves
  BY <1>0, <1>4, <1>5, <1>6 DEF CatalogMoves
<1>11. ASSUME NEW j \in DOMAIN rows'
       PROVE  posted'[rows'[j].msg].body \in Variants(versions'[rows'[j].file], rows'[j].part)
  <2>1. CASE j = i
    BY <1>0, <1>1, <1>3, <1>5, <1>7, <2>1
  <2>2. CASE j # i
    <3>1. j \in DOMAIN rows /\ rows'[j] = rows[j] /\ rows[j].msg \in DOMAIN posted
      BY <1>6, <2>2 DEF CatalogShape
    <3>2. posted'[rows[j].msg] = posted[rows[j].msg]
      BY <1>5, <3>1
    <3> QED
      BY <1>0, <3>1, <3>2 DEF CatalogTrue
  <2> QED
    BY <2>1, <2>2
<1>12. \A g, k : HasPart(rows, g, k) => HasPart(rows', g, k)
  BY <1>6 DEF HasPart
<1>13. HasPart(rows', up.file, p)
  BY <1>6, <1>7 DEF HasPart
<1>15. UploadTrue'
  BY <1>0, <1>1, <1>12, <1>13, <1>14 DEF CatalogTrue, UploadTrue
<1>16. \A g \in DOMAIN files' : FileTrue(g)'
  BY <1>0, <1>12 DEF CatalogTrue, FileTrue, Complete
<1> QED
  BY <1>6, <1>9, <1>10, <1>11, <1>15, <1>16 DEF CatalogTrue

\* The rows of an upload are counted.
LEMMA CountStep ==
  ASSUME CatalogShape, CatalogTrue, Count
  PROVE  CatalogShape' /\ CatalogTrue' /\ CatalogMoves
<1>1. /\ up # NoUpload /\ up.todo = {} /\ up' = [up EXCEPT !.counted = TRUE]
      /\ UNCHANGED <<files, rows, taken, posted, discord, sweep, versions, deleted>>
  BY DEF Count
<1>2. up \in Work
  BY <1>1 DEF CatalogShape
<1>3. /\ up' \in Work /\ up'.file = up.file /\ up'.content = up.content /\ up'.sha = up.sha
      /\ up'.todo = {}
  BY <1>1, <1>2 DEF Work
<1>4. UploadTrue'
  BY <1>1, <1>3 DEF CatalogTrue, UploadTrue
<1>5. CatalogShape' /\ CatalogMoves
  BY <1>1, <1>3 DEF CatalogShape, CatalogMoves
<1>6. \A g \in DOMAIN files' : FileTrue(g)'
  BY <1>1 DEF CatalogTrue, FileTrue, Complete
<1> QED
  BY <1>1, <1>4, <1>5, <1>6 DEF CatalogTrue

\* The upload under way ends.
LEMMA EndStep ==
  ASSUME CatalogShape, CatalogTrue, EndUpload
  PROVE  CatalogShape' /\ CatalogTrue' /\ CatalogMoves
<1>0. /\ up # NoUpload /\ up' = NoUpload
      /\ UNCHANGED <<rows, taken, posted, discord, sweep, versions, deleted>>
  BY DEF EndUpload
<1>1. up \in Work /\ up.file \in Files /\ up.content \in Contents
  BY <1>0 DEF CatalogShape, Work
<1>2. CASE files' = files
  BY <1>0, <1>2 DEF CatalogShape, CatalogTrue, CatalogMoves, FileTrue, Complete
<1> DEFINE f == up.file
           S == IF up.sha = None THEN up.content ELSE up.sha
           F == [size |-> Len(up.content), sha |-> S]
<1>3. CASE up.counted /\ files' = With(files, f, F)
  <2>1. UploadTrue /\ up.todo = {}
    BY <1>0, <1>3 DEF CatalogTrue, UploadTrue
  <2>4. None \notin Contents
    BY FetchAssumption
  <2>5. S # None /\ S \in versions[f] /\ S \in Contents
    BY <1>1, <2>1, <2>4 DEF UploadTrue, Work
  <2> HIDE DEF S
  <2>2. F \in FileRow /\ F.size = Len(up.content) /\ F.sha = S
    <3>1. Len(up.content) \in Nat
      BY <1>1, ContentType
    <3> QED
      BY <2>5, <3>1 DEF FileRow
  <2> HIDE DEF F
  <2>3. /\ DOMAIN files' = DOMAIN files \cup {f} /\ files'[f] = F
        /\ \A g \in DOMAIN files \ {f} : files'[g] = files[g]
    BY <1>3 DEF With
  <2>6. CatalogShape'
    BY <1>0, <1>1, <2>2, <2>3 DEF CatalogShape
  <2>7. CatalogMoves
    BY <1>0, <2>2, <2>3, <2>5 DEF CatalogMoves
  <2>8. Complete(rows, f)
    <3> SUFFICES ASSUME f \notin deleted, NEW d \in Contents, versions[f] = {d}
                 PROVE  \A k \in Parts : k < Len(d) => HasPart(rows, f, k)
      BY DEF Complete
    <3>1. up.content = d
      BY <2>1 DEF UploadTrue
    <3> QED
      BY <2>1, <3>1 DEF UploadTrue
  <2>9. ASSUME NEW g \in DOMAIN files'
        PROVE  FileTrue(g)'
    <3>1. CASE g = f
      BY <1>0, <2>1, <2>2, <2>3, <2>5, <2>8, <3>1 DEF UploadTrue, FileTrue, Complete
    <3>2. CASE g # f
      BY <1>0, <2>3, <3>2 DEF CatalogTrue, FileTrue, Complete
    <3> QED
      BY <3>1, <3>2
  <2> QED
    BY <1>0, <2>6, <2>7, <2>9 DEF CatalogTrue
<1> QED
  BY <1>2, <1>3 DEF EndUpload

\* A file is deleted, and its rows with it unless a statement fails.
LEMMA DeleteStep ==
  ASSUME CatalogShape, CatalogTrue, NEW f \in Files, DeleteFile(f)
  PROVE  CatalogShape' /\ CatalogTrue' /\ CatalogMoves
<1> DEFINE mine == {i \in DOMAIN rows : rows[i].file = f}
<1>0. /\ sweep' = sweep \cup {rows[i].msg : i \in mine}
      /\ \/ files' = Restrict(files, DOMAIN files \ {f}) /\ deleted' = deleted \cup {f}
         \/ UNCHANGED <<files, deleted>>
      /\ \/ /\ files' = Restrict(files, DOMAIN files \ {f}) /\ deleted' = deleted \cup {f}
            /\ rows' = Restrict(rows, DOMAIN rows \ mine)
         \/ UNCHANGED rows
      /\ up' = NoUpload \/ up' = up
      /\ f \in DOMAIN files
      /\ UNCHANGED <<taken, posted, discord, versions>>
  BY DEF DeleteFile
<1>1. /\ DOMAIN files' \subseteq DOMAIN files
      /\ \A g \in DOMAIN files' : files'[g] = files[g]
      /\ \A g \in DOMAIN files : g \notin DOMAIN files' => g \in deleted'
      /\ deleted \subseteq deleted' /\ deleted' \subseteq Files
  BY <1>0 DEF Restrict, CatalogShape
<1>2. /\ DOMAIN rows' \subseteq DOMAIN rows
      /\ \A i \in DOMAIN rows' : rows'[i] = rows[i]
      /\ \A i \in DOMAIN rows : rows[i].file \notin deleted' => i \in DOMAIN rows'
  BY <1>0 DEF Restrict
<1>3. sweep' \subseteq DOMAIN posted
  BY <1>0 DEF CatalogShape
<1> HIDE DEF mine
<1>4. CatalogShape'
  BY <1>0, <1>1, <1>2, <1>3 DEF CatalogShape
<1>5. CatalogMoves
  BY <1>0, <1>1, <1>2 DEF CatalogMoves
<1>6. \A k : \A g \in Files : g \notin deleted' /\ HasPart(rows, g, k) => HasPart(rows', g, k)
  BY <1>2 DEF HasPart
<1>7. ASSUME NEW g \in DOMAIN files'
      PROVE  FileTrue(g)'
  <2>1. g \in Files /\ g \in DOMAIN files /\ files'[g] = files[g] /\ FileTrue(g)
    BY <1>1 DEF CatalogShape, CatalogTrue
  <2>2. Complete(rows, g) => Complete(rows, g)'
    BY <1>0, <1>1, <1>6, <2>1, CompleteStays
  <2> QED
    BY <1>0, <2>1, <2>2 DEF FileTrue
<1>8. up' # NoUpload => UploadTrue'
  <2> SUFFICES ASSUME up # NoUpload, up' = up
               PROVE  UploadTrue'
    BY <1>0
  <2>1. up.file \in Files /\ UploadTrue
    BY DEF CatalogShape, CatalogTrue, Work
  <2> QED
    BY <1>0, <1>1, <1>6, <2>1 DEF UploadTrue
<1>9. \A i \in DOMAIN rows' : posted'[rows'[i].msg].body \in Variants(versions'[rows'[i].file], rows'[i].part)
  BY <1>0, <1>2 DEF CatalogTrue
<1> QED
  BY <1>4, <1>5, <1>7, <1>8, <1>9 DEF CatalogTrue

\* The clean-up deletes a message.
LEMMA SweepStep ==
  ASSUME CatalogShape, CatalogTrue, NEW m, DeleteMessage(m)
  PROVE  CatalogShape' /\ CatalogTrue' /\ CatalogMoves
BY DEF DeleteMessage, CatalogShape, CatalogTrue, CatalogMoves, FileTrue, UploadTrue, Complete

-----------------------------------------------------------------------------
(***************************************************************************)
(* Readers and their fetches.                                              *)
(***************************************************************************)
Plans == UNION {[ks -> Planned] : ks \in SUBSET Parts}
Gots  == UNION {[ks -> Bodies \cup {"none", "failed"}] : ks \in SUBSET Parts}
Try   == [at   : {"off", "stored", "fresh", "open", "next", "put"},
          row  : Ids \cup {None},
          msg  : Ids \cup {None},
          rest : (SUBSET Pick) \cup {None},
          data : Bodies \cup {None},
          held : SUBSET Ids]
Call  == [kind      : Kinds \cup {None},
          at        : {"idle", "rows", "run", "ok", "bad", "error"},
          file      : Files \cup {None},
          rec       : FileRow,
          plan      : Plans,
          got       : Gots,
          cancelled : BOOLEAN,
          lost      : SUBSET Parts,
          wrong     : SUBSET Parts,
          doubt     : BOOLEAN]

\* Readable, with the messages as a parameter.
CanRead(rs, ps, there, f, k) ==
  {i \in DOMAIN rs : /\ rs[i].file = f /\ rs[i].part = k /\ rs[i].msg \in there
                     /\ \/ <<ps[rs[i].msg].file, ps[rs[i].msg].part>> = <<f, k>>
                        \/ \E j \in DOMAIN rs :
                             /\ ps[rs[j].msg].body = ps[rs[i].msg].body
                             /\ <<ps[rs[i].msg].file, ps[rs[i].msg].part>> = <<rs[j].file, rs[j].part>>}

\* It is the same.
LEMMA CanReadIs ==
  ASSUME NEW rs, NEW there, NEW f, NEW k
  PROVE  Readable(rs, there, f, k) = CanRead(rs, posted, there, f, k)
BY DEF Readable, CanRead, Seal

\* A part stored takes no copy away.
LEMMA CanReadGrows ==
  ASSUME NEW rs, NEW ss, NEW ps, NEW qs, NEW there, NEW then, NEW f, NEW k,
         DOMAIN rs \subseteq DOMAIN ss, \A i \in DOMAIN rs : ss[i] = rs[i] /\ rs[i].msg \in DOMAIN ps,
         \A m \in DOMAIN ps : qs[m] = ps[m], there \subseteq then
  PROVE  CanRead(rs, ps, there, f, k) \subseteq CanRead(ss, qs, then, f, k)
<1> SUFFICES ASSUME NEW i \in CanRead(rs, ps, there, f, k)
             PROVE  i \in CanRead(ss, qs, then, f, k)
  OBVIOUS
<1>1. /\ i \in DOMAIN rs /\ i \in DOMAIN ss /\ ss[i] = rs[i] /\ qs[rs[i].msg] = ps[rs[i].msg]
      /\ rs[i].file = f /\ rs[i].part = k /\ rs[i].msg \in then
  BY DEF CanRead
<1>2. CASE <<ps[rs[i].msg].file, ps[rs[i].msg].part>> = <<f, k>>
  BY <1>1, <1>2 DEF CanRead
<1>3. ASSUME NEW j \in DOMAIN rs, ps[rs[j].msg].body = ps[rs[i].msg].body,
             <<ps[rs[i].msg].file, ps[rs[i].msg].part>> = <<rs[j].file, rs[j].part>>
      PROVE  i \in CanRead(ss, qs, then, f, k)
  <2>1. j \in DOMAIN ss /\ ss[j] = rs[j] /\ qs[rs[j].msg] = ps[rs[j].msg]
    OBVIOUS
  <2> QED
    BY <1>1, <1>3, <2>1 DEF CanRead
<1> QED
  BY <1>2, <1>3 DEF CanRead

\* What changes in the catalog do to the fetches: they keep nothing but what can
\* still be read.
SlotsMove ==
  \A r \in Readers, k \in Parts :
    /\ slot'[r][k].at = slot[r][k].at /\ slot'[r][k].row = slot[r][k].row
    /\ slot'[r][k].msg = slot[r][k].msg /\ slot'[r][k].rest = slot[r][k].rest
    /\ slot'[r][k].data = slot[r][k].data /\ slot'[r][k].held \subseteq slot[r][k].held
    /\ slot[r][k].held \subseteq CanRead(rows, posted, discord, reader[r].file, k) =>
         slot'[r][k].held \subseteq CanRead(rows', posted', discord', reader[r].file, k)

\* A change of the catalog keeps what is known of it and leaves the readers alone.
LEMMA ChangeStep ==
  ASSUME CatalogShape, CatalogTrue, slot \in [Readers -> [Parts -> Try]], Change
  PROVE  /\ CatalogShape' /\ CatalogTrue' /\ CatalogMoves
         /\ slot' \in [Readers -> [Parts -> Try]] /\ SlotsMove /\ reader' = reader
<1>1. ASSUME NEW there, NEW rs, Watched(rs, there), rs = rows', there = discord', posted' = posted
      PROVE  slot' \in [Readers -> [Parts -> Try]] /\ SlotsMove
  <2>1. \A r \in Readers, k \in Parts :
          slot'[r][k] = [slot[r][k] EXCEPT !.held = @ \cap Readable(rs, there, reader[r].file, k)]
    BY <1>1 DEF Watched
  <2>2. \A r \in Readers, k \in Parts : slot[r][k] \in Try
    OBVIOUS
  <2>3. ASSUME NEW t \in Try, NEW S
        PROVE  LET n == [t EXCEPT !.held = @ \cap S] IN
               /\ n \in Try
               /\ n.at = t.at /\ n.row = t.row /\ n.msg = t.msg /\ n.rest = t.rest /\ n.data = t.data
               /\ n.held \subseteq t.held /\ n.held \subseteq S
    BY DEF Try
  <2>4. slot' \in [Readers -> [Parts -> Try]]
    <3>1. slot' = [r \in Readers |-> [k \in Parts |-> [slot[r][k] EXCEPT !.held =
             @ \cap Readable(rs, there, reader[r].file, k)]]]
      BY <1>1 DEF Watched
    <3>2. \A r \in Readers, k \in Parts :
            [slot[r][k] EXCEPT !.held = @ \cap Readable(rs, there, reader[r].file, k)] \in Try
      BY <2>2, <2>3
    <3> QED
      BY <3>1, <3>2
  <2>5. ASSUME NEW r \in Readers, NEW k \in Parts
        PROVE  LET t == slot[r][k]  n == slot'[r][k] IN
               /\ n.at = t.at /\ n.row = t.row /\ n.msg = t.msg /\ n.rest = t.rest /\ n.data = t.data
               /\ n.held \subseteq t.held /\ n.held \subseteq Readable(rs, there, reader[r].file, k)
    <3>1. slot[r][k] \in Try
      BY <2>2
    <3>2. slot'[r][k] = [slot[r][k] EXCEPT !.held = @ \cap Readable(rs, there, reader[r].file, k)]
      BY <2>1
    <3> QED
      BY <3>1, <3>2, <2>3
  <2>6. \A r \in Readers, k \in Parts :
          Readable(rs, there, reader[r].file, k) = CanRead(rows', posted', discord', reader[r].file, k)
    BY <1>1, CanReadIs
  <2>7. SlotsMove
    BY <2>5, <2>6 DEF SlotsMove
  <2> QED
    BY <2>4, <2>7
<1>2. ASSUME slot' = slot, DOMAIN rows \subseteq DOMAIN rows', \A i \in DOMAIN rows : rows'[i] = rows[i],
             \A m \in DOMAIN posted : posted'[m] = posted[m], discord \subseteq discord'
      PROVE  slot' \in [Readers -> [Parts -> Try]] /\ SlotsMove
  <2>1. \A i \in DOMAIN rows : rows[i].msg \in DOMAIN posted
    BY DEF CatalogShape
  <2>2. \A f, k : CanRead(rows, posted, discord, f, k) \subseteq CanRead(rows', posted', discord', f, k)
    BY <1>2, <2>1, CanReadGrows
  <2> QED
    BY <1>2, <2>2 DEF SlotsMove
<1>3. ASSUME NEW o \in Offers, BeginUpload(o[1], o[2])
      PROVE  /\ CatalogShape' /\ CatalogTrue' /\ CatalogMoves
             /\ slot' \in [Readers -> [Parts -> Try]] /\ SlotsMove /\ reader' = reader
  <2>1. o[1] \in Files /\ o[2] \in Contents
    BY FetchAssumption
  <2> QED
    BY <1>2, <1>3, <2>1, BeginStep DEF BeginUpload
<1>4. ASSUME NEW k \in Parts, StorePart(k)
      PROVE  /\ CatalogShape' /\ CatalogTrue' /\ CatalogMoves
             /\ slot' \in [Readers -> [Parts -> Try]] /\ SlotsMove /\ reader' = reader
  <2>1. CatalogShape' /\ CatalogTrue' /\ CatalogMoves
    BY <1>4, StoreStep
  <2>2. slot' = slot /\ reader' = reader /\ discord \subseteq discord' /\ files' = files
    BY <1>4 DEF StorePart
  <2>3. \A m \in DOMAIN posted : posted'[m] = posted[m]
    BY <2>1 DEF CatalogMoves
  <2>4. \A i \in DOMAIN rows : i \in DOMAIN rows' /\ rows'[i] = rows[i]
    BY <1>4, StoreStep
  <2> QED
    BY <1>2, <2>1, <2>2, <2>3, <2>4
<1>5. CASE EndUpload
  BY <1>2, <1>5, EndStep DEF EndUpload
<1>8. CASE Count
  BY <1>2, <1>8, CountStep DEF Count
<1>6. ASSUME NEW f \in Files, DeleteFile(f)
      PROVE  /\ CatalogShape' /\ CatalogTrue' /\ CatalogMoves
             /\ slot' \in [Readers -> [Parts -> Try]] /\ SlotsMove /\ reader' = reader
  <2>1. posted' = posted /\ discord' = discord /\ reader' = reader
    BY <1>6 DEF DeleteFile
  <2>2. Watched(rows', discord) \/ (slot' = slot /\ rows' = rows)
    BY <1>6 DEF DeleteFile
  <2>3. slot' \in [Readers -> [Parts -> Try]] /\ SlotsMove
    BY <1>1, <1>2, <2>1, <2>2
  <2> QED
    BY <1>6, <2>1, <2>3, DeleteStep
<1>7. ASSUME NEW m \in sweep, DeleteMessage(m)
      PROVE  /\ CatalogShape' /\ CatalogTrue' /\ CatalogMoves
             /\ slot' \in [Readers -> [Parts -> Try]] /\ SlotsMove /\ reader' = reader
  BY <1>1, <1>7, SweepStep DEF DeleteMessage
<1> QED
  BY <1>3, <1>4, <1>5, <1>6, <1>7, <1>8 DEF Change

\* How many numbers there are below n.
LEMMA Below ==
  ASSUME NEW n \in Nat
  PROVE  IsFiniteSet(0 .. n - 1) /\ Cardinality(0 .. n - 1) = n
<1>1. 0 \in Int /\ n - 1 \in Int
  OBVIOUS
<1>2. /\ IsFiniteSet(0 .. n - 1)
      /\ Cardinality(0 .. n - 1) = IF 0 > n - 1 THEN 0 ELSE (n - 1) - 0 + 1
  BY <1>1, FS_Interval
<1> QED
  BY <1>2

\* The parts that were fetched, in order, as a function of what was fetched.
Whole(got) == LET ks == {k \in DOMAIN got : got[k] \in Bodies}
              IN  [n \in 1 .. Cardinality(ks) |-> got[Nth(ks, n)]]

\* It is the same.
LEMMA JoinedIs ==
  ASSUME NEW r
  PROVE  Joined(r) = Whole(reader[r].got)
BY DEF Joined, Whole, Fetched, Got

\* All the parts of a content, put together, are the content.
LEMMA WholeIs ==
  ASSUME NEW c \in Contents, NEW got, DOMAIN got = {k \in Parts : k < Len(c)},
         \A k \in DOMAIN got : got[k] = c[k + 1]
  PROVE  /\ \A k \in DOMAIN got : got[k] \in Bodies
         /\ Whole(got) = c
<1> DEFINE ks == {k \in DOMAIN got : got[k] \in Bodies}
<1>1. /\ Len(c) \in Nat /\ c \in [1 .. Len(c) -> Bodies]
      /\ \A k \in Nat : k < Len(c) => k \in Parts /\ c[k + 1] \in Bodies
  BY ContentType
<1>2. DOMAIN got = 0 .. Len(c) - 1
  <2>1. \A k : k \in DOMAIN got <=> k \in Nat /\ k < Len(c)
    <3>1. \A k \in DOMAIN got : k \in Nat /\ k < Len(c)
      BY PartsType
    <3>2. \A k \in Nat : k < Len(c) => k \in DOMAIN got
      BY <1>1
    <3> QED
      BY <3>1, <3>2
  <2>2. \A k : k \in 0 .. Len(c) - 1 <=> k \in Nat /\ k < Len(c)
    BY <1>1
  <2> QED
    BY <2>1, <2>2
<1>3. \A k \in DOMAIN got : got[k] \in Bodies
  BY <1>1, <1>2
<1>4. ks = 0 .. Len(c) - 1
  BY <1>2, <1>3
<1>5. Cardinality(ks) = Len(c)
  BY <1>1, <1>4, Below
<1>6. ASSUME NEW n \in 1 .. Len(c)
      PROVE  Nth(ks, n) = n - 1
  <2>1. \A k \in ks : Cardinality({j \in ks : j < k}) = k
    <3> SUFFICES ASSUME NEW k \in ks PROVE Cardinality({j \in ks : j < k}) = k
      OBVIOUS
    <3>1. k \in Nat /\ {j \in ks : j < k} = 0 .. k - 1
      BY <1>1, <1>4
    <3> QED
      BY <3>1, Below
  <2>2. n - 1 \in ks
    BY <1>1, <1>4
  <2>3. \A k \in ks : Cardinality({j \in ks : j < k}) = n - 1 <=> k = n - 1
    BY <2>1
  <2> HIDE DEF ks
  <2> QED
    BY <2>2, <2>3 DEF Nth
<1>7. Whole(got) = [n \in 1 .. Cardinality(ks) |-> got[Nth(ks, n)]]
  BY DEF Whole
<1> HIDE DEF ks
<1>8. Whole(got) = [n \in 1 .. Len(c) |-> c[n]]
  <2>1. ASSUME NEW n \in 1 .. Len(c)
        PROVE  got[Nth(ks, n)] = c[n]
    <3>1. n - 1 \in DOMAIN got /\ (n - 1) + 1 = n
      BY <1>1, <1>2
    <3>2. got[n - 1] = c[(n - 1) + 1]
      BY <3>1
    <3> QED
      BY <1>6, <3>1, <3>2
  <2> QED
    BY <1>5, <1>7, <2>1
<1> QED
  BY <1>1, <1>3, <1>8

-----------------------------------------------------------------------------
(***************************************************************************)
(* What is known of a reader R and of a fetch s of part k for it, when vs  *)
(* are the contents uploaded so far, fs, rs and ps the tables of files,    *)
(* rows and messages, and there the messages that still are.               *)
(***************************************************************************)

\* What message m says of part k of file f is true.
Says(m, f, k, vs, ps) == m \in DOMAIN ps /\ ps[m].body \in Variants(vs[f], k)

\* What a reader R finds in a file of which only c was uploaded.
Settles(R, c) ==
  /\ R.at = "run" => R.doubt \/ DOMAIN R.got = {k \in Parts : k < Len(c)}
  /\ R.wrong = {}
  /\ R.at = "bad" /\ R.kind = "verify" => R.lost # {} \/ R.doubt
  /\ R.at = "ok" /\ R.kind = "bytes" => Whole(R.got) = R.rec.sha \/ R.doubt
  /\ R.at = "error" /\ R.kind = "verify" => R.cancelled \/ R.doubt

\* A reader knows a size and a hash that some version had; its plan is the rows of
\* its file, which are still the same or gone; what it got was uploaded, and what it
\* failed to get was lost. Of a file uploaded once, completely, it plans every part,
\* finds none that differs, and answers what is true, or has reason to doubt.
Truth(R, vs, ds, fs, tk, rs, ps) ==
  /\ R.at \in {"idle", "rows"} => DOMAIN R.got = {}
  /\ R.at = "idle" => R.rec.sha = None
  /\ R.at # "idle" =>
    /\ R.file \in Files
    /\ R.rec.sha # None => R.rec.sha \in vs[R.file]
    /\ R.at \in {"rows", "run"} => \E c \in vs[R.file] : R.rec.size = Len(c)
    /\ \A k \in DOMAIN R.got : /\ R.got[k] = "failed" => k \in R.lost
                               /\ R.got[k] \in Bodies => R.got[k] \in Variants(vs[R.file], k)
    /\ R.at = "rows" /\ R.rec.sha # None /\ R.file \notin ds =>
         R.file \in DOMAIN fs /\ fs[R.file].sha # None
    /\ R.at = "run" =>
         /\ DOMAIN R.got = DOMAIN R.plan
         /\ \A k \in DOMAIN R.plan :
              /\ Says(R.plan[k].msg, R.file, k, vs, ps)
              /\ R.plan[k].sha \in Variants(vs[R.file], k)
              /\ R.plan[k].id \in tk
              /\ R.plan[k].id \in DOMAIN rs =>
                   rs[R.plan[k].id] = [file |-> R.file, part |-> k, msg |-> R.plan[k].msg]
    /\ \A c \in Contents : R.rec.sha # None /\ vs[R.file] = {c} => Settles(R, c)

\* A fetch is of a part still to be had. The rows it has tried, tries and will try
\* were the part's, and every copy that is and was readable is among those it will
\* still try.
Tries(s, R, k, vs, rs, ps, there) ==
  s.at # "off" =>
    /\ R.at = "run" /\ k \in DOMAIN R.got /\ R.got[k] = "none"
    /\ s.row \in Ids /\ Says(s.msg, R.file, k, vs, ps)
    /\ s.at = "put" => s.data \in Variants(vs[R.file], k)
    /\ s.held \subseteq CanRead(rs, ps, there, R.file, k)
    /\ s.row \in s.held => rs[s.row].msg = s.msg
    /\ s.at = "next" => s.row \notin s.held
    /\ s.rest # None =>
         /\ \A o \in s.rest : /\ Says(o.msg, R.file, k, vs, ps)
                              /\ o.id \in s.held => rs[o.id].msg = o.msg
         /\ \A i \in s.held : i = s.row \/ \E o \in s.rest : o.id = i

ReadersType == reader \in [Readers -> Call] /\ slot \in [Readers -> [Parts -> Try]]

ReadersTrue ==
  /\ \A r \in Readers : Truth(reader[r], versions, deleted, files, taken, rows, posted)
  /\ \A r \in Readers, k \in Parts :
       Tries(slot[r][k], reader[r], k, versions, rows, posted, discord)

\* What a message says stays true.
LEMMA SaysStays ==
  ASSUME CatalogMoves, NEW f \in Files, NEW m, NEW k, Says(m, f, k, versions, posted)
  PROVE  Says(m, f, k, versions', posted')
BY VariantsGrow DEF Says, CatalogMoves

\* A change of the catalog leaves what is known of a reader true.
LEMMA TruthStays ==
  ASSUME CatalogShape, CatalogTrue, CatalogMoves, CatalogShape',
         NEW R \in Call, Truth(R, versions, deleted, files, taken, rows, posted)
  PROVE  Truth(R, versions', deleted', files', taken', rows', posted')
<1> SUFFICES ASSUME R.at # "idle"
             PROVE  Truth(R, versions', deleted', files', taken', rows', posted')
  BY DEF Truth
<1>1. R.file \in Files /\ versions[R.file] \subseteq versions'[R.file]
  BY DEF Truth, CatalogMoves
<1>2. \A k : Variants(versions[R.file], k) \subseteq Variants(versions'[R.file], k)
  BY <1>1, VariantsGrow
<1>4. /\ deleted \subseteq deleted' /\ taken \subseteq taken'
      /\ R.at = "rows" /\ R.rec.sha # None /\ R.file \notin deleted' =>
           R.file \in DOMAIN files' /\ files'[R.file].sha # None
  BY <1>1 DEF Truth, CatalogMoves
<1>5. \A c \in Contents : R.rec.sha # None /\ versions'[R.file] = {c} => versions[R.file] = {c}
  BY <1>1 DEF Truth
<1>6. ASSUME R.at = "run", NEW k \in DOMAIN R.plan
      PROVE  /\ Says(R.plan[k].msg, R.file, k, versions', posted')
             /\ R.plan[k].sha \in Variants(versions'[R.file], k)
             /\ R.plan[k].id \in taken'
             /\ R.plan[k].id \in DOMAIN rows' =>
                  rows'[R.plan[k].id] = [file |-> R.file, part |-> k, msg |-> R.plan[k].msg]
  <2>1. Says(R.plan[k].msg, R.file, k, versions', posted')
    BY <1>1, <1>6, SaysStays DEF Truth
  <2>2. /\ R.plan[k].sha \in Variants(versions[R.file], k) /\ R.plan[k].id \in taken
        /\ R.plan[k].id \in DOMAIN rows =>
                  rows[R.plan[k].id] = [file |-> R.file, part |-> k, msg |-> R.plan[k].msg]
    BY <1>6 DEF Truth
  <2>3. R.plan[k].id \in DOMAIN rows' =>
           R.plan[k].id \in DOMAIN rows /\ rows'[R.plan[k].id] = rows[R.plan[k].id]
    BY <2>2 DEF CatalogMoves
  <2> QED
    BY <1>2, <1>4, <2>1, <2>2, <2>3
<1>7. R.at \in {"rows", "run"} => \E c \in versions'[R.file] : R.rec.size = Len(c)
  BY <1>1 DEF Truth
<1>8. \A k \in DOMAIN R.got : /\ R.got[k] = "failed" => k \in R.lost
                              /\ R.got[k] \in Bodies => R.got[k] \in Variants(versions'[R.file], k)
  BY <1>2 DEF Truth
<1>9. \A c \in Contents : R.rec.sha # None /\ versions'[R.file] = {c} => Settles(R, c)
  BY <1>5 DEF Truth
<1>10. /\ R.rec.sha # None => R.rec.sha \in versions'[R.file]
       /\ R.at \in {"idle", "rows"} => DOMAIN R.got = {}
       /\ R.at = "run" => DOMAIN R.got = DOMAIN R.plan
  BY <1>1 DEF Truth
<1> QED
  BY <1>1, <1>4, <1>6, <1>7, <1>8, <1>9, <1>10 DEF Truth

\* A change of the catalog leaves what is known of a fetch true.
LEMMA TriesStay ==
  ASSUME CatalogShape, CatalogTrue, CatalogMoves, CatalogTrue', SlotsMove, ReadersType,
         NEW r \in Readers, NEW k \in Parts, Truth(reader[r], versions, deleted, files, taken, rows, posted),
         Tries(slot[r][k], reader[r], k, versions, rows, posted, discord)
  PROVE  Tries(slot'[r][k], reader[r], k, versions', rows', posted', discord')
<1> DEFINE s == slot[r][k]  t == slot'[r][k]  R == reader[r]
<1>1. /\ t.at = s.at /\ t.row = s.row /\ t.msg = s.msg /\ t.rest = s.rest /\ t.data = s.data
      /\ t.held \subseteq s.held
      /\ s.held \subseteq CanRead(rows, posted, discord, R.file, k) =>
           t.held \subseteq CanRead(rows', posted', discord', R.file, k)
  BY DEF SlotsMove
<1>2. Truth(R, versions, deleted, files, taken, rows, posted) /\ Tries(s, R, k, versions, rows, posted, discord)
  OBVIOUS
<1> HIDE DEF s, t, R
<1> SUFFICES ASSUME s.at # "off"
             PROVE  Tries(t, R, k, versions', rows', posted', discord')
  BY <1>1 DEF Tries, R, t
<1>3. R.at = "run" /\ R.file \in Files
  BY <1>2 DEF Truth, Tries
<1>4. Variants(versions[R.file], k) \subseteq Variants(versions'[R.file], k)
  BY <1>3, VariantsGrow DEF CatalogMoves
<1>5. /\ s.held \subseteq CanRead(rows, posted, discord, R.file, k)
      /\ t.held \subseteq CanRead(rows', posted', discord', R.file, k)
  BY <1>1, <1>2 DEF Tries
<1>6. ASSUME NEW i \in t.held
      PROVE  i \in s.held /\ rows'[i] = rows[i]
  <2>1. i \in s.held /\ i \in DOMAIN rows /\ i \in DOMAIN rows'
    BY <1>1, <1>5 DEF CanRead
  <2> QED
    BY <2>1 DEF CatalogMoves, CatalogShape
<1>7. \A m : Says(m, R.file, k, versions, posted) => Says(m, R.file, k, versions', posted')
  BY <1>3, SaysStays
<1>8. s.rest # None => \A o \in s.rest : /\ Says(o.msg, R.file, k, versions', posted')
                                         /\ o.id \in t.held => rows'[o.id].msg = o.msg
  BY <1>2, <1>6, <1>7 DEF Tries
<1> QED
  BY <1>1, <1>2, <1>3, <1>4, <1>5, <1>6, <1>7, <1>8 DEF Tries

-----------------------------------------------------------------------------
(***************************************************************************)
(* Steps of one reader.                                                    *)
(***************************************************************************)
Catalog == <<files, rows, taken, posted, discord, versions, deleted>>

\* Nothing planned and nothing got.
LEMMA EmptyType == <<>> \in Plans /\ <<>> \in Gots
<1>1. {} \in SUBSET Parts
  OBVIOUS
<1>2. \A S : <<>> \in [{} -> S]
  OBVIOUS
<1>3. <<>> \in [{} -> Planned] /\ <<>> \in [{} -> Bodies \cup {"none", "failed"}]
  BY <1>2
<1> QED
  BY <1>1, <1>3 DEF Plans, Gots

\* Off is a try, and a fetch that is off says nothing.
LEMMA OffType ==
  /\ Off \in Try
  /\ \A R, k, vs, rs, ps, there : Tries(Off, R, k, vs, rs, ps, there)
BY DEF Off, Try, Tries

\* Reader r becomes R, and its fetches stay true of it.
LEMMA CallStep ==
  ASSUME ReadersType, ReadersTrue, UNCHANGED <<Catalog, slot>>,
         NEW r \in Readers, NEW R \in Call, reader' = [reader EXCEPT ![r] = R],
         Truth(R, versions, deleted, files, taken, rows, posted),
         \A k \in Parts : Tries(slot[r][k], R, k, versions, rows, posted, discord)
  PROVE  ReadersType' /\ ReadersTrue'
<1>1. /\ files' = files /\ rows' = rows /\ posted' = posted /\ discord' = discord
      /\ versions' = versions /\ deleted' = deleted /\ taken' = taken /\ slot' = slot
  BY DEF Catalog
<1>2. /\ reader' \in [Readers -> Call] /\ reader'[r] = R
      /\ \A q \in Readers \ {r} : reader'[q] = reader[q]
  BY DEF ReadersType
<1> QED
  BY <1>1, <1>2 DEF ReadersType, ReadersTrue

\* Reader r becomes R, and its fetch of part k becomes s.
LEMMA SlotStep ==
  ASSUME ReadersType, ReadersTrue, UNCHANGED Catalog,
         NEW r \in Readers, NEW k \in Parts, NEW R \in Call, NEW s \in Try, Set(r, k, s),
         reader' = [reader EXCEPT ![r] = R], Truth(R, versions, deleted, files, taken, rows, posted),
         Tries(s, R, k, versions, rows, posted, discord),
         \A j \in Parts \ {k} : Tries(slot[r][j], R, j, versions, rows, posted, discord)
  PROVE  ReadersType' /\ ReadersTrue'
<1>1. /\ files' = files /\ rows' = rows /\ posted' = posted /\ discord' = discord
      /\ versions' = versions /\ deleted' = deleted /\ taken' = taken
  BY DEF Catalog
<1>2. /\ reader' \in [Readers -> Call] /\ reader'[r] = R
      /\ \A q \in Readers \ {r} : reader'[q] = reader[q]
  BY DEF ReadersType
<1>3. /\ slot' \in [Readers -> [Parts -> Try]] /\ slot'[r][k] = s
      /\ \A j \in Parts \ {k} : slot'[r][j] = slot[r][j]
      /\ \A q \in Readers \ {r} : slot'[q] = slot[q]
  BY DEF ReadersType, Set
<1>4. \A q \in Readers : Truth(reader'[q], versions, deleted, files, taken, rows, posted)
  BY <1>2 DEF ReadersTrue
<1>5. ASSUME NEW q \in Readers, NEW j \in Parts
      PROVE  Tries(slot'[q][j], reader'[q], j, versions, rows, posted, discord)
  BY <1>2, <1>3 DEF ReadersTrue
<1> QED
  BY <1>1, <1>2, <1>3, <1>4, <1>5 DEF ReadersType, ReadersTrue

\* The fetch of part k becomes s.
LEMMA TryStep ==
  ASSUME ReadersType, ReadersTrue, UNCHANGED Catalog, reader' = reader,
         NEW r \in Readers, NEW k \in Parts, NEW s \in Try, Set(r, k, s),
         Tries(s, reader[r], k, versions, rows, posted, discord)
  PROVE  ReadersType' /\ ReadersTrue'
<1>1. reader' = [reader EXCEPT ![r] = reader[r]] /\ reader[r] \in Call
  BY DEF ReadersType
<1>2. /\ Truth(reader[r], versions, deleted, files, taken, rows, posted)
      /\ \A j \in Parts \ {k} : Tries(slot[r][j], reader[r], j, versions, rows, posted, discord)
  BY DEF ReadersTrue
<1> QED
  BY <1>1, <1>2, SlotStep

\* What a fetch brings, bytes of the part or a failure, takes its place.
LEMMA GotStep ==
  ASSUME ReadersType, ReadersTrue, UNCHANGED Catalog,
         NEW r \in Readers, NEW k \in Parts, reader[r].at = "run", k \in DOMAIN reader[r].got,
         NEW b \in Bodies \cup {"failed"}, NEW L \in SUBSET Parts, reader[r].lost \subseteq L,
         b = "failed" => k \in L,
         b \in Bodies => b \in Variants(versions[reader[r].file], k),
         reader' = [reader EXCEPT ![r].got[k] = b, ![r].lost = L], Set(r, k, Off)
  PROVE  ReadersType' /\ ReadersTrue'
<1> DEFINE R == reader[r]
           N == [R EXCEPT !.got = [R.got EXCEPT ![k] = b], !.lost = L]
<1>1. R \in Call /\ Truth(R, versions, deleted, files, taken, rows, posted)
  BY DEF ReadersType, ReadersTrue
<1>2. \A j \in Parts : Tries(slot[r][j], R, j, versions, rows, posted, discord)
  BY DEF ReadersTrue
<1>3. reader' = [reader EXCEPT ![r] = N]
  BY <1>1 DEF ReadersType, Call
<1>4. /\ R.at = "run" /\ k \in DOMAIN R.got /\ R.lost \subseteq L
      /\ b = "failed" => k \in L
      /\ b \in Bodies => b \in Variants(versions[R.file], k)
  OBVIOUS
<1> DEFINE g == [R.got EXCEPT ![k] = b]
<1>5. /\ DOMAIN g = DOMAIN R.got /\ g[k] = b /\ \A j \in DOMAIN R.got \ {k} : g[j] = R.got[j]
  BY <1>4
<1>6. g \in Gots
  <2>1. PICK ks \in SUBSET Parts : R.got \in [ks -> Bodies \cup {"none", "failed"}]
    BY <1>1 DEF Call, Gots
  <2>2. g \in [ks -> Bodies \cup {"none", "failed"}]
    BY <2>1
  <2> QED
    BY <2>1, <2>2 DEF Gots
<1>7. /\ N.kind = R.kind /\ N.at = R.at /\ N.file = R.file /\ N.rec = R.rec /\ N.plan = R.plan
      /\ N.got = g /\ N.cancelled = R.cancelled /\ N.lost = L /\ N.wrong = R.wrong
      /\ N.doubt = R.doubt
  BY <1>1 DEF Call
<1>8. N \in Call
  BY <1>1, <1>6 DEF Call
<1> HIDE DEF R, N, g
<1>9. \A j \in DOMAIN g : /\ g[j] = "failed" => j \in L
                          /\ g[j] \in Bodies => g[j] \in Variants(versions[R.file], j)
  BY <1>1, <1>4, <1>5 DEF Truth
<1>12. \A c : Settles(R, c) => Settles(N, c)
  BY <1>4, <1>5, <1>7 DEF Settles
<1>10. Truth(N, versions, deleted, files, taken, rows, posted)
  BY <1>1, <1>4, <1>5, <1>7, <1>9, <1>12 DEF Truth
<1>11. ASSUME NEW j \in Parts \ {k}
       PROVE  Tries(slot[r][j], N, j, versions, rows, posted, discord)
  BY <1>2, <1>5, <1>7 DEF Tries
<1> QED
  BY <1>3, <1>8, <1>10, <1>11, OffType, SlotStep

\* A part is delivered.
LEMMA DeliverStep ==
  ASSUME ReadersType, ReadersTrue, CatalogShape, UNCHANGED Catalog,
         NEW r \in Readers, NEW k \in Parts, reader[r].at = "run", k \in DOMAIN reader[r].got,
         NEW b \in Variants(versions[reader[r].file], k), Deliver(r, k, b)
  PROVE  ReadersType' /\ ReadersTrue'
<1>1. /\ reader \in [Readers -> Call] /\ reader[r] \in Call /\ reader[r].lost \in SUBSET Parts
      /\ reader[r].file \in Files
  BY DEF ReadersType, ReadersTrue, Truth, Call
<1>2. b \in Bodies
  <2>1. versions[reader[r].file] \in SUBSET Contents /\ k \in Nat
    BY <1>1, PartsType DEF CatalogShape
  <2> QED
    BY <2>1, VariantsType
<1>3. b # "failed"
  BY <1>2, FetchAssumption
<1>4. reader' = [reader EXCEPT ![r].got[k] = b, ![r].lost = reader[r].lost]
  BY <1>1 DEF Deliver, Call
<1> QED
  BY <1>1, <1>2, <1>3, <1>4, GotStep DEF Deliver

\* A part of which no copy is left is given up.
LEMMA FailStep ==
  ASSUME ReadersType, ReadersTrue, UNCHANGED Catalog,
         NEW r \in Readers, NEW k \in Parts, reader[r].at = "run", k \in DOMAIN reader[r].got,
         slot[r][k].held = {}, Fail(r, k)
  PROVE  ReadersType' /\ ReadersTrue'
<1>1. /\ reader \in [Readers -> Call] /\ reader[r] \in Call /\ reader[r].lost \in SUBSET Parts
  BY DEF ReadersType, Call
<1>2. "failed" \notin Bodies
  BY FetchAssumption
<1> DEFINE L == reader[r].lost \cup {k}
<1>3. L \in SUBSET Parts /\ reader[r].lost \subseteq L /\ k \in L
  BY <1>1
<1>4. reader' = [reader EXCEPT ![r].got[k] = "failed", ![r].lost = L]
  BY <1>1 DEF Fail, Call
<1> HIDE DEF L
<1> QED
  BY <1>2, <1>3, <1>4, GotStep DEF Fail

-----------------------------------------------------------------------------
(***************************************************************************)
(* The chunk cache.                                                        *)
(***************************************************************************)
\* Another key at the end of a line without repetitions.
LEMMA AppendIs ==
  ASSUME NEW S, NEW s \in Seq(S), NEW e \in S, IsInjective(s), e \notin ToSet(s)
  PROVE  LET t == Append(s, e) IN
         t \in Seq(S) /\ IsInjective(t) /\ ToSet(t) = ToSet(s) \cup {e} /\ Len(t) = Len(s) + 1
<1> DEFINE t == Append(s, e)
           n == Len(s)
<1>1. /\ n \in Nat /\ t \in Seq(S) /\ Len(t) = n + 1 /\ DOMAIN s = 1 .. n /\ DOMAIN t = 1 .. n + 1
      /\ t[n + 1] = e /\ \A i \in 1 .. n : t[i] = s[i]
  OBVIOUS
<1> HIDE DEF t
<1>2. \A i \in 1 .. n + 1 : i \in 1 .. n \/ i = n + 1
  BY <1>1
<1>3. /\ \A i \in 1 .. n : s[i] \in ToSet(s)
      /\ \A x \in ToSet(s) : \E i \in 1 .. n : x = s[i]
      /\ \A x : x \in ToSet(t) <=> \E i \in 1 .. n + 1 : x = t[i]
  BY <1>1 DEF ToSet
<1>4. \A a, b \in 1 .. n : s[a] = s[b] => a = b
  BY <1>1 DEF IsInjective
<1> HIDE DEF n
<1>5. IsInjective(t)
  <2> SUFFICES ASSUME NEW a \in 1 .. n + 1, NEW b \in 1 .. n + 1, t[a] = t[b]
               PROVE  a = b
    BY <1>1 DEF IsInjective
  <2> QED
    BY <1>1, <1>2, <1>3, <1>4
<1>6. ToSet(t) = ToSet(s) \cup {e}
  <2>1. \A x \in ToSet(t) : x \in ToSet(s) \cup {e}
    BY <1>1, <1>2, <1>3
  <2>2. \A x \in ToSet(s) : x \in ToSet(t)
    <3>1. \A i \in 1 .. n : i \in 1 .. n + 1
      BY <1>1
    <3> QED
      BY <1>1, <1>3, <3>1
  <2>3. e \in ToSet(t)
    <3>1. n + 1 \in 1 .. n + 1
      BY <1>1
    <3> QED
      BY <1>1, <1>3, <3>1
  <2> QED
    BY <2>1, <2>2, <2>3
<1> QED
  BY <1>1, <1>5, <1>6 DEF t, n

\* The first of a line without repetitions leaves it.
LEMMA TailIs ==
  ASSUME NEW S, NEW s \in Seq(S), IsInjective(s), Len(s) > 0
  PROVE  LET t == Tail(s) IN
         t \in Seq(S) /\ IsInjective(t) /\ ToSet(t) = ToSet(s) \ {Head(s)} /\ Len(t) = Len(s) - 1
<1> DEFINE t == Tail(s)
           n == Len(s)
<1>1. /\ n \in Nat /\ n > 0 /\ s # <<>> /\ DOMAIN s = 1 .. n
  OBVIOUS
<1>2. /\ t \in Seq(S) /\ Len(t) = n - 1 /\ Head(s) = s[1]
      /\ \A i \in 1 .. n - 1 : t[i] = s[i + 1]
  BY <1>1
<1>3. DOMAIN t = 1 .. n - 1
  BY <1>2
<1> HIDE DEF t
<1>4. /\ \A x : x \in ToSet(s) <=> \E i \in 1 .. n : x = s[i]
      /\ \A x : x \in ToSet(t) <=> \E i \in 1 .. n - 1 : x = t[i]
  BY <1>1, <1>3 DEF ToSet
<1>5. \A a, b \in 1 .. n : s[a] = s[b] => a = b
  BY <1>1 DEF IsInjective
<1> HIDE DEF n
<1>6. \A i \in 1 .. n - 1 : i + 1 \in 1 .. n /\ i + 1 # 1
  BY <1>1
<1>7. \A i \in 1 .. n : i # 1 => i - 1 \in 1 .. n - 1 /\ (i - 1) + 1 = i
  BY <1>1
<1>8. 1 \in 1 .. n
  BY <1>1
<1>9. IsInjective(t)
  <2> SUFFICES ASSUME NEW a \in 1 .. n - 1, NEW b \in 1 .. n - 1, t[a] = t[b]
               PROVE  a = b
    BY <1>3 DEF IsInjective
  <2>1. a + 1 = b + 1
    BY <1>2, <1>5, <1>6
  <2> QED
    BY <1>1, <2>1
<1>10. ASSUME NEW x \in ToSet(t)
       PROVE  x \in ToSet(s) /\ x # Head(s)
  <2>1. PICK i \in 1 .. n - 1 : x = t[i]
    BY <1>4
  <2>2. x = s[i + 1] /\ i + 1 \in 1 .. n /\ i + 1 # 1
    BY <1>2, <1>6, <2>1
  <2> QED
    BY <1>2, <1>4, <1>5, <1>8, <2>2
<1>11. ASSUME NEW x \in ToSet(s), x # Head(s)
       PROVE  x \in ToSet(t)
  <2>1. PICK i \in 1 .. n : x = s[i]
    BY <1>4
  <2>2. i # 1
    BY <1>2, <1>11, <2>1
  <2>3. i - 1 \in 1 .. n - 1 /\ t[i - 1] = s[i]
    BY <1>2, <1>7, <2>2
  <2> QED
    BY <1>4, <2>1, <2>3
<1> QED
  BY <1>2, <1>9, <1>10, <1>11 DEF t, n

\* The line names the keys of the cache, each once, no more than fit, and what is
\* kept under a key was uploaded as that part of that file.
CacheTrue ==
  /\ order \in Seq(Files \X Parts) /\ IsInjective(order) /\ Len(order) <= MaxCache
  /\ DOMAIN cache = ToSet(order)
  /\ \A key \in DOMAIN cache : /\ key \in Files \X Parts
                               /\ cache[key] \in Variants(versions[key[1]], key[2])

\* A change of the catalog leaves the cache true.
LEMMA CacheStays ==
  ASSUME CacheTrue, CatalogMoves, UNCHANGED cached
  PROVE  CacheTrue'
<1>1. \A key \in Files \X Parts : Variants(versions[key[1]], key[2]) \subseteq Variants(versions'[key[1]], key[2])
  BY VariantsGrow DEF CatalogMoves
<1> QED
  BY <1>1 DEF CacheTrue, cached

\* What a fetch puts there leaves the cache true.
LEMMA CacheStep ==
  ASSUME CacheTrue, NEW f \in Files, NEW k \in Parts, NEW b \in Variants(versions[f], k),
         PutCached(CacheKey(f, k), b), versions' = versions
  PROVE  CacheTrue'
<1> DEFINE key == <<f, k>>
           K == Files \X Parts
<1>1. /\ key \in K /\ key[1] = f /\ key[2] = k
      /\ MaxCache \in Nat /\ MaxCache > 0
  BY FetchAssumption
<1> HIDE DEF key, K
<1>2. /\ order \in Seq(K) /\ IsInjective(order) /\ Len(order) <= MaxCache /\ Len(order) \in Nat
      /\ DOMAIN cache = ToSet(order)
      /\ \A e \in DOMAIN cache : e \in K /\ cache[e] \in Variants(versions[e[1]], e[2])
  BY DEF CacheTrue, K
<1> DEFINE full == key \notin DOMAIN cache /\ Len(order) >= MaxCache
           kept == IF full THEN Restrict(cache, DOMAIN cache \ {Head(order)}) ELSE cache
<1>3. /\ cache' = With(kept, key, b)
      /\ order' = IF key \in DOMAIN cache THEN order
                  ELSE Append(IF full THEN Tail(order) ELSE order, key)
  BY DEF PutCached, CacheKey, key
<1>4. /\ DOMAIN kept = IF full THEN DOMAIN cache \ {Head(order)} ELSE DOMAIN cache
      /\ \A e \in DOMAIN kept : e \in DOMAIN cache /\ kept[e] = cache[e]
  BY DEF Restrict
<1> HIDE DEF kept
<1>5. /\ DOMAIN cache' = DOMAIN kept \cup {key} /\ cache'[key] = b
      /\ \A e \in DOMAIN kept \ {key} : cache'[e] = cache[e]
  BY <1>3, <1>4 DEF With
<1>6. \A e \in DOMAIN cache' : e \in K /\ cache'[e] \in Variants(versions[e[1]], e[2])
  BY <1>1, <1>2, <1>4, <1>5
<1>7. order' \in Seq(K) /\ IsInjective(order') /\ Len(order') <= MaxCache /\ DOMAIN cache' = ToSet(order')
  <2>1. CASE key \in DOMAIN cache
    BY <1>2, <1>3, <1>4, <1>5, <2>1
  <2>2. CASE key \notin DOMAIN cache /\ ~full
    <3>1. order' = Append(order, key) /\ DOMAIN cache' = DOMAIN cache \cup {key}
      BY <1>3, <1>4, <1>5, <2>2
    <3>2. Len(order) + 1 <= MaxCache
      BY <1>1, <1>2, <2>2
    <3> QED
      BY <1>1, <1>2, <2>2, <3>1, <3>2, AppendIs
  <2>3. CASE full
    <3> DEFINE t == Tail(order)
    <3>1. order' = Append(t, key) /\ DOMAIN cache' = (DOMAIN cache \ {Head(order)}) \cup {key}
      BY <1>3, <1>4, <1>5, <2>3
    <3>2. Len(order) > 0
      BY <1>1, <1>2, <2>3
    <3>3. t \in Seq(K) /\ IsInjective(t) /\ ToSet(t) = ToSet(order) \ {Head(order)} /\ Len(t) = Len(order) - 1
      BY <1>2, <3>2, TailIs
    <3>4. Len(t) + 1 <= MaxCache /\ key \notin ToSet(t)
      BY <1>1, <1>2, <2>3, <3>3
    <3> HIDE DEF t
    <3> QED
      BY <1>1, <1>2, <3>1, <3>3, <3>4, AppendIs
  <2> QED
    BY <2>1, <2>2, <2>3
<1> QED
  BY <1>6, <1>7 DEF CacheTrue, K

-----------------------------------------------------------------------------
(***************************************************************************)
(* Steps of a fetch.                                                       *)
(***************************************************************************)
\* As many contents are uploaded as there were uploads.
Finite == \A f \in Files : IsFiniteSet(versions[f])

\* What is known between steps.
FetchInv == CatalogShape /\ CatalogTrue /\ Finite /\ ReadersType /\ ReadersTrue /\ CacheTrue

\* A fetch under way: its reader and what is known of it.
LEMMA UnderWay ==
  ASSUME FetchInv, NEW r \in Readers, NEW k \in Parts, slot[r][k].at # "off"
  PROVE  /\ reader[r] \in Call /\ slot[r][k] \in Try
         /\ reader[r].at = "run" /\ k \in DOMAIN reader[r].got /\ reader[r].got[k] = "none"
         /\ reader[r].file \in Files
         /\ Tries(slot[r][k], reader[r], k, versions, rows, posted, discord)
<1>1. /\ reader[r] \in Call /\ slot[r][k] \in Try
      /\ Truth(reader[r], versions, deleted, files, taken, rows, posted)
      /\ Tries(slot[r][k], reader[r], k, versions, rows, posted, discord)
  BY DEF FetchInv, ReadersType, ReadersTrue
<1> QED
  BY <1>1 DEF Tries, Truth

\* The first row that is tried for a part.
OwnTry(a, b, H) == [Off EXCEPT !.at = "stored", !.row = a, !.msg = b, !.held = H]

\* It is a try.
LEMMA FirstTry ==
  ASSUME NEW a \in Ids, NEW b \in Ids, NEW H \in SUBSET Ids
  PROVE  LET s == OwnTry(a, b, H) IN
         /\ s \in Try /\ s.at = "stored" /\ s.row = a /\ s.msg = b
         /\ s.rest = None /\ s.data = None /\ s.held = H
BY OffType DEF Try, Off, OwnTry

\* A part is looked up in the cache; if it is not there, its own row is tried.
LEMMA LookupStep ==
  ASSUME FetchInv, NEW r \in Readers, NEW k \in Parts, Lookup(r, k)
  PROVE  ReadersType' /\ ReadersTrue' /\ CacheTrue'
<1> DEFINE R == reader[r]
           own == R.plan[k]
           s == [Off EXCEPT !.at = "stored", !.row = own.id, !.msg = own.msg,
                            !.held = Readable(rows, discord, R.file, k)]
<1>0. Turn(r, k) /\ UNCHANGED <<store, cached>>
  BY DEF Lookup
<1>10. CacheKey(R.file, k) \in DOMAIN cache => Deliver(r, k, cache[CacheKey(R.file, k)])
  BY DEF Lookup
<1>12. CacheKey(R.file, k) \notin DOMAIN cache => Set(r, k, s) /\ UNCHANGED reader
  BY DEF Lookup
<1>11. UNCHANGED <<Catalog, cached>>
  BY <1>0 DEF store, catalog, Catalog
<1> HIDE DEF s
<1>1. /\ Turn(r, k) /\ UNCHANGED <<Catalog, cached>>
      /\ \/ CacheKey(R.file, k) \in DOMAIN cache /\ Deliver(r, k, cache[CacheKey(R.file, k)])
         \/ Set(r, k, s) /\ UNCHANGED reader
  BY <1>0, <1>10, <1>11, <1>12
<1>2. /\ R \in Call /\ slot[r][k] \in Try /\ Truth(R, versions, deleted, files, taken, rows, posted)
  BY DEF FetchInv, ReadersType, ReadersTrue
<1>3. /\ R.at = "run" /\ k \in DOMAIN R.plan /\ R.got[k] = "none"
  BY <1>1 DEF Turn
<1>4. /\ R.file \in Files /\ DOMAIN R.got = DOMAIN R.plan
      /\ Says(own.msg, R.file, k, versions, posted)
      /\ own.id \in DOMAIN rows =>
           rows[own.id] = [file |-> R.file, part |-> k, msg |-> own.msg]
  BY <1>2, <1>3 DEF Truth
<1>5. own \in Planned
  BY <1>2, <1>3 DEF Call, Plans
<1>6. CacheTrue'
  BY <1>1 DEF FetchInv, CacheTrue, cached, Catalog
<1>7. CASE CacheKey(R.file, k) \in DOMAIN cache /\ Deliver(r, k, cache[CacheKey(R.file, k)])
  <2>1. cache[CacheKey(R.file, k)] \in Variants(versions[R.file], k)
    BY <1>4, <1>7 DEF FetchInv, CacheTrue, CacheKey
  <2> QED
    BY <1>1, <1>3, <1>4, <1>6, <1>7, <2>1, DeliverStep DEF FetchInv
<1>8. CASE Set(r, k, s) /\ UNCHANGED reader
  <2> DEFINE H == Readable(rows, discord, R.file, k)
  <2>1. H = CanRead(rows, posted, discord, R.file, k)
    BY CanReadIs
  <2>2. H \subseteq DOMAIN rows /\ \A i \in H : rows[i].file = R.file
    BY <2>1 DEF CanRead
  <2>3. H \in SUBSET Ids
    BY <2>2 DEF FetchInv, CatalogShape
  <2> HIDE DEF H
  <2>5. /\ s \in Try /\ s.at = "stored" /\ s.row = own.id /\ s.msg = own.msg
        /\ s.rest = None /\ s.data = None /\ s.held = H
    <3>1. own.id \in Ids /\ own.msg \in Ids
      BY <1>5 DEF Planned
    <3>2. s = OwnTry(own.id, own.msg, H)
      BY DEF s, H, OwnTry
    <3> HIDE DEF own
    <3> QED
      BY <2>3, <3>1, <3>2, FirstTry
  <2>6. own.id \in H => rows[own.id].msg = own.msg
    BY <1>4, <2>2
  <2>7. own.id \in Ids
    BY <1>5 DEF Planned
  <2> HIDE DEF R, own
  <2>8. Tries(s, R, k, versions, rows, posted, discord)
    BY <1>3, <1>4, <2>1, <2>5, <2>6, <2>7 DEF Tries
  <2> QED
    BY <1>1, <1>6, <1>8, <2>5, <2>8, TryStep DEF FetchInv, R
<1> QED
  BY <1>1, <1>7, <1>8

\* A fetch that goes on without another row or message, and with no more copies
\* held than before, stays true.
LEMMA GoOn ==
  ASSUME FetchInv, UNCHANGED <<Catalog, cached, reader>>, NEW r \in Readers, NEW k \in Parts,
         slot[r][k].at # "off", NEW st \in {"stored", "fresh", "open", "next", "put"},
         NEW d \in Bodies \cup {None}, NEW H \in SUBSET slot[r][k].held,
         st = "put" => d \in Variants(versions[reader[r].file], k),
         st = "next" => slot[r][k].row \notin H,
         Set(r, k, [slot[r][k] EXCEPT !.at = st, !.data = d, !.held = H])
  PROVE  ReadersType' /\ ReadersTrue' /\ CacheTrue'
<1> DEFINE s == slot[r][k]
           t == [s EXCEPT !.at = st, !.data = d, !.held = H]
<1>1. /\ s \in Try /\ Tries(s, reader[r], k, versions, rows, posted, discord)
  BY UnderWay
<1>2. /\ t \in Try /\ t.at = st /\ t.row = s.row /\ t.msg = s.msg /\ t.rest = s.rest
      /\ t.data = d /\ t.held = H
  BY <1>1 DEF Try
<1> HIDE DEF t
<1>3. Tries(t, reader[r], k, versions, rows, posted, discord)
  BY <1>1, <1>2 DEF Tries
<1>4. Set(r, k, t) /\ UNCHANGED Catalog /\ UNCHANGED reader
  BY DEF t
<1>5. CacheTrue'
  BY DEF FetchInv, CacheTrue, cached, Catalog
<1> QED
  BY <1>2, <1>3, <1>4, <1>5, TryStep DEF FetchInv

\* The stored URL is tried.
LEMMA StoredStep ==
  ASSUME FetchInv, NEW r \in Readers, NEW k \in Parts, Stored(r, k)
  PROVE  ReadersType' /\ ReadersTrue' /\ CacheTrue'
<1> DEFINE s == slot[r][k]
<1>1. /\ s.at = "stored" /\ UNCHANGED <<Catalog, cached, reader>>
      /\ \E st \in {"open", "fresh"} : Set(r, k, [s EXCEPT !.at = st])
  BY DEF Stored, Live, store, catalog, Catalog
<1>2. s \in Try
  BY <1>1, UnderWay
<1>3. \A st : [s EXCEPT !.at = st] = [s EXCEPT !.at = st, !.data = s.data, !.held = s.held]
  BY <1>2 DEF Try
<1>4. PICK st \in {"open", "fresh"} : Set(r, k, [s EXCEPT !.at = st, !.data = s.data, !.held = s.held])
  BY <1>1, <1>3
<1>5. s.data \in Bodies \cup {None} /\ s.held \in SUBSET s.held
  BY <1>2 DEF Try
<1> QED
  BY <1>1, <1>4, <1>5, GoOn

\* The fresh URL is tried.
LEMMA FreshStep ==
  ASSUME FetchInv, NEW r \in Readers, NEW k \in Parts, Fresh(r, k)
  PROVE  ReadersType' /\ ReadersTrue' /\ CacheTrue'
<1> DEFINE s == slot[r][k]
<1>1. /\ s.at = "fresh" /\ UNCHANGED <<Catalog, cached, reader>>
      /\ \/ Set(r, k, [s EXCEPT !.at = "open"])
         \/ s.msg \notin discord /\ Set(r, k, [s EXCEPT !.at = "next"])
         \/ Set(r, k, [s EXCEPT !.at = "next", !.held = @ \ {s.row}])
  BY DEF Fresh, Live, catalog, Catalog
<1>2. s \in Try /\ Tries(s, reader[r], k, versions, rows, posted, discord)
  BY <1>1, UnderWay
<1>3. s.data \in Bodies \cup {None} /\ s.held \in SUBSET s.held /\ s.held \ {s.row} \in SUBSET s.held
  BY <1>2 DEF Try
<1>4. CASE Set(r, k, [s EXCEPT !.at = "open"])
  <2>1. [s EXCEPT !.at = "open"] = [s EXCEPT !.at = "open", !.data = s.data, !.held = s.held]
    BY <1>2 DEF Try
  <2>2. Set(r, k, [s EXCEPT !.at = "open", !.data = s.data, !.held = s.held])
    BY <1>4, <2>1
  <2> QED
    BY <1>1, <1>3, <2>2, GoOn
<1>5. CASE s.msg \notin discord /\ Set(r, k, [s EXCEPT !.at = "next"])
  <2>1. [s EXCEPT !.at = "next"] = [s EXCEPT !.at = "next", !.data = s.data, !.held = s.held]
    BY <1>2 DEF Try
  <2>2. Set(r, k, [s EXCEPT !.at = "next", !.data = s.data, !.held = s.held])
    BY <1>5, <2>1
  <2>3. s.row \notin s.held
    BY <1>1, <1>2, <1>5 DEF Tries, CanRead
  <2> QED
    BY <1>1, <1>3, <2>2, <2>3, GoOn
<1>6. CASE Set(r, k, [s EXCEPT !.at = "next", !.held = @ \ {s.row}])
  <2> DEFINE H == s.held \ {s.row}
  <2>1. [s EXCEPT !.at = "next", !.held = @ \ {s.row}] = [s EXCEPT !.at = "next", !.data = s.data, !.held = H]
    BY <1>2 DEF Try
  <2>2. Set(r, k, [s EXCEPT !.at = "next", !.data = s.data, !.held = H])
    BY <1>6, <2>1
  <2>3. H \in SUBSET s.held /\ s.row \notin H
    BY <1>3
  <2> HIDE DEF H
  <2> QED
    BY <1>1, <1>3, <2>2, <2>3, GoOn
<1> QED
  BY <1>1, <1>4, <1>5, <1>6

\* The message is opened.
LEMMA OpenStep ==
  ASSUME FetchInv, NEW r \in Readers, NEW k \in Parts, Open(r, k)
  PROVE  ReadersType' /\ ReadersTrue' /\ CacheTrue'
<1> DEFINE s == slot[r][k]
           b == posted[s.msg].body
<1>1. /\ s.at = "open" /\ UNCHANGED <<Catalog, cached, reader>>
      /\ \/ Set(r, k, [s EXCEPT !.at = "put", !.data = b])
         \/ ~Opens(reader[r].file, k, s.msg) /\ Set(r, k, [s EXCEPT !.at = "next"])
         \/ Set(r, k, [s EXCEPT !.at = "next", !.held = @ \ {s.row}])
  BY DEF Open, Live, catalog, Catalog
<1>2. /\ s \in Try /\ Tries(s, reader[r], k, versions, rows, posted, discord)
      /\ reader[r].file \in Files
  BY <1>1, UnderWay
<1>3. s.data \in Bodies \cup {None} /\ s.held \in SUBSET s.held /\ s.held \ {s.row} \in SUBSET s.held
  BY <1>2 DEF Try
<1>4. b \in Variants(versions[reader[r].file], k)
  BY <1>1, <1>2 DEF Tries, Says
<1>5. b \in Bodies
  <2>1. versions[reader[r].file] \in SUBSET Contents /\ k \in Nat
    BY <1>2, PartsType DEF FetchInv, CatalogShape
  <2> QED
    BY <1>4, <2>1, VariantsType
<1>6. CASE Set(r, k, [s EXCEPT !.at = "put", !.data = b])
  <2> HIDE DEF b
  <2>1. [s EXCEPT !.at = "put", !.data = b] = [s EXCEPT !.at = "put", !.data = b, !.held = s.held]
    BY <1>2 DEF Try
  <2>2. Set(r, k, [s EXCEPT !.at = "put", !.data = b, !.held = s.held])
    BY <1>6, <2>1
  <2> QED
    BY <1>1, <1>3, <1>4, <1>5, <2>2, GoOn
<1>7. CASE ~Opens(reader[r].file, k, s.msg) /\ Set(r, k, [s EXCEPT !.at = "next"])
  <2>1. [s EXCEPT !.at = "next"] = [s EXCEPT !.at = "next", !.data = s.data, !.held = s.held]
    BY <1>2 DEF Try
  <2>2. Set(r, k, [s EXCEPT !.at = "next", !.data = s.data, !.held = s.held])
    BY <1>7, <2>1
  <2>3. s.row \notin s.held
    <3> SUFFICES ASSUME s.row \in s.held PROVE FALSE
      OBVIOUS
    <3>1. /\ s.row \in CanRead(rows, posted, discord, reader[r].file, k)
          /\ rows[s.row].msg = s.msg
      BY <1>1, <1>2 DEF Tries
    <3> QED
      BY <1>7, <3>1 DEF CanRead, Opens, Seal, Sha
  <2> QED
    BY <1>1, <1>3, <2>2, <2>3, GoOn
<1>8. CASE Set(r, k, [s EXCEPT !.at = "next", !.held = @ \ {s.row}])
  <2> DEFINE H == s.held \ {s.row}
  <2>1. [s EXCEPT !.at = "next", !.held = @ \ {s.row}] = [s EXCEPT !.at = "next", !.data = s.data, !.held = H]
    BY <1>2 DEF Try
  <2>2. Set(r, k, [s EXCEPT !.at = "next", !.data = s.data, !.held = H])
    BY <1>8, <2>1
  <2>3. H \in SUBSET s.held /\ s.row \notin H
    BY <1>3
  <2> HIDE DEF H
  <2> QED
    BY <1>1, <1>3, <2>2, <2>3, GoOn
<1> QED
  BY <1>1, <1>6, <1>7, <1>8

\* The next row that is tried for a part.
Then(s, a, b, X) == [s EXCEPT !.at = "stored", !.row = a, !.msg = b, !.rest = X]

\* It is a try.
LEMMA ThenTry ==
  ASSUME NEW s \in Try, NEW a \in Ids, NEW b \in Ids, NEW X \in SUBSET Pick
  PROVE  LET t == Then(s, a, b, X) IN
         /\ t \in Try /\ t.at = "stored" /\ t.row = a /\ t.msg = b
         /\ t.rest = X /\ t.data = s.data /\ t.held = s.held
BY DEF Try, Then

\* The rows that are left for a part whose row has failed.
Rest(r, k) == IF slot[r][k].rest = None
              THEN {[id |-> i, msg |-> rows[i].msg] :
                      i \in CopiesOf(reader[r].file, k) \ {slot[r][k].row}}
              ELSE slot[r][k].rest

\* They were the part's, and every copy that is held is among them.
LEMMA RestTrue ==
  ASSUME FetchInv, NEW r \in Readers, NEW k \in Parts, slot[r][k].at = "next"
  PROVE  /\ Rest(r, k) \in SUBSET Pick
         /\ \A o \in Rest(r, k) :
              /\ Says(o.msg, reader[r].file, k, versions, posted)
              /\ o.id \in slot[r][k].held => rows[o.id].msg = o.msg
         /\ \A i \in slot[r][k].held : \E o \in Rest(r, k) : o.id = i
<1> DEFINE s == slot[r][k]
           f == reader[r].file
<1>1. /\ s \in Try /\ Tries(s, reader[r], k, versions, rows, posted, discord) /\ f \in Files
  BY UnderWay
<1>2. /\ s.held \subseteq CanRead(rows, posted, discord, f, k) /\ s.row \notin s.held
  BY <1>1 DEF Tries
<1>3. CASE s.rest # None
  <2>1. Rest(r, k) = s.rest
    BY <1>3 DEF Rest
  <2>2. s.rest \in SUBSET Pick
    BY <1>1, <1>3 DEF Try
  <2> QED
    BY <1>1, <1>2, <1>3, <2>1, <2>2 DEF Tries
<1>4. CASE s.rest = None
  <2> DEFINE I == CopiesOf(f, k) \ {s.row}
  <2>1. Rest(r, k) = {[id |-> i, msg |-> rows[i].msg] : i \in I}
    BY <1>4 DEF Rest
  <2>2. \A i \in I : i \in DOMAIN rows /\ rows[i].file = f /\ rows[i].part = k
    BY DEF CopiesOf
  <2>3. \A i \in I : i \in Ids /\ rows[i].msg \in Ids /\ rows[i].msg \in DOMAIN posted
    BY <2>2 DEF FetchInv, CatalogShape, CopyRow
  <2>4. \A i \in I : Says(rows[i].msg, f, k, versions, posted)
    BY <2>2, <2>3 DEF FetchInv, CatalogTrue, Says
  <2>5. \A i \in s.held : i \in I
    BY <1>2 DEF CanRead, CopiesOf
  <2> HIDE DEF I
  <2>6. \A o \in Rest(r, k) : \E i \in I : o = [id |-> i, msg |-> rows[i].msg]
    BY <2>1
  <2>7. ASSUME NEW o \in Rest(r, k)
        PROVE  o.id \in I /\ o.msg = rows[o.id].msg /\ o \in Pick
    <3>1. PICK i \in I : o = [id |-> i, msg |-> rows[i].msg]
      BY <2>6
    <3>2. i \in Ids /\ rows[i].msg \in Ids
      BY <2>3
    <3> QED
      BY <3>1, <3>2 DEF Pick
  <2>8. ASSUME NEW i \in I
        PROVE  \E o \in Rest(r, k) : o.id = i
    <3>1. [id |-> i, msg |-> rows[i].msg] \in Rest(r, k)
      BY <2>1
    <3>2. [id |-> i, msg |-> rows[i].msg].id = i
      OBVIOUS
    <3> QED
      BY <3>1, <3>2
  <2> QED
    BY <2>4, <2>5, <2>7, <2>8
<1> QED
  BY <1>3, <1>4

\* A row has failed: another is tried, or the part is given up.
LEMMA OthersStep ==
  ASSUME FetchInv, NEW r \in Readers, NEW k \in Parts, Others(r, k)
  PROVE  /\ ReadersType' /\ ReadersTrue' /\ CacheTrue'
         /\ slot[r][k].held = {} \/ reader' = reader
<1> DEFINE s == slot[r][k]
<1>1. /\ s.at = "next" /\ UNCHANGED <<catalog, cached>>
  BY DEF Others, Live
<1>2. \/ Rest(r, k) = {} /\ Fail(r, k)
      \/ /\ \E o \in Rest(r, k) : Set(r, k, Then(s, o.id, o.msg, Rest(r, k) \ {o}))
         /\ UNCHANGED reader
      \/ /\ \E part \in SUBSET Rest(r, k) :
              Set(r, k, [s EXCEPT !.rest = part, !.held = @ \cap {o.id : o \in part}])
         /\ UNCHANGED reader
  BY DEF Others, Rest, Then
<1>3. UNCHANGED <<Catalog, cached>> /\ CacheTrue'
  BY <1>1 DEF catalog, Catalog, FetchInv, CacheTrue, cached
<1>4. /\ s \in Try /\ reader[r].at = "run" /\ k \in DOMAIN reader[r].got
      /\ Tries(s, reader[r], k, versions, rows, posted, discord)
  BY <1>1, UnderWay
<1>5. /\ Rest(r, k) \in SUBSET Pick
      /\ \A o \in Rest(r, k) :
              /\ Says(o.msg, reader[r].file, k, versions, posted)
              /\ o.id \in s.held => rows[o.id].msg = o.msg
      /\ \A i \in s.held : \E o \in Rest(r, k) : o.id = i
  BY <1>1, RestTrue
<1>6. CASE Rest(r, k) = {} /\ Fail(r, k)
  <2>1. s.held = {}
    BY <1>5, <1>6
  <2> QED
    BY <1>3, <1>4, <1>6, <2>1, FailStep DEF FetchInv
<1>7. ASSUME NEW o \in Rest(r, k), Set(r, k, Then(s, o.id, o.msg, Rest(r, k) \ {o})), UNCHANGED reader
      PROVE  ReadersType' /\ ReadersTrue'
  <2> DEFINE X == Rest(r, k) \ {o}
             t == Then(s, o.id, o.msg, X)
  <2>1. o.id \in Ids /\ o.msg \in Ids /\ X \in SUBSET Pick
    BY <1>5 DEF Pick
  <2>2. \A p \in X : p \in Rest(r, k)
    OBVIOUS
  <2>3. \A i \in s.held : i = o.id \/ \E p \in X : p.id = i
    BY <1>5
  <2> HIDE DEF X
  <2>4. /\ t \in Try /\ t.at = "stored" /\ t.row = o.id /\ t.msg = o.msg
        /\ t.rest = X /\ t.held = s.held
    BY <1>4, <2>1, ThenTry
  <2>5. Set(r, k, t)
    BY <1>7 DEF X
  <2> HIDE DEF t
  <2>6. Tries(t, reader[r], k, versions, rows, posted, discord)
    BY <1>1, <1>4, <1>5, <2>1, <2>2, <2>3, <2>4 DEF Tries
  <2> QED
    BY <1>3, <1>7, <2>4, <2>5, <2>6, TryStep DEF FetchInv
<1>8. ASSUME NEW part \in SUBSET Rest(r, k), UNCHANGED reader,
             Set(r, k, [s EXCEPT !.rest = part, !.held = @ \cap {o.id : o \in part}])
      PROVE  ReadersType' /\ ReadersTrue'
  <2> DEFINE H == s.held \cap {o.id : o \in part}
             t == [s EXCEPT !.rest = part, !.held = H]
  <2>1. part \in SUBSET Pick /\ H \subseteq s.held
    BY <1>5
  <2>2. \A i \in H : \E o \in part : o.id = i
    OBVIOUS
  <2> HIDE DEF H
  <2>3. /\ t \in Try /\ t.at = "next" /\ t.row = s.row /\ t.msg = s.msg /\ t.data = s.data
        /\ t.rest = part /\ t.held = H
    BY <1>1, <1>4, <2>1 DEF Try
  <2>4. Set(r, k, t)
    BY <1>8 DEF H
  <2> HIDE DEF t
  <2>5. Tries(t, reader[r], k, versions, rows, posted, discord)
    BY <1>1, <1>4, <1>5, <2>1, <2>2, <2>3 DEF Tries
  <2> QED
    BY <1>3, <1>8, <2>3, <2>4, <2>5, TryStep DEF FetchInv
<1> QED
  BY <1>2, <1>3, <1>5, <1>6, <1>7, <1>8

\* What was opened is delivered and kept for later.
LEMMA PutStep ==
  ASSUME FetchInv, NEW r \in Readers, NEW k \in Parts, Put(r, k)
  PROVE  ReadersType' /\ ReadersTrue' /\ CacheTrue'
<1> DEFINE s == slot[r][k]
<1>1. /\ s.at = "put" /\ PutCached(CacheKey(reader[r].file, k), s.data)
      /\ Deliver(r, k, s.data) /\ UNCHANGED store
  BY DEF Put, Live
<1>2. UNCHANGED Catalog /\ versions' = versions
  BY <1>1 DEF store, catalog, Catalog
<1>3. /\ reader[r].at = "run" /\ k \in DOMAIN reader[r].got /\ reader[r].file \in Files
      /\ Tries(s, reader[r], k, versions, rows, posted, discord)
  BY <1>1, UnderWay
<1>4. s.data \in Variants(versions[reader[r].file], k)
  BY <1>1, <1>3 DEF Tries
<1>5. CacheTrue'
  BY <1>1, <1>2, <1>3, <1>4, CacheStep DEF FetchInv
<1> QED
  BY <1>1, <1>2, <1>3, <1>4, <1>5, DeliverStep DEF FetchInv

\* Every step of a fetch keeps what is known.
LEMMA FetchStep ==
  ASSUME FetchInv, NEW r \in Readers, NEW k \in Parts, Fetch(r, k)
  PROVE  FetchInv'
<1>1. ReadersType' /\ ReadersTrue' /\ CacheTrue'
  BY LookupStep, StoredStep, FreshStep, OpenStep, OthersStep, PutStep DEF Fetch
<1>2. UNCHANGED catalog
  BY DEF Fetch, Lookup, Stored, Fresh, Open, Others, Put, store
<1>3. CatalogShape' /\ CatalogTrue' /\ Finite'
  BY <1>2 DEF FetchInv, CatalogShape, CatalogTrue, FileTrue, UploadTrue, Complete, Finite, catalog
<1> QED
  BY <1>1, <1>3 DEF FetchInv

-----------------------------------------------------------------------------
(***************************************************************************)
(* Steps of the readers.                                                   *)
(***************************************************************************)
\* Every change of the catalog keeps what is known.
LEMMA ChangeKeeps ==
  ASSUME FetchInv, Change
  PROVE  FetchInv' /\ reader' = reader
<1>1. /\ CatalogShape' /\ CatalogTrue' /\ CatalogMoves
      /\ slot' \in [Readers -> [Parts -> Try]] /\ SlotsMove /\ reader' = reader
  BY ChangeStep DEF FetchInv, ReadersType
<1>2. UNCHANGED cached
  BY DEF Change, BeginUpload, StorePart, Count, EndUpload, DeleteFile, DeleteMessage
<1>3. CacheTrue'
  BY <1>1, <1>2, CacheStays DEF FetchInv
<1>4. ReadersType'
  BY <1>1 DEF FetchInv, ReadersType
<1>5. ASSUME NEW r \in Readers
      PROVE  /\ Truth(reader[r], versions', deleted', files', taken', rows', posted')
             /\ \A k \in Parts : Tries(slot'[r][k], reader[r], k, versions', rows', posted', discord')
  <2>1. reader[r] \in Call /\ Truth(reader[r], versions, deleted, files, taken, rows, posted)
    BY DEF FetchInv, ReadersType, ReadersTrue
  <2>2. Truth(reader[r], versions', deleted', files', taken', rows', posted')
    BY <1>1, <2>1, TruthStays DEF FetchInv
  <2>3. ASSUME NEW k \in Parts
        PROVE  Tries(slot'[r][k], reader[r], k, versions', rows', posted', discord')
    <3>1. Tries(slot[r][k], reader[r], k, versions, rows, posted, discord)
      BY DEF FetchInv, ReadersTrue
    <3> QED
      BY <1>1, <2>1, <3>1, TriesStay DEF FetchInv
  <2> QED
    BY <2>2, <2>3
<1>6. ReadersTrue'
  BY <1>1, <1>5 DEF ReadersTrue
<1>7. Finite'
  <2>1. CASE versions' = versions
    BY <2>1 DEF FetchInv, Finite
  <2>2. ASSUME NEW f \in Files, NEW c, versions' = [versions EXCEPT ![f] = @ \cup {c}]
        PROVE  Finite'
    <3>1. \A g \in Files : IsFiniteSet(versions[g])
      BY DEF FetchInv, Finite
    <3>2. IsFiniteSet(versions[f] \cup {c})
      BY <3>1, FS_AddElement
    <3>3. \A g \in Files : versions'[g] = IF g = f THEN versions[f] \cup {c} ELSE versions[g]
      BY <2>2 DEF FetchInv, CatalogShape
    <3> QED
      BY <3>1, <3>2, <3>3 DEF Finite
  <2>3. ASSUME NEW o \in Offers, BeginUpload(o[1], o[2])
        PROVE  Finite'
    <3>1. o[1] \in Files
      BY FetchAssumption
    <3> QED
      BY <2>2, <2>3, <3>1 DEF BeginUpload
  <2> QED
    BY <2>1, <2>3 DEF Change, StorePart, Count, EndUpload, DeleteFile, DeleteMessage
<1> QED
  BY <1>1, <1>3, <1>4, <1>6, <1>7 DEF FetchInv

\* Nothing is fetched for a reader that is not at work.
LEMMA AllOff ==
  ASSUME FetchInv, NEW r \in Readers, reader[r].at # "run", NEW k \in Parts
  PROVE  slot[r][k].at = "off"
BY DEF FetchInv, ReadersTrue, Tries

\* A reader becomes R while nothing is fetched for it.
LEMMA QuietStep ==
  ASSUME FetchInv, UNCHANGED <<catalog, cached, slot>>, NEW r \in Readers, NEW R \in Call,
         \A k \in Parts : slot[r][k].at = "off",
         reader' = [reader EXCEPT ![r] = R], Truth(R, versions, deleted, files, taken, rows, posted)
  PROVE  FetchInv'
<1>1. UNCHANGED catalog /\ UNCHANGED <<Catalog, slot>> /\ UNCHANGED cached
  BY DEF catalog, Catalog
<1>2. \A k \in Parts : Tries(slot[r][k], R, k, versions, rows, posted, discord)
  BY DEF Tries
<1>3. ReadersType' /\ ReadersTrue'
  BY <1>1, <1>2, CallStep DEF FetchInv
<1>4. CatalogShape' /\ CatalogTrue' /\ Finite'
  BY <1>1 DEF FetchInv, CatalogShape, CatalogTrue, FileTrue, UploadTrue, Complete, Finite, catalog
<1>5. CacheTrue'
  BY <1>1 DEF FetchInv, CacheTrue, catalog, cached
<1> QED
  BY <1>3, <1>4, <1>5 DEF FetchInv

\* A reader begins.
LEMMA StartStep ==
  ASSUME FetchInv, NEW r \in Readers, NEW a \in Asks[r], Start(r, a[1], a[2])
  PROVE  FetchInv' /\ reader'[r].at # "run" /\ \A q \in Readers \ {r} : reader'[q] = reader[q]
<1> DEFINE f == a[2]
           N == [Waiting EXCEPT !.kind = a[1], !.file = f, !.at = "rows", !.rec = files[f]]
           E == [Waiting EXCEPT !.kind = a[1], !.file = f, !.at = "error"]
<1>1. /\ reader[r].at = "idle" /\ UNCHANGED <<catalog, cached, slot>>
      /\ \/ f \in DOMAIN files /\ reader' = [reader EXCEPT ![r] = N]
         \/ reader' = [reader EXCEPT ![r] = E]
  BY DEF Start
<1>2. a[1] \in Kinds /\ f \in Files
  BY FetchAssumption
<1>5. reader \in [Readers -> Call]
  BY DEF FetchInv, ReadersType
<1>9. \A k \in Parts : slot[r][k].at = "off"
  BY <1>1, AllOff
<1>10. CASE f \in DOMAIN files /\ reader' = [reader EXCEPT ![r] = N]
  <2>1. files[f] \in FileRow
    BY <1>10 DEF FetchInv, CatalogShape
  <2>2. /\ N \in Call
        /\ N.at = "rows" /\ N.file = f /\ N.rec = files[f] /\ N.got = <<>> /\ N.wrong = {}
    BY <1>2, <2>1, EmptyType DEF Call, Waiting
  <2> HIDE DEF N
  <2>3. /\ files[f].sha # None => files[f].sha \in versions[f]
        /\ \E c \in versions[f] : files[f].size = Len(c)
    BY <1>10 DEF FetchInv, CatalogTrue, FileTrue
  <2>4. DOMAIN N.got = {}
    BY <2>2
  <2>5. Truth(N, versions, deleted, files, taken, rows, posted)
    BY <1>2, <1>10, <2>2, <2>3, <2>4 DEF Truth, Settles
  <2>6. FetchInv'
    BY <1>1, <1>9, <1>10, <2>2, <2>5, QuietStep
  <2>7. reader'[r] = N /\ \A q \in Readers \ {r} : reader'[q] = reader[q]
    BY <1>5, <1>10
  <2>8. reader'[r].at # "run"
    <3>1. reader'[r].at = N.at
      BY <2>7
    <3> QED
      BY <2>2, <3>1
  <2> QED
    BY <2>6, <2>7, <2>8
<1>11. CASE reader' = [reader EXCEPT ![r] = E]
  <2>1. Waiting \in Call
    BY EmptyType DEF Waiting, Call, FileRow
  <2>2. /\ E \in Call
        /\ E.at = "error" /\ E.file = f /\ E.rec.sha = None /\ E.got = <<>>
    BY <1>2, <2>1 DEF Call, Waiting
  <2> HIDE DEF E
  <2>4. DOMAIN E.got = {}
    BY <2>2
  <2>5. Truth(E, versions, deleted, files, taken, rows, posted)
    BY <1>2, <2>2, <2>4 DEF Truth
  <2>6. FetchInv'
    BY <1>1, <1>9, <1>11, <2>2, <2>5, QuietStep
  <2> QED
    BY <1>5, <1>11, <2>2, <2>6
<1> QED
  BY <1>1, <1>10, <1>11

\* The caller goes away.
LEMMA CancelStep ==
  ASSUME FetchInv, NEW r \in Readers, Cancel(r)
  PROVE  FetchInv' /\ reader'[r].got = reader[r].got /\ \A q \in Readers \ {r} : reader'[q] = reader[q]
<1> DEFINE R == reader[r]
           N == [R EXCEPT !.cancelled = TRUE]
<1>1. /\ R.at = "run" /\ reader' = [reader EXCEPT ![r].cancelled = TRUE]
      /\ UNCHANGED <<store, cached, slot>>
  BY DEF Cancel
<1>2. reader \in [Readers -> Call] /\ R \in Call /\ Truth(R, versions, deleted, files, taken, rows, posted)
  BY DEF FetchInv, ReadersType, ReadersTrue
<1>3. reader' = [reader EXCEPT ![r] = N]
  BY <1>1
<1>4. /\ N \in Call
      /\ N.kind = R.kind /\ N.at = R.at /\ N.file = R.file /\ N.rec = R.rec /\ N.plan = R.plan
      /\ N.got = R.got /\ N.cancelled /\ N.lost = R.lost /\ N.wrong = R.wrong /\ N.doubt = R.doubt
  BY <1>2 DEF Call
<1>5. \A k \in Parts : Tries(slot[r][k], R, k, versions, rows, posted, discord)
  BY DEF FetchInv, ReadersTrue
<1>6. UNCHANGED catalog /\ UNCHANGED <<Catalog, slot>> /\ UNCHANGED cached
  BY <1>1 DEF store, catalog, Catalog
<1>7. reader'[r] = N /\ \A q \in Readers \ {r} : reader'[q] = reader[q]
  BY <1>2, <1>3
<1> HIDE DEF N, R
<1>12. \A c : Settles(R, c) => Settles(N, c)
  BY <1>1, <1>4 DEF Settles
<1>8. Truth(N, versions, deleted, files, taken, rows, posted)
  BY <1>1, <1>2, <1>4, <1>12 DEF Truth
<1>9. \A k \in Parts : Tries(slot[r][k], N, k, versions, rows, posted, discord)
  BY <1>4, <1>5 DEF Tries
<1>10. ReadersType' /\ ReadersTrue'
  BY <1>3, <1>4, <1>6, <1>8, <1>9, CallStep DEF FetchInv
<1>11. CatalogShape' /\ CatalogTrue' /\ Finite' /\ CacheTrue'
  BY <1>6 DEF FetchInv, CatalogShape, CatalogTrue, FileTrue, UploadTrue, Complete, Finite, CacheTrue,
              catalog, cached
<1> QED
  BY <1>4, <1>7, <1>10, <1>11 DEF FetchInv, R

\* Reader r ends with the answer st, having found that the parts W differ.
EndsAs(r, st, W) == reader' = [reader EXCEPT ![r].at = st, ![r].plan = <<>>, ![r].wrong = W]

\* That is true of a file uploaded once, completely.
Right(R, st, W) ==
  \A c \in Contents : R.rec.sha # None /\ versions[R.file] = {c} =>
    /\ W = {}
    /\ st = "bad" /\ R.kind = "verify" => R.lost # {} \/ R.doubt
    /\ st = "ok" /\ R.kind = "bytes" => Whole(R.got) = R.rec.sha \/ R.doubt
    /\ st = "error" /\ R.kind = "verify" => R.cancelled \/ R.doubt

\* A reader ends, with an answer that is true of a file uploaded once, completely.
LEMMA EndsTrue ==
  ASSUME FetchInv, UNCHANGED <<catalog, cached, slot>>, NEW r \in Readers, reader[r].at # "idle",
         \A k \in Parts : slot[r][k].at = "off",
         NEW st \in {"ok", "bad", "error"}, NEW W \in SUBSET Parts,
         EndsAs(r, st, W), Right(reader[r], st, W)
  PROVE  /\ FetchInv' /\ reader'[r].at = st /\ reader'[r].got = reader[r].got
         /\ \A q \in Readers \ {r} : reader'[q] = reader[q]
<1> DEFINE R == reader[r]
           N == [R EXCEPT !.at = st, !.plan = <<>>, !.wrong = W]
<1>1. reader \in [Readers -> Call] /\ R \in Call /\ Truth(R, versions, deleted, files, taken, rows, posted)
  BY DEF FetchInv, ReadersType, ReadersTrue
<1>2. reader' = [reader EXCEPT ![r] = N]
  BY <1>1 DEF Call, EndsAs
<1>3. /\ N \in Call
      /\ N.kind = R.kind /\ N.at = st /\ N.file = R.file /\ N.rec = R.rec
      /\ N.got = R.got /\ N.cancelled = R.cancelled /\ N.lost = R.lost /\ N.wrong = W
      /\ N.doubt = R.doubt
  BY <1>1, EmptyType DEF Call
<1>4. reader'[r] = N /\ \A q \in Readers \ {r} : reader'[q] = reader[q]
  BY <1>1, <1>2
<1>5. \A c \in Contents : R.rec.sha # None /\ versions[R.file] = {c} => Settles(N, c)
  BY <1>3 DEF Settles, Right
<1>8. R.at # "idle"
  OBVIOUS
<1> HIDE DEF N, R
<1>6. Truth(N, versions, deleted, files, taken, rows, posted)
  BY <1>1, <1>3, <1>5, <1>8 DEF Truth
<1>7. FetchInv'
  BY <1>2, <1>3, <1>6, QuietStep DEF R
<1> QED
  BY <1>3, <1>4, <1>7 DEF R

\* A reader ends without a word about its parts.
LEMMA EndIs ==
  ASSUME FetchInv, NEW r \in Readers, NEW st, End(r, st)
  PROVE  /\ EndsAs(r, st, reader[r].wrong)
         /\ reader[r].wrong \in SUBSET Parts
         /\ \A c \in Contents : reader[r].at # "idle" /\ reader[r].rec.sha # None
                                /\ versions[reader[r].file] = {c} => reader[r].wrong = {}
<1>1. /\ reader \in [Readers -> Call] /\ reader[r] \in Call
      /\ Truth(reader[r], versions, deleted, files, taken, rows, posted)
  BY DEF FetchInv, ReadersType, ReadersTrue
<1>2. EndsAs(r, st, reader[r].wrong)
  BY <1>1 DEF End, EndsAs, Call
<1>3. reader[r].wrong \in SUBSET Parts
  BY <1>1 DEF Call
<1> QED
  BY <1>1, <1>2, <1>3 DEF Truth, Settles

\* A list with rows of the parts ks becomes a plan, or an error. Without a reason to
\* doubt it, it has all the parts of a file uploaded once, completely.
LEMMA PlanStep ==
  ASSUME FetchInv, UNCHANGED <<catalog, cached, slot>>, NEW r \in Readers, reader[r].at = "rows",
         NEW ks \in SUBSET Parts, NEW d \in BOOLEAN, Plan(r, ks, d),
         ~d => \A c \in Contents : reader[r].rec.sha # None /\ versions[reader[r].file] = {c} =>
                 ks = {k \in Parts : k < Len(c)}
  PROVE  FetchInv' /\ \A q \in Readers \ {r} : reader'[q] = reader[q]
<1> DEFINE R == reader[r]
           f == R.file
<1>1. R.at = "rows"
  OBVIOUS
<1>2. reader \in [Readers -> Call] /\ R \in Call /\ Truth(R, versions, deleted, files, taken, rows, posted)
  BY DEF FetchInv, ReadersType, ReadersTrue
<1>3. f \in Files /\ \A k \in Parts : slot[r][k].at = "off"
  BY <1>1, <1>2, AllOff DEF Truth
<1>4. /\ \A c \in Contents : R.rec.sha # None /\ versions[f] = {c} => R.wrong = {}
      /\ DOMAIN R.got = {}
  BY <1>1, <1>2 DEF Truth, Settles
<1>5. ~d => \A c \in Contents : R.rec.sha # None /\ versions[f] = {c} => ks = {k \in Parts : k < Len(c)}
  OBVIOUS
<1>7. ASSUME ks = {} \/ (R.kind = "verify" /\ Gaps(ks)),
             reader' = [reader EXCEPT ![r].at = "error", ![r].doubt = d]
      PROVE  FetchInv' /\ \A q \in Readers \ {r} : reader'[q] = reader[q]
  <2> DEFINE N == [R EXCEPT !.at = "error", !.doubt = d]
  <2>1. ASSUME NEW c \in Contents, R.rec.sha # None, versions[f] = {c}, ~d
        PROVE  R.kind # "verify"
    <3> SUFFICES ASSUME R.kind = "verify" PROVE FALSE
      OBVIOUS
    <3>1. ks = {k \in Parts : k < Len(c)}
      BY <1>5, <2>1
    <3>2. ks = 0 .. Len(c) - 1
      <4>1. Len(c) \in Nat /\ \A k \in Nat : k < Len(c) => k \in Parts
        BY ContentType
      <4>2. \A k \in Parts : k \in Nat
        BY PartsType
      <4> QED
        BY <3>1, <4>1, <4>2
    <3>3. Len(c) \in Nat /\ Len(c) > 0
      BY ContentType
    <3>4. 0 \in ks
      BY <3>2, <3>3
    <3>5. Cardinality(ks) = Len(c)
      BY <3>2, <3>3, Below
    <3>6. ~Gaps(ks)
      BY <3>2, <3>5 DEF Gaps
    <3> QED
      BY <1>7, <3>4, <3>6
  <2>2. reader' = [reader EXCEPT ![r] = N]
    BY <1>2, <1>7 DEF Call
  <2>3. /\ N \in Call
        /\ N.kind = R.kind /\ N.at = "error" /\ N.file = f /\ N.rec = R.rec
        /\ N.got = R.got /\ N.wrong = R.wrong /\ N.doubt = d
    BY <1>2 DEF Call
  <2>4. \A q \in Readers \ {r} : reader'[q] = reader[q]
    BY <1>2, <2>2
  <2> HIDE DEF N
  <2>5. ASSUME NEW c \in Contents, R.rec.sha # None, versions[f] = {c}
        PROVE  Settles(N, c)
    <3>1. R.wrong = {} /\ (d \/ R.kind # "verify")
      BY <1>4, <2>1, <2>5
    <3> QED
      BY <2>3, <3>1 DEF Settles
  <2>6. R.at # "idle"
    BY <1>1
  <2> HIDE DEF R
  <2>7. Truth(N, versions, deleted, files, taken, rows, posted)
    BY <1>2, <1>3, <1>4, <2>3, <2>5, <2>6 DEF Truth
  <2>8. FetchInv'
    BY <1>3, <2>2, <2>3, <2>7, QuietStep
  <2> QED
    BY <2>4, <2>8
<1>8. ASSUME NEW first \in [ks -> DOMAIN rows], \A k \in ks : first[k] \in CopiesOf(f, k),
             reader' = [reader EXCEPT ![r].at = "run", ![r].doubt = d,
                     ![r].plan = [k \in ks |-> [id |-> first[k], msg |-> rows[first[k]].msg,
                                               sha |-> Sha(first[k])]],
                     ![r].got = [k \in ks |-> "none"]]
      PROVE  FetchInv' /\ \A q \in Readers \ {r} : reader'[q] = reader[q]
  <2> DEFINE plan == [k \in ks |-> [id |-> first[k], msg |-> rows[first[k]].msg,
                                    sha |-> Sha(first[k])]]
             none == [k \in ks |-> "none"]
             N == [R EXCEPT !.at = "run", !.doubt = d, !.plan = plan, !.got = none]
  <2>1. ASSUME NEW k \in ks
        PROVE  /\ first[k] \in taken /\ first[k] \in Ids /\ rows[first[k]].msg \in Ids
               /\ Says(rows[first[k]].msg, f, k, versions, posted)
               /\ Sha(first[k]) \in Bodies /\ Sha(first[k]) \in Variants(versions[f], k)
               /\ rows[first[k]] = [file |-> f, part |-> k, msg |-> rows[first[k]].msg]
    <3>1. first[k] \in DOMAIN rows /\ rows[first[k]].file = f /\ rows[first[k]].part = k
      BY <1>8 DEF CopiesOf
    <3> DEFINE i == first[k]
    <3>2. /\ rows[i] \in CopyRow /\ rows[i].msg \in DOMAIN posted /\ i \in taken /\ i \in Ids
          /\ versions[f] \in SUBSET Contents
      BY <1>3, <3>1 DEF FetchInv, CatalogShape
    <3>3. posted[rows[i].msg].body \in Variants(versions[f], k)
      BY <3>1 DEF FetchInv, CatalogTrue
    <3>4. rows[i] = [file |-> f, part |-> k, msg |-> rows[i].msg] /\ rows[i].msg \in Ids
      BY <3>1, <3>2 DEF CopyRow
    <3>5. Sha(i) = posted[rows[i].msg].body
      BY DEF Sha
    <3>6. k \in Nat
      BY PartsType
    <3> HIDE DEF i, f
    <3>7. Sha(i) \in Bodies /\ Sha(i) \in Variants(versions[f], k)
      BY <3>2, <3>3, <3>5, <3>6, VariantsType
    <3> QED
      BY <3>2, <3>3, <3>4, <3>7 DEF Says, i
  <2>2. /\ DOMAIN plan = ks
        /\ \A k \in ks : /\ plan[k].id = first[k] /\ plan[k].msg = rows[first[k]].msg
                         /\ plan[k].sha = Sha(first[k])
        /\ DOMAIN none = ks /\ \A k \in ks : none[k] = "none"
    OBVIOUS
  <2>3. plan \in Plans /\ none \in Gots
    <3>1. \A k \in ks : [id |-> first[k], msg |-> rows[first[k]].msg, sha |-> Sha(first[k])] \in Planned
      BY <2>1 DEF Planned
    <3>2. plan \in [ks -> Planned]
      BY <3>1
    <3>3. none \in [ks -> Bodies \cup {"none", "failed"}]
      OBVIOUS
    <3> HIDE DEF plan, none
    <3> QED
      BY <3>2, <3>3 DEF Plans, Gots
  <2> HIDE DEF plan, none
  <2>4. reader' = [reader EXCEPT ![r] = N]
    BY <1>2, <1>8 DEF Call, plan, none
  <2>5. /\ N \in Call
        /\ N.kind = R.kind /\ N.at = "run" /\ N.file = f /\ N.rec = R.rec /\ N.plan = plan
        /\ N.got = none /\ N.wrong = R.wrong /\ N.doubt = d
    BY <1>2, <2>3 DEF Call
  <2>6. \A q \in Readers \ {r} : reader'[q] = reader[q]
    BY <1>2, <2>4
  <2> HIDE DEF N
  <2>9. \A b \in Bodies : b # "none"
    BY FetchAssumption
  <2>12. \A k \in DOMAIN N.plan :
           /\ Says(N.plan[k].msg, f, k, versions, posted)
           /\ N.plan[k].sha \in Variants(versions[f], k)
           /\ N.plan[k].id \in taken
           /\ rows[N.plan[k].id] = [file |-> f, part |-> k, msg |-> N.plan[k].msg]
    BY <2>1, <2>2, <2>5
  <2>13. R.at # "idle" /\ R.at = "rows"
    BY <1>1
  <2>14. DOMAIN N.got = ks /\ DOMAIN N.plan = ks /\ \A k \in ks : N.got[k] = "none"
    BY <2>2, <2>5
  <2> HIDE DEF R
  <2>15. ASSUME NEW c \in Contents, R.rec.sha # None, versions[f] = {c}
         PROVE  Settles(N, c)
    <3>1. d \/ DOMAIN N.got = {k \in Parts : k < Len(c)}
      BY <1>5, <2>14, <2>15
    <3>2. N.wrong = {}
      BY <1>4, <2>5, <2>15
    <3> QED
      BY <2>5, <3>1, <3>2 DEF Settles
  <2>10. Truth(N, versions, deleted, files, taken, rows, posted)
    BY <1>2, <1>3, <2>5, <2>9, <2>12, <2>13, <2>14, <2>15 DEF Truth
  <2>11. FetchInv'
    BY <1>3, <2>4, <2>5, <2>10, QuietStep
  <2> QED
    BY <2>6, <2>11
<1> QED
  BY <1>7, <1>8 DEF Plan

\* The rows of a file are listed. Of a file uploaded once, completely, there are all,
\* if it was not deleted.
LEMMA ReadRowsStep ==
  ASSUME FetchInv, NEW r \in Readers, ReadRows(r)
  PROVE  /\ FetchInv' /\ \A q \in Readers \ {r} : reader'[q] = reader[q]
         /\ DOMAIN reader[r].got = {}
<1> DEFINE R == reader[r]
           f == R.file
           all == {k \in Parts : CopiesOf(f, k) # {}}
<1>1. R.at = "rows" /\ UNCHANGED <<catalog, cached, slot>>
  BY DEF ReadRows
<1>2. R \in Call /\ Truth(R, versions, deleted, files, taken, rows, posted)
  BY DEF FetchInv, ReadersType, ReadersTrue
<1>3. f \in Files /\ DOMAIN R.got = {}
  BY <1>1, <1>2 DEF Truth
<1>4. ASSUME NEW c \in Contents, R.rec.sha # None, versions[f] = {c}, f \notin deleted
      PROVE  all = {k \in Parts : k < Len(c)}
  <2>1. f \in DOMAIN files /\ files[f].sha # None
    BY <1>1, <1>2, <1>4 DEF Truth
  <2>2. \A k \in Parts : k < Len(c) => HasPart(rows, f, k)
    BY <1>4, <2>1 DEF FetchInv, CatalogTrue, FileTrue, Complete
  <2>3. \A k \in Parts : k < Len(c) => k \in all
    BY <2>2 DEF HasPart, CopiesOf
  <2>4. ASSUME NEW k \in all
        PROVE  k < Len(c)
    <3>1. PICK i \in DOMAIN rows : rows[i].file = f /\ rows[i].part = k
      BY DEF CopiesOf
    <3>2. posted[rows[i].msg].body \in Variants(versions[f], k)
      BY <3>1 DEF FetchInv, CatalogTrue
    <3>3. posted[rows[i].msg].body \in Variants({c}, k)
      BY <1>4, <3>2
    <3>4. k \in Nat
      BY PartsType
    <3> QED
      BY <3>3, <3>4, VariantsOnce
  <2> QED
    BY <2>3, <2>4
<1>5. CASE Plan(r, all, f \in deleted)
  <2>1. all \in SUBSET Parts /\ (f \in deleted) \in BOOLEAN
    OBVIOUS
  <2>2. ~(f \in deleted) => \A c \in Contents : reader[r].rec.sha # None /\ versions[reader[r].file] = {c} =>
          all = {k \in Parts : k < Len(c)}
    BY <1>4
  <2>3. reader[r].at = "rows"
    BY <1>1
  <2> HIDE DEF all
  <2>4. FetchInv' /\ \A q \in Readers \ {r} : reader'[q] = reader[q]
    BY <1>1, <1>5, <2>1, <2>2, <2>3, PlanStep
  <2> QED
    BY <1>3, <2>4
<1>6. ASSUME NEW n \in Parts, Plan(r, {k \in all : k < n}, TRUE)
      PROVE  FetchInv' /\ \A q \in Readers \ {r} : reader'[q] = reader[q]
  <2> DEFINE ks == {k \in all : k < n}
  <2>1. ks \in SUBSET Parts /\ TRUE \in BOOLEAN /\ Plan(r, ks, TRUE) /\ reader[r].at = "rows"
    BY <1>1, <1>6
  <2> HIDE DEF ks
  <2> QED
    BY <1>1, <2>1, PlanStep
<1> QED
  BY <1>3, <1>5, <1>6 DEF ReadRows

\* VerifyFile has tried everything: of a file uploaded once, completely, no part
\* differs from its row, and it finds the whole, unless a part was lost or the list
\* is in doubt.
LEMMA VerdictStep ==
  ASSUME FetchInv, NEW r \in Readers, Verdict(r)
  PROVE  /\ FetchInv' /\ reader'[r].at # "run" /\ \A q \in Readers \ {r} : reader'[q] = reader[q]
<1> DEFINE R == reader[r]
           st == IF Sound(r) THEN "ok" ELSE "bad"
           W == Mismatched(r)
<1>1. /\ R.at = "run" /\ R.kind = "verify" /\ UNCHANGED <<store, cached, slot>>
      /\ \A k \in Parts : slot[r][k].at = "off"
      /\ \/ R.cancelled /\ End(r, "error")
         \/ /\ \A k \in DOMAIN R.got : R.got[k] # "none"
            /\ EndsAs(r, st, W)
  BY DEF Verdict, Idle, Live, Got, EndsAs
<1>2. R \in Call /\ Truth(R, versions, deleted, files, taken, rows, posted)
  BY DEF FetchInv, ReadersType, ReadersTrue
<1>5. UNCHANGED <<catalog, cached, slot>> /\ reader[r].at # "idle"
  BY <1>1 DEF store
<1>3. CASE R.cancelled /\ End(r, "error")
  <2>1. /\ EndsAs(r, "error", R.wrong) /\ R.wrong \in SUBSET Parts
        /\ \A c \in Contents : R.rec.sha # None /\ versions[R.file] = {c} => R.wrong = {}
    BY <1>3, <1>5, EndIs
  <2>2. Right(R, "error", R.wrong)
    BY <1>1, <1>3, <2>1 DEF Right
  <2> QED
    BY <1>1, <1>5, <2>1, <2>2, EndsTrue
<1>4. CASE /\ \A k \in DOMAIN R.got : R.got[k] # "none"
           /\ EndsAs(r, st, W)
  <2>0. /\ DOMAIN R.got = DOMAIN R.plan /\ DOMAIN R.got \subseteq Parts
        /\ \A k \in DOMAIN R.got : R.got[k] \in Bodies \cup {"none", "failed"}
    BY <1>1, <1>2 DEF Truth, Call, Gots
  <2>1. W \in SUBSET Parts
    BY <2>0 DEF Mismatched, Fetched, Got
  <2>2. ASSUME NEW c \in Contents, R.rec.sha # None, versions[R.file] = {c}
        PROVE  /\ \A k \in DOMAIN R.got : R.got[k] \in Bodies => k < Len(c) /\ R.got[k] = c[k + 1]
               /\ W = {}
    <3>1. ASSUME NEW k \in DOMAIN R.got, R.got[k] \in Bodies
          PROVE  k < Len(c) /\ R.got[k] = c[k + 1] /\ R.plan[k].sha = c[k + 1]
      <4>1. k \in Nat
        BY <2>0, PartsType
      <4>2. R.got[k] \in Variants({c}, k) /\ R.plan[k].sha \in Variants({c}, k)
        BY <1>1, <1>2, <2>0, <2>2, <3>1 DEF Truth
      <4> QED
        BY <4>1, <4>2, VariantsOnce
    <3> QED
      BY <3>1 DEF Mismatched, Fetched, Got
  <2>3. ASSUME NEW c \in Contents, R.rec.sha # None, versions[R.file] = {c}, ~Sound(r)
        PROVE  R.lost # {} \/ R.doubt
    <3> SUFFICES ASSUME R.lost = {}, ~R.doubt PROVE FALSE
      OBVIOUS
    <3>1. Settles(R, c)
      BY <1>1, <1>2, <2>3 DEF Truth
    <3>2. DOMAIN R.got = {k \in Parts : k < Len(c)}
      BY <1>1, <3>1 DEF Settles
    <3>3. R.rec.sha = c /\ R.rec.size = Len(c)
      BY <1>1, <1>2, <2>3 DEF Truth
    <3>4. \A k \in DOMAIN R.got : R.got[k] # "failed"
      BY <1>1, <1>2 DEF Truth
    <3>5. \A k \in DOMAIN R.got : R.got[k] \in Bodies
      BY <1>4, <2>0, <3>4
    <3>6. (\A k \in DOMAIN R.got : R.got[k] = c[k + 1]) /\ W = {}
      BY <2>2, <2>3, <3>5
    <3>7. Joined(r) = c
      BY <3>2, <3>6, WholeIs, JoinedIs
    <3> QED
      BY <2>3, <3>3, <3>5, <3>6, <3>7 DEF Sound, Got
  <2>4. st \in {"ok", "bad"} /\ (st = "bad" => ~Sound(r))
    OBVIOUS
  <2> HIDE DEF st, W
  <2>5. Right(R, st, W)
    BY <1>1, <2>2, <2>3, <2>4 DEF Right
  <2> QED
    BY <1>1, <1>4, <1>5, <2>1, <2>4, <2>5, EndsTrue
<1> QED
  BY <1>1, <1>3, <1>4

\* GetFileBytes returns: of a file uploaded once, completely, the whole, unless the
\* list is in doubt.
LEMMA ReturnStep ==
  ASSUME FetchInv, NEW r \in Readers, Return(r)
  PROVE  /\ FetchInv' /\ reader'[r].at # "run" /\ \A q \in Readers \ {r} : reader'[q] = reader[q]
<1> DEFINE R == reader[r]
<1>1. /\ R.at = "run" /\ R.kind = "bytes" /\ UNCHANGED <<store, cached, slot>>
      /\ \A k \in Parts : slot[r][k].at = "off"
      /\ \/ (\A k \in DOMAIN R.got : R.got[k] \in Bodies) /\ End(r, "ok")
         \/ End(r, "error")
  BY DEF Return, Idle, Live, Got
<1>2. R \in Call /\ Truth(R, versions, deleted, files, taken, rows, posted)
  BY DEF FetchInv, ReadersType, ReadersTrue
<1>5. UNCHANGED <<catalog, cached, slot>> /\ reader[r].at # "idle"
  BY <1>1 DEF store
<1>6. ASSUME NEW st \in {"ok", "error"}, End(r, st)
      PROVE  /\ EndsAs(r, st, R.wrong) /\ R.wrong \in SUBSET Parts
             /\ \A c \in Contents : R.rec.sha # None /\ versions[R.file] = {c} => R.wrong = {}
  BY <1>5, <1>6, EndIs
<1>3. CASE End(r, "error")
  <2>1. /\ EndsAs(r, "error", R.wrong) /\ R.wrong \in SUBSET Parts
        /\ \A c \in Contents : R.rec.sha # None /\ versions[R.file] = {c} => R.wrong = {}
    BY <1>3, <1>6
  <2>2. Right(R, "error", R.wrong)
    BY <1>1, <2>1 DEF Right
  <2> QED
    BY <1>1, <1>5, <2>1, <2>2, EndsTrue
<1>4. CASE (\A k \in DOMAIN R.got : R.got[k] \in Bodies) /\ End(r, "ok")
  <2>1. ASSUME NEW c \in Contents, R.rec.sha # None, versions[R.file] = {c}, ~R.doubt
        PROVE  Whole(R.got) = R.rec.sha
    <3>0. Settles(R, c)
      BY <1>1, <1>2, <2>1 DEF Truth
    <3>1. /\ DOMAIN R.got = {k \in Parts : k < Len(c)} /\ R.rec.sha = c
      BY <1>1, <1>2, <2>1, <3>0 DEF Truth, Settles
    <3>2. \A k \in DOMAIN R.got : R.got[k] = c[k + 1]
      <4> SUFFICES ASSUME NEW k \in DOMAIN R.got PROVE R.got[k] = c[k + 1]
        OBVIOUS
      <4>1. k \in Nat
        BY <3>1, PartsType
      <4>2. R.got[k] \in Variants({c}, k)
        BY <1>1, <1>2, <1>4, <2>1 DEF Truth
      <4> QED
        BY <4>1, <4>2, VariantsOnce
    <3> QED
      BY <3>1, <3>2, WholeIs
  <2>2. /\ EndsAs(r, "ok", R.wrong) /\ R.wrong \in SUBSET Parts
        /\ \A c \in Contents : R.rec.sha # None /\ versions[R.file] = {c} => R.wrong = {}
    BY <1>4, <1>6
  <2>3. \A c \in Contents : R.rec.sha # None /\ versions[R.file] = {c} =>
          Whole(R.got) = R.rec.sha \/ R.doubt
    BY <2>1
  <2>4. Right(R, "ok", R.wrong)
    BY <1>1, <2>2, <2>3 DEF Right
  <2> QED
    BY <1>1, <1>5, <2>2, <2>4, EndsTrue
<1> QED
  BY <1>1, <1>3, <1>4

-----------------------------------------------------------------------------
(***************************************************************************)
(* ChunkFetch: the theorems.                                               *)
(***************************************************************************)
\* The catalogs to start from are true, and nobody reads yet.
LEMMA InitTrue == Init => FetchInv
<1> SUFFICES ASSUME Init PROVE FetchInv
  OBVIOUS
<1>1. PICK s \in Seeds :
       /\ files = [f \in DOMAIN s.content |-> [size |-> Len(s.content[f]), sha |-> s.content[f]]]
       /\ rows = s.rows /\ posted = s.posted /\ discord = DOMAIN s.posted
       /\ taken = DOMAIN s.rows \cup DOMAIN s.posted
       /\ versions = [f \in Files |-> IF f \in DOMAIN s.content THEN {s.content[f]} ELSE {}]
  BY DEF Init
<1>2. /\ sweep = {} /\ up = NoUpload /\ deleted = {} /\ cache = <<>> /\ order = <<>>
      /\ reader = [r \in Readers |-> Waiting]
      /\ slot = [r \in Readers |-> [k \in Parts |-> Off]]
  BY DEF Init
<1>3. /\ DOMAIN s.content \subseteq Files /\ DOMAIN s.rows \subseteq Ids /\ DOMAIN s.posted \subseteq Ids
      /\ \A f \in DOMAIN s.content : s.content[f] \in Contents
      /\ \A m \in DOMAIN s.posted : s.posted[m] \in [file : Files, part : Parts, body : Bodies]
      /\ \A f \in DOMAIN s.content : \A k \in Parts : k < Len(s.content[f]) =>
           \E i \in DOMAIN s.rows : s.rows[i].file = f /\ s.rows[i].part = k
  BY <1>1, SeedsAssumption
<1>4. \A i \in DOMAIN s.rows :
         /\ s.rows[i] \in [file : DOMAIN s.content, part : Parts, msg : DOMAIN s.posted]
         /\ s.rows[i].part < Len(s.content[s.rows[i].file])
         /\ s.posted[s.rows[i].msg].body = s.content[s.rows[i].file][s.rows[i].part + 1]
  BY <1>1, SeedsAssumption
<1>5. \A f \in DOMAIN s.content : Len(s.content[f]) \in Nat
  BY <1>3, ContentType
<1>6. /\ DOMAIN files = DOMAIN s.content
      /\ \A f \in DOMAIN files : /\ files[f].size = Len(s.content[f]) /\ files[f].sha = s.content[f]
                                 /\ files[f] \in FileRow /\ versions[f] = {s.content[f]}
  BY <1>1, <1>3, <1>5 DEF FileRow
<1>7. versions \in [Files -> SUBSET Contents] /\ Finite
  <2>1. \A f \in Files : (IF f \in DOMAIN s.content THEN {s.content[f]} ELSE {}) \in SUBSET Contents
    BY <1>3
  <2>2. \A f \in Files : IsFiniteSet(IF f \in DOMAIN s.content THEN {s.content[f]} ELSE {})
    BY FS_EmptySet, FS_Singleton
  <2> QED
    BY <1>1, <2>1, <2>2 DEF Finite
<1>8. CatalogShape
  <2>1. \A i \in DOMAIN rows : rows[i] \in CopyRow /\ rows[i].msg \in DOMAIN posted
    BY <1>1, <1>3, <1>4 DEF CopyRow
  <2>2. \A m \in DOMAIN posted : posted[m] \in Message
    BY <1>1, <1>3 DEF Message
  <2> QED
    BY <1>1, <1>2, <1>3, <1>6, <1>7, <2>1, <2>2 DEF CatalogShape
<1>9. CatalogTrue
  <2>1. ASSUME NEW i \in DOMAIN rows
        PROVE  posted[rows[i].msg].body \in Variants(versions[rows[i].file], rows[i].part)
    <3>1. /\ rows[i].file \in DOMAIN s.content /\ rows[i].part \in Nat
          /\ rows[i].part < Len(s.content[rows[i].file])
          /\ posted[rows[i].msg].body = s.content[rows[i].file][rows[i].part + 1]
      BY <1>1, <1>4, PartsType
    <3>2. posted[rows[i].msg].body \in Variants({s.content[rows[i].file]}, rows[i].part)
      BY <1>3, <3>1, VariantsOnce
    <3> QED
      BY <1>6, <3>1, <3>2
  <2>2. ASSUME NEW f \in DOMAIN files
        PROVE  FileTrue(f)
    <3>1. \A k \in Parts : k < Len(s.content[f]) => HasPart(rows, f, k)
      BY <1>1, <1>3, <1>6 DEF HasPart
    <3>2. versions[f] = {s.content[f]}
      BY <1>6
    <3>3. Complete(rows, f)
      BY <3>1, <3>2 DEF Complete
    <3> QED
      BY <1>6, <3>2, <3>3 DEF FileTrue
  <2> QED
    BY <1>2, <2>1, <2>2 DEF CatalogTrue
<1>10. ReadersType
  <2>1. Waiting \in Call
    BY EmptyType DEF Waiting, Call, FileRow
  <2> QED
    BY <1>2, <2>1, OffType DEF ReadersType
<1>11. ReadersTrue
  <2>1. \A R, vs, ds, fs, tk, rs, ps : R = Waiting => Truth(R, vs, ds, fs, tk, rs, ps)
    <3>1. /\ Waiting.at = "idle" /\ Waiting.got = <<>> /\ DOMAIN <<>> = {}
          /\ Waiting.rec.sha = None
      BY DEF Waiting
    <3> QED
      BY <3>1 DEF Truth
  <2>2. \A r \in Readers : reader[r] = Waiting
    BY <1>2
  <2>3. \A r \in Readers, k \in Parts : slot[r][k] = Off
    BY <1>2
  <2> QED
    BY <2>1, <2>2, <2>3, OffType DEF ReadersTrue
<1>12. CacheTrue
  <2>1. <<>> \in Seq(Files \X Parts) /\ Len(<<>>) = 0 /\ DOMAIN <<>> = {}
    OBVIOUS
  <2>2. ToSet(<<>>) = {} /\ IsInjective(<<>>)
    BY <2>1 DEF ToSet, IsInjective
  <2>3. MaxCache \in Nat
    BY FetchAssumption
  <2> QED
    BY <1>2, <2>1, <2>2, <2>3 DEF CacheTrue
<1> QED
  BY <1>7, <1>8, <1>9, <1>10, <1>11, <1>12 DEF FetchInv

\* A part that was to be had is fetched or given up by Lookup, Put and Others alone,
\* and given up by Others when no copy is held.
LEMMA FetchFalls ==
  ASSUME FetchInv, NEW q \in Readers, NEW j \in Parts, Fetch(q, j),
         NEW r \in Readers, NEW k \in DOMAIN reader[r].got, reader[r].got[k] = "none",
         reader'[r].got[k] = "failed"
  PROVE  slot[r][k].held = {}
<1>1. reader \in [Readers -> Call]
  BY DEF FetchInv, ReadersType
<1>2. ASSUME NEW b, Deliver(q, j, b)
      PROVE  r = q /\ k = j /\ b = "failed"
  BY <1>1, <1>2 DEF Deliver, Call, Gots
<1>3. ASSUME NEW f \in Files, NEW b \in Variants(versions[f], j)
      PROVE  b # "failed"
  <2>1. versions[f] \in SUBSET Contents /\ j \in Nat
    BY PartsType DEF FetchInv, CatalogShape
  <2>2. b \in Bodies
    BY <2>1, VariantsType
  <2> QED
    BY <2>2, FetchAssumption
<1>4. CASE Lookup(q, j)
  <2> DEFINE key == CacheKey(reader[q].file, j)
  <2>1. reader' = reader \/ (key \in DOMAIN cache /\ Deliver(q, j, cache[key]))
    BY <1>4 DEF Lookup
  <2>2. key \in DOMAIN cache => reader[q].file \in Files /\ cache[key] \in Variants(versions[reader[q].file], j)
    BY DEF FetchInv, CacheTrue, CacheKey
  <2> HIDE DEF key
  <2> QED
    BY <1>2, <1>3, <2>1, <2>2
<1>5. CASE Put(q, j)
  <2>1. slot[q][j].at = "put" /\ Deliver(q, j, slot[q][j].data)
    BY <1>5 DEF Put, Live
  <2>2. /\ reader[q].file \in Files
        /\ Tries(slot[q][j], reader[q], j, versions, rows, posted, discord)
    BY <2>1, UnderWay
  <2>3. slot[q][j].data \in Variants(versions[reader[q].file], j)
    BY <2>1, <2>2 DEF Tries
  <2> QED
    BY <1>2, <1>3, <2>1, <2>2, <2>3
<1>6. CASE Others(q, j)
  <2>1. reader' = reader \/ slot[q][j].held = {}
    BY <1>6, OthersStep
  <2>2. reader' = reader \/ Fail(q, j)
    BY <1>6 DEF Others
  <2>3. ASSUME Fail(q, j)
        PROVE  r = q /\ k = j
    BY <1>1, <2>3 DEF Fail, Call, Gots
  <2> QED
    BY <2>1, <2>2, <2>3
<1>7. CASE Stored(q, j) \/ Fresh(q, j) \/ Open(q, j)
  BY <1>7 DEF Stored, Fresh, Open
<1> QED
  BY <1>4, <1>5, <1>6, <1>7 DEF Fetch

\* Every step keeps what is known, and gives a part up only when no copy is held.
LEMMA NextStep ==
  ASSUME FetchInv, Next
  PROVE  /\ FetchInv'
         /\ \A r \in Readers : \A k \in DOMAIN reader[r].got :
              reader[r].got[k] = "none" /\ reader'[r].at = "run" /\ reader'[r].got[k] = "failed" =>
                slot[r][k].held = {}
<1> DEFINE Falls == \A r \in Readers : \A k \in DOMAIN reader[r].got :
              reader[r].got[k] = "none" /\ reader'[r].at = "run" /\ reader'[r].got[k] = "failed" =>
                slot[r][k].held = {}
<1>1. CASE Change
  BY <1>1, ChangeKeeps
<1>2. ASSUME NEW r \in Readers, NEW a \in Asks[r], Start(r, a[1], a[2])
      PROVE  FetchInv' /\ Falls
  BY <1>2, StartStep
<1>3. ASSUME NEW r \in Readers, Cancel(r)
      PROVE  FetchInv' /\ Falls
  BY <1>3, CancelStep
<1>4. ASSUME NEW r \in Readers, ReadRows(r)
      PROVE  FetchInv' /\ Falls
  BY <1>4, ReadRowsStep
<1>5. ASSUME NEW r \in Readers, Verdict(r)
      PROVE  FetchInv' /\ Falls
  BY <1>5, VerdictStep
<1>6. ASSUME NEW r \in Readers, Return(r)
      PROVE  FetchInv' /\ Falls
  BY <1>6, ReturnStep
<1>7. ASSUME NEW r \in Readers, NEW k \in Parts, Fetch(r, k)
      PROVE  FetchInv' /\ Falls
  BY <1>7, FetchStep, FetchFalls
<1> QED
  BY <1>1, <1>2, <1>3, <1>4, <1>5, <1>6, <1>7 DEF Next, Read

\* It holds in every state.
LEMMA FetchAlways == Spec => []FetchInv
<1>1. Init => FetchInv
  BY InitTrue
<1>2. FetchInv /\ [Next]_vars => FetchInv'
  <2> SUFFICES ASSUME FetchInv, [Next]_vars PROVE FetchInv'
    OBVIOUS
  <2>1. CASE Next
    BY <2>1, NextStep
  <2>2. CASE UNCHANGED vars
    BY <2>2 DEF vars, store, catalog, cached, FetchInv, CatalogShape, CatalogTrue, Finite, ReadersType,
                FileTrue, UploadTrue, Complete, ReadersTrue, CacheTrue
  <2> QED
    BY <2>1, <2>2
<1> QED
  BY <1>1, <1>2, PTL DEF Spec

\* The types of the tables, of the readers and of their fetches, and the cache that
\* names the same keys as its line.
THEOREM FetchTypes == Spec => []TypeOK
<1>1. FetchInv => TypeOK
  <2> SUFFICES ASSUME FetchInv PROVE TypeOK
    OBVIOUS
  <2>1. \A f \in DOMAIN files : f \in Files /\ files[f].sha \in Contents \cup {None}
    BY DEF FetchInv, CatalogShape, FileRow
  <2>2. ASSUME NEW r \in Readers
        PROVE  /\ reader[r].at \in {"idle", "rows", "run", "ok", "bad", "error"}
               /\ \A k \in Parts : slot[r][k].at \in {"off", "stored", "fresh", "open", "next", "put"}
    <3>1. reader[r] \in Call /\ \A k \in Parts : slot[r][k] \in Try
      BY DEF FetchInv, ReadersType
    <3> QED
      BY <3>1 DEF Call, Try
  <2> QED
    BY <2>1, <2>2 DEF FetchInv, CatalogShape, CacheTrue, TypeOK
<1> QED
  BY <1>1, FetchAlways, PTL

\* Whatever a fetch delivers, or keeps for later, was uploaded as that very part of
\* that very file, wherever the message it came from was posted for.
THEOREM OwnBytesOnly == Spec => []FetchHonest
<1>1. FetchInv => FetchHonest
  <2> SUFFICES ASSUME FetchInv PROVE FetchHonest
    OBVIOUS
  <2>1. ASSUME NEW r \in Readers, NEW k \in DOMAIN reader[r].got, reader[r].got[k] \notin {"none", "failed"}
        PROVE  reader[r].got[k] \in Variants(versions[reader[r].file], k)
    <3>1. reader[r] \in Call /\ Truth(reader[r], versions, deleted, files, taken, rows, posted)
      BY DEF FetchInv, ReadersType, ReadersTrue
    <3>2. reader[r].got[k] \in Bodies
      BY <2>1, <3>1 DEF Call, Gots
    <3>3. reader[r].at # "idle"
      BY <2>1, <3>1 DEF Truth
    <3> QED
      BY <3>1, <3>2, <3>3 DEF Truth
  <2> QED
    BY <2>1 DEF FetchInv, CacheTrue, FetchHonest, Got
<1> QED
  BY <1>1, FetchAlways, PTL

\* A fetch gives a part up only if of each copy that was readable from beginning to
\* end Discord refused the download, or the database did not name it when asked for
\* the copies, or not the upload its message was sealed for.
THEOREM NoEarlyFailure == Spec => FallsBack
<1>1. FetchInv /\ [Next]_vars =>
        [\A r \in Readers : \A k \in DOMAIN Got(r) :
           Got(r)[k] = "none" /\ reader'[r].at = "run" /\ Got(r)'[k] = "failed" =>
             slot[r][k].held = {}]_vars
  BY NextStep DEF Got
<1> QED
  BY <1>1, FetchAlways, PTL DEF Spec, FallsBack

\* What a reader of a file is told is true: of a file uploaded once VerifyFile finds no
\* part that differs from its checksum, and calls it broken only if a part of it was
\* lost, and GetFileBytes returns all of it; unless the list of rows was cut short, or
\* read when the file had been deleted.
THEOREM VerdictsTrue == Spec => []AnswersTrue
<1>1. FetchInv => AnswersTrue
  <2> DEFINE Honest(r) ==
        /\ reader[r].kind = "verify" =>
             /\ reader[r].wrong = {}
             /\ reader[r].at = "bad" => reader[r].lost # {} \/ reader[r].doubt
             /\ reader[r].at = "error" => reader[r].cancelled \/ reader[r].doubt
        /\ reader[r].kind = "bytes" /\ reader[r].at = "ok" /\ ~reader[r].doubt =>
             Joined(r) = reader[r].rec.sha
  <2> SUFFICES ASSUME FetchInv, NEW r \in Readers, Settled(r)
               PROVE  Honest(r)
    BY DEF AnswersTrue, NoFalseAlarm, WholeOrError
  <2>1. reader[r] \in Call /\ Truth(reader[r], versions, deleted, files, taken, rows, posted)
    BY DEF FetchInv, ReadersType, ReadersTrue
  <2>2. reader[r].at # "idle" /\ reader[r].file \in Files
    BY <2>1 DEF Truth, Settled
  <2>3. PICK c : versions[reader[r].file] = {c}
    <3>1. IsFiniteSet(versions[reader[r].file])
      BY <2>2 DEF FetchInv, Finite
    <3>2. Cardinality(versions[reader[r].file]) = 1
      BY DEF Settled
    <3> QED
      BY <3>1, <3>2, FS_Singleton
  <2>4. c \in Contents
    BY <2>2, <2>3 DEF FetchInv, CatalogShape
  <2>5. Settles(reader[r], c)
    BY <2>1, <2>2, <2>3, <2>4 DEF Truth, Settled
  <2> QED
    BY <2>5, JoinedIs DEF Settles
<1> QED
  BY <1>1, FetchAlways, PTL

-----------------------------------------------------------------------------
(***************************************************************************)
(* Stream: the parts of a request.                                         *)
(***************************************************************************)

\* Needed parts are numbers, and finitely many.
LEMMA NeededType ==
  ASSUME request \in Requests
  PROVE  /\ Needed \subseteq Nat /\ Direct \subseteq Needed /\ Piped \subseteq Needed
         /\ IsFiniteSet(Needed) /\ IsFiniteSet(Piped)
         /\ Cardinality(Needed) \in Nat /\ Cardinality(Piped) \in Nat
<1>1. request.rows \subseteq Nat /\ IsFiniteSet(request.rows)
  BY RequestAssumption
<1>2. Needed \subseteq request.rows
  BY DEF Needed, Listed
<1>3. Direct \subseteq Needed /\ Piped \subseteq Needed
  BY DEF Direct, Piped
<1>4. IsFiniteSet(Needed)
  BY <1>1, <1>2, FS_Subset
<1>5. IsFiniteSet(Piped)
  BY <1>3, <1>4, FS_Subset
<1> QED
  BY <1>1, <1>2, <1>3, <1>4, <1>5, FS_CardinalityType

\* The awaited numbers of a whole file are those below the number of its parts.
LEMMA AwaitedType ==
  ASSUME request \in Requests
  PROVE  /\ Awaited \subseteq Nat
         /\ request.whole => \A i \in Nat : i \in Awaited <=> i < Cardinality(Piped)
         /\ ~request.whole => Awaited = Piped
<1>1. Cardinality(Piped) \in Nat /\ Piped \subseteq Nat
  BY NeededType
<1>2. CASE request.whole
  <2>1. Awaited = {i \in 0 .. Cardinality(Piped) : i < Cardinality(Piped)}
    BY <1>2 DEF Awaited
  <2> QED
    BY <1>1, <1>2, <2>1
<1>3. CASE ~request.whole
  <2>1. Awaited = Piped
    BY <1>3 DEF Awaited
  <2> QED
    BY <1>1, <1>3, <2>1
<1> QED
  BY <1>2, <1>3

\* When the caller fetches the only part of a whole file, no part is left.
LEMMA DirectIsAll ==
  ASSUME request \in Requests, request.whole, Direct # {}
  PROVE  Piped = {} /\ Awaited = {}
<1>1. Cardinality(Needed) = 1
  BY DEF Direct
<1>2. PICK x : Needed = {x}
  BY <1>1, NeededType, FS_Singleton
<1>3. Direct = {x}
  BY <1>2 DEF Direct
<1>4. Piped = {}
  BY <1>2, <1>3 DEF Piped
<1>5. Cardinality(Piped) = 0
  BY <1>4, FS_EmptySet
<1>6. Awaited = {}
  BY <1>5, AwaitedType
<1> QED
  BY <1>4, <1>6

\* The part that the caller fetches comes before all the others.
LEMMA DirectIsFirst ==
  ASSUME request \in Requests, NEW q \in Direct, NEW p \in Awaited
  PROVE  q < p
<1>1. ~request.whole
  BY DirectIsAll
<1>2. q \in Needed /\ First(q, Needed) /\ q \in Nat
  BY NeededType DEF Direct
<1>3. p \in Needed /\ p \in Nat /\ p \notin Direct
  BY <1>1, AwaitedType, NeededType DEF Piped
<1>4. p # q /\ q <= p
  BY <1>2, <1>3 DEF First
<1> QED
  BY <1>2, <1>3, <1>4

\* The writer skips no part: what comes before an awaited part is awaited too.
LEMMA NothingSkipped ==
  ASSUME request \in Requests, NEW q \in Piped, NEW p \in Awaited, q < p
  PROVE  q \in Awaited
<1>1. q \in Nat /\ p \in Nat /\ Cardinality(Piped) \in Nat
  BY NeededType, AwaitedType
<1>2. CASE request.whole
  BY <1>1, <1>2, AwaitedType
<1>3. CASE ~request.whole
  BY <1>3, AwaitedType
<1> QED
  BY <1>2, <1>3

\* When everything awaited is sent, so is everything needed.
LEMMA AwaitedIsEnough ==
  ASSUME request \in Requests, Direct \subseteq sent, Awaited \subseteq sent, sent \subseteq Needed
  PROVE  sent = Needed
<1> SUFFICES ASSUME NEW q \in Needed PROVE q \in sent
  OBVIOUS
<1>1. CASE q \in Direct
  BY <1>1
<1>2. CASE q \notin Direct /\ ~request.whole
  BY <1>2, AwaitedType DEF Piped
<1>3. CASE q \notin Direct /\ request.whole
  <2>1. q \in Piped
    BY <1>3 DEF Piped
  <2>2. Direct = {}
    BY <1>3, <2>1, DirectIsAll
  <2>3. Piped = Needed
    BY <2>2 DEF Piped
  <2> DEFINE n == Cardinality(Needed)
  <2>4. n \in Nat /\ IsFiniteSet(Needed) /\ n > 0
    BY NeededType, FS_EmptySet
  <2>5. Awaited = 0 .. n - 1
    <3>1. Awaited \subseteq Nat /\ \A i \in Nat : i \in Awaited <=> i < n
      BY <1>3, <2>3, AwaitedType
    <3>2. \A i : i \in 0 .. n - 1 <=> i \in Nat /\ i < n
      BY <2>4
    <3> HIDE DEF n
    <3> QED
      BY <3>1, <3>2
  <2>6. Cardinality(0 .. n - 1) = n
    BY <2>4, FS_Interval
  <2>7. 0 .. n - 1 \subseteq Needed
    BY <2>5
  <2>8. Needed = 0 .. n - 1
    BY <2>4, <2>6, <2>7, FS_Subset
  <2> QED
    BY <2>5, <2>8
<1> QED
  BY <1>1, <1>2, <1>3

\* The request is fixed, and so are its parts.
LEMMA RequestFixed ==
  ASSUME [StreamNext]_streamVars
  PROVE  /\ request' = request
         /\ Needed' = Needed /\ Direct' = Direct /\ Piped' = Piped /\ Awaited' = Awaited
<1>1. request' = request
  BY DEF StreamNext, streamVars, Caller, Worker, Refuse, Begin, SendDirect, EndEarly,
         Launch, Take, Exit, Arrives, FetchFails, Watch, Check, Write, Drain, Disconnect, caller
<1> QED
  BY <1>1 DEF Needed, Listed, Direct, Piped, Awaited

-----------------------------------------------------------------------------
(***************************************************************************)
(* Stream: types.                                                          *)
(***************************************************************************)

\* A goroutine fetches a part of its request.
Fetching == \A w \in Workers : worker[w].at = "fetch" => worker[w].part \in Piped

\* Every step keeps the types.
LEMMA TypeStep ==
  ASSUME StreamTypeOK, Fetching, [StreamNext]_streamVars
  PROVE  StreamTypeOK' /\ Fetching'
<1>0. /\ request \in Requests /\ request' = request
      /\ Needed' = Needed /\ Direct' = Direct /\ Piped' = Piped
      /\ Needed \subseteq Nat /\ Direct \subseteq Needed /\ Piped \subseteq Needed
  BY RequestFixed, NeededType DEF StreamTypeOK
<1> USE DEF StreamTypeOK, Fetching, CallerStages, shared, caller
<1>1. CASE Refuse
  BY <1>0, <1>1 DEF Refuse, Returns
<1>2. CASE Begin
  BY <1>0, <1>2 DEF Begin
<1>3. CASE SendDirect
  BY <1>0, <1>3 DEF SendDirect, Returns
<1>4. CASE EndEarly
  BY <1>0, <1>4 DEF EndEarly, Returns
<1>5. CASE Launch
  <2>1. \A w \in Workers : worker'[w] \in WorkerState /\ worker'[w].at # "fetch"
    BY <1>5 DEF Launch, WorkerState
  <2>2. worker' \in [Workers -> WorkerState]
    BY <1>5, <2>1 DEF Launch
  <2> QED
    BY <1>0, <1>5, <2>1, <2>2 DEF Launch
<1>6. ASSUME NEW w \in Workers, Take(w) PROVE StreamTypeOK' /\ Fetching'
  <2>1. PICK p \in queue : /\ queue' = queue \ {p}
                           /\ worker' = [worker EXCEPT ![w] = [at |-> "fetch", part |-> p]]
    BY <1>6 DEF Take
  <2>2. p \in Piped /\ p \in Nat
    BY <1>0, <2>1
  <2>3. worker' \in [Workers -> WorkerState]
    BY <2>1, <2>2 DEF WorkerState
  <2> QED
    BY <1>0, <1>6, <2>1, <2>2, <2>3 DEF Take
<1>7. ASSUME NEW w \in Workers, Exit(w) PROVE StreamTypeOK' /\ Fetching'
  BY <1>0, <1>7 DEF Exit, WorkerState
<1>8. ASSUME NEW w \in Workers, Arrives(w) PROVE StreamTypeOK' /\ Fetching'
  BY <1>0, <1>8 DEF Arrives, WorkerState, Broadcast
<1>9. ASSUME NEW w \in Workers, FetchFails(w) PROVE StreamTypeOK' /\ Fetching'
  BY <1>0, <1>9 DEF FetchFails, WorkerState, Broadcast
<1>10. CASE Watch
  BY <1>0, <1>10 DEF Watch, Broadcast
<1>11. CASE Check
  BY <1>0, <1>11 DEF Check, Returns
<1>12. CASE Write
  BY <1>0, <1>12 DEF Write, Returns
<1>13. CASE Drain
  BY <1>0, <1>13 DEF Drain, Returns
<1>14. CASE Disconnect
  BY <1>0, <1>14 DEF Disconnect
<1>15. CASE UNCHANGED streamVars
  BY <1>0, <1>15 DEF streamVars
<1> QED
  BY <1>1, <1>2, <1>3, <1>4, <1>5, <1>6, <1>7, <1>8, <1>9, <1>10, <1>11, <1>12, <1>13,
     <1>14, <1>15 DEF StreamNext, Caller, Worker

\* No step has been made, and the types are right.
LEMMA TypeInit ==
  ASSUME StreamInit
  PROVE  StreamTypeOK /\ Fetching
<1>1. worker \in [Workers -> WorkerState] /\ \A w \in Workers : worker[w].at = "off"
  <2>1. [at |-> "off", part |-> 0] \in WorkerState
    BY DEF WorkerState
  <2> QED
    BY <2>1 DEF StreamInit
<1> QED
  BY <1>1 DEF StreamInit, StreamTypeOK, Fetching, CallerStages

\* Parts in the channel, in the map and on the wire belong to the request.
THEOREM StreamTypeCorrect == StreamSpec => []StreamTypeOK
<1>1. StreamInit => StreamTypeOK /\ Fetching
  BY TypeInit
<1>2. StreamTypeOK /\ Fetching /\ [StreamNext]_streamVars => StreamTypeOK' /\ Fetching'
  BY TypeStep
<1> QED
  BY <1>1, <1>2, PTL DEF StreamSpec

-----------------------------------------------------------------------------
(***************************************************************************)
(* Stream: order and completeness.                                         *)
(***************************************************************************)
Running == {"check", "wait", "write", "drain"}

\* What was sent comes before what is due; the part fetched by the caller goes
\* first; the writer drains only when nothing is due.
Ordered ==
  /\ pc \in {"start", "direct"} => sent = {}
  /\ pc \in Running \cup {"rest"} => Direct \subseteq sent
  /\ \A q \in sent, p \in Due : q < p
  /\ pc = "drain" => Due = {}
  /\ result = "none" <=> pc # "returned"

\* Every step keeps the order.
LEMMA OrderStep ==
  ASSUME StreamTypeOK, Ordered, [StreamNext]_streamVars
  PROVE  Ordered'
<1>0. /\ request \in Requests /\ Direct' = Direct /\ Awaited' = Awaited
      /\ Awaited \subseteq Nat
  BY RequestFixed, AwaitedType DEF StreamTypeOK
<1>1. CASE UNCHANGED <<pc, sent, result>>
  BY <1>0, <1>1 DEF Ordered, Due
<1>2. CASE SendDirect
  <2>1. \A q \in Direct, p \in Awaited : q < p
    BY <1>0, DirectIsFirst
  <2> QED
    BY <1>0, <1>2, <2>1 DEF SendDirect, Returns, Ordered, Due, Running
<1>3. CASE Write
  <2>1. CASE \E p \in res : Ready(p) /\ sent' = sent \cup {p} /\ pc' = "check" /\ UNCHANGED result
    <3>1. PICK p \in res : Ready(p) /\ sent' = sent \cup {p}
      BY <2>1
    <3>2. pc = "write" /\ pc' = "check" /\ UNCHANGED result
      BY <1>3, <2>1 DEF Write
    <3>3. p \in Due /\ p \in Nat /\ \A x \in Due : p <= x
      BY <1>0, <3>1 DEF Ready, First, Due
    <3>4. Due' = Due \ {p}
      BY <1>0, <3>1 DEF Due
    <3>5. \A q \in sent', x \in Due' : q < x
      BY <1>0, <3>1, <3>3, <3>4 DEF Ordered, Due
    <3> QED
      BY <1>0, <3>1, <3>2, <3>5 DEF Ordered, Running
  <2>2. CASE pc' = "returned" /\ result' = "error" /\ UNCHANGED sent
    BY <1>0, <2>2 DEF Ordered, Due, Running
  <2> QED
    BY <1>3, <2>1, <2>2 DEF Write, Returns
<1>4. CASE UNCHANGED sent /\ (Refuse \/ Begin \/ EndEarly \/ Launch \/ Check \/ Drain)
  BY <1>0, <1>4 DEF Refuse, Begin, EndEarly, Launch, Check, Drain, Returns, Ordered,
         Due, Running
<1>5. CASE UNCHANGED <<sent, result>> /\ Broadcast
  BY <1>0, <1>5 DEF Broadcast, Ordered, Due, Running
<1> QED
  BY <1>1, <1>2, <1>3, <1>4, <1>5
  DEF StreamNext, Caller, Worker, streamVars, shared, caller, Refuse, Begin, EndEarly,
      Launch, Take, Exit, Arrives, FetchFails, Watch, Check, Drain, Disconnect

\* The client gets the parts in order, and the call returns nil only when all of
\* them are sent.
THEOREM StreamDelivers == StreamSpec => Delivers
<1> DEFINE PVars == <<Needed, sent, result>>
<1>1. StreamInit => StreamTypeOK /\ Fetching /\ Ordered
  BY TypeInit DEF StreamInit, Ordered, Running
<1>2. StreamTypeOK /\ Fetching /\ Ordered /\ [StreamNext]_streamVars =>
       StreamTypeOK' /\ Fetching' /\ Ordered'
  BY TypeStep, OrderStep
<1>3. StreamInit => Promise!Init
  BY NeededType DEF StreamInit, Promise!Init
<1>4. StreamTypeOK /\ Ordered /\ [StreamNext]_streamVars => [Promise!Next]_PVars
  <2> SUFFICES ASSUME StreamTypeOK, Ordered, [StreamNext]_streamVars
               PROVE  [Promise!Next]_PVars
    OBVIOUS
  <2>0. request \in Requests /\ Needed' = Needed
    BY RequestFixed DEF StreamTypeOK
  <2>1. CASE UNCHANGED <<sent, result>>
    BY <2>0, <2>1
  <2>2. CASE UNCHANGED sent /\ result = "none" /\ result' \in {"error", "cancelled"}
    BY <2>0, <2>2 DEF Promise!Next, Promise!Break
  <2>3. CASE SendDirect /\ sent' = Direct /\ UNCHANGED result
    <3>1. sent = {} /\ result = "none"
      BY <2>3 DEF SendDirect, Ordered
    <3>2. CASE Direct = {}
      BY <2>0, <2>3, <3>1, <3>2
    <3>3. CASE Direct # {}
      <4>1. PICK p \in Direct : TRUE
        BY <3>3
      <4>2. p \in Needed /\ p \in Nat /\ \A x \in Needed : p <= x /\ x \in Nat
        BY <2>0, <4>1, NeededType DEF Direct, First
      <4>3. Direct = {p}
        <5>1. \A x \in Direct : x \in Needed /\ \A y \in Needed : x <= y
          BY DEF Direct, First
        <5>2. \A x \in Direct : x = p
          BY <4>2, <5>1
        <5> QED
          BY <4>1, <5>2
      <4>4. Promise!Send(p)
        BY <2>0, <2>3, <3>1, <4>2, <4>3 DEF Promise!Send
      <4> QED
        BY <4>2, <4>4 DEF Promise!Next
    <3> QED
      BY <3>2, <3>3
  <2>4. ASSUME NEW p \in res, Write, Ready(p), sent' = sent \cup {p}, UNCHANGED result
        PROVE  Promise!Next
    <3>1. result = "none" /\ Direct \subseteq sent
      BY <2>4 DEF Write, Ordered, Running
    <3>2. p \in Due /\ p \in Awaited /\ p \notin sent /\ p \in Nat /\ \A x \in Due : p <= x
      BY <2>0, <2>4, AwaitedType DEF Ready, First, Due
    <3>3. p \in Needed /\ Needed \subseteq Nat
      BY <2>0, NeededType DEF StreamTypeOK
    <3>4. ASSUME NEW q \in Needed, q < p PROVE q \in sent
      <4>1. CASE q \in Direct
        BY <3>1, <4>1
      <4>2. CASE q \notin Direct
        <5>1. q \in Awaited
          BY <2>0, <3>2, <3>4, <4>2, NothingSkipped DEF Piped
        <5>2. q \notin Due
          BY <3>2, <3>3, <3>4
        <5> QED
          BY <5>1, <5>2 DEF Due
      <4> QED
        BY <4>1, <4>2
    <3>5. \A q \in sent : q < p
      BY <3>2 DEF Ordered
    <3>6. Promise!Send(p)
      BY <2>0, <2>4, <3>1, <3>2, <3>3, <3>4, <3>5 DEF Promise!Send
    <3> QED
      BY <3>3, <3>6 DEF Promise!Next
  <2>5. CASE (EndEarly \/ Drain) /\ UNCHANGED sent /\ result' = "ok"
    <3>1. result = "none" /\ Direct \subseteq sent /\ sent \subseteq Needed
      BY <2>5 DEF EndEarly, Drain, Ordered, Running, StreamTypeOK
    <3>2. sent = Needed
      <4>1. CASE EndEarly
        BY <3>1, <4>1 DEF EndEarly, NoRest, Piped
      <4>2. CASE Drain
        <5>1. Awaited \subseteq sent
          BY <4>2 DEF Drain, Ordered, Due
        <5> QED
          BY <2>0, <3>1, <5>1, AwaitedIsEnough
      <4> QED
        BY <2>5, <4>1, <4>2
    <3> QED
      BY <2>0, <2>5, <3>1, <3>2 DEF Promise!Next, Promise!Complete
  <2>6. CASE Write
    BY <2>2, <2>4, <2>6 DEF Write, Returns, Ordered
  <2>7. CASE SendDirect
    BY <2>2, <2>3, <2>7 DEF SendDirect, Returns, Ordered
  <2>8. CASE EndEarly \/ Drain
    BY <2>5, <2>8 DEF EndEarly, Drain, Returns
  <2>9. CASE Refuse \/ Check
    BY <2>1, <2>2, <2>9 DEF Refuse, Check, Returns, Ordered
  <2> QED
    BY <2>1, <2>6, <2>7, <2>8, <2>9
    DEF StreamNext, Caller, Worker, streamVars, shared, caller, Begin, Launch, Take, Exit,
        Arrives, FetchFails, Watch, Disconnect
<1>5. StreamSpec => Promise!Init /\ [][Promise!Next]_PVars
  BY <1>1, <1>2, <1>3, <1>4, PTL DEF StreamSpec
<1> QED
  BY <1>5 DEF Delivers, Promise!Spec

-----------------------------------------------------------------------------
(***************************************************************************)
(* Stream: no lost wake-up.                                                *)
(***************************************************************************)

\* Where every part of a running stream is, and who is there to bring it.
Awake ==
  pc \in Running =>
    /\ pc = "wait" => ~err /\ ~ \E p \in res : First(p, Due)
    /\ ~err =>
         /\ watcher = "on"
         /\ \A p \in Piped : \/ p \in sent \cup res \cup queue
                             \/ \E w \in Workers : worker[w].at = "fetch" /\ worker[w].part = p
         /\ queue # {} /\ ~gone => \E w \in Workers : worker[w].at \in {"select", "fetch"}

\* Every step keeps somebody awake.
LEMMA AwakeStep ==
  ASSUME StreamTypeOK, Awake, [StreamNext]_streamVars
  PROVE  Awake'
<1>0. /\ Piped' = Piped /\ Awaited' = Awaited
      /\ worker \in [Workers -> WorkerState] /\ err \in BOOLEAN /\ gone \in BOOLEAN
  BY RequestFixed DEF StreamTypeOK
<1> USE DEF Running, shared, caller
<1>1. CASE pc' \notin Running
  BY <1>1 DEF Awake
<1>2. CASE Launch
  <2>1. 1 \in Workers /\ worker'[1].at = "select"
    BY <1>2, RequestAssumption DEF Launch, Workers
  <2> QED
    BY <1>0, <1>2, <2>1 DEF Launch, Awake
<1>3. ASSUME NEW w \in Workers, Take(w) PROVE Awake'
  <2>1. PICK p \in queue : /\ queue' = queue \ {p}
                           /\ worker' = [worker EXCEPT ![w] = [at |-> "fetch", part |-> p]]
    BY <1>3 DEF Take
  <2>2. worker'[w].at = "fetch" /\ worker'[w].part = p /\ worker[w].at = "select"
    BY <1>0, <1>3, <2>1 DEF Take
  <2>3. \A x \in Workers \ {w} : worker'[x] = worker[x]
    BY <1>0, <2>1
  <2>4. UNCHANGED <<pc, res, err, watcher, sent, gone>>
    BY <1>3 DEF Take
  <2>5. Due' = Due
    BY <1>0, <2>4 DEF Due
  <2> QED
    BY <1>0, <2>1, <2>2, <2>3, <2>4, <2>5 DEF Awake, First
<1>4. ASSUME NEW w \in Workers, Exit(w) PROVE Awake'
  <2>1. /\ worker[w].at = "select" /\ (queue = {} \/ gone)
        /\ \A x \in Workers \ {w} : worker'[x] = worker[x]
        /\ UNCHANGED <<pc, queue, res, err, watcher, sent, gone>>
    BY <1>0, <1>4 DEF Exit
  <2>2. Due' = Due
    BY <1>0, <2>1 DEF Due
  <2> QED
    BY <1>0, <2>1, <2>2 DEF Awake, First
<1>5. ASSUME NEW w \in Workers, Arrives(w) PROVE Awake'
  <2>1. /\ worker[w].at = "fetch" /\ worker'[w].at = "select"
        /\ res' = res \cup {worker[w].part}
        /\ \A x \in Workers \ {w} : worker'[x] = worker[x]
        /\ UNCHANGED <<queue, err, watcher, sent, gone>>
        /\ pc' # "wait" /\ (pc' \in Running => pc \in Running)
    BY <1>0, <1>5 DEF Arrives, Broadcast, WorkerState
  <2> QED
    BY <1>0, <2>1 DEF Awake
<1>6. ASSUME NEW w \in Workers, FetchFails(w) PROVE Awake'
  BY <1>0, <1>6 DEF FetchFails, Broadcast, Awake
<1>7. CASE Watch
  BY <1>0, <1>7 DEF Watch, Broadcast, Awake
<1>8. CASE Check
  BY <1>0, <1>8 DEF Check, Returns, Awake, Ready, Due, First
<1>9. CASE Write
  BY <1>0, <1>9 DEF Write, Returns, Awake
<1>10. CASE Disconnect \/ UNCHANGED streamVars
  <2>1. UNCHANGED <<pc, queue, worker, res, err, watcher, sent>> /\ (gone' = gone \/ gone')
    BY <1>10 DEF Disconnect, streamVars
  <2> QED
    BY <1>0, <2>1 DEF Awake, Due, First
<1> QED
  BY <1>1, <1>2, <1>3, <1>4, <1>5, <1>6, <1>7, <1>8, <1>9, <1>10
  DEF StreamNext, Caller, Worker, Refuse, Begin, SendDirect, EndEarly, Drain, Returns

\* When the writer sleeps, what it waits for has not happened, and somebody who
\* will wake it is under way.
THEOREM StreamNoLostWakeup == StreamSpec => []NoLostWakeup
<1>1. StreamInit => StreamTypeOK /\ Fetching /\ Awake
  BY TypeInit DEF StreamInit, Awake, Running
<1>2. StreamTypeOK /\ Fetching /\ Awake /\ [StreamNext]_streamVars =>
       StreamTypeOK' /\ Fetching' /\ Awake'
  BY TypeStep, AwakeStep
<1>3. Awake => NoLostWakeup
  BY DEF Awake, NoLostWakeup, Running, First, Due
<1> QED
  BY <1>1, <1>2, <1>3, PTL DEF StreamSpec
=============================================================================
