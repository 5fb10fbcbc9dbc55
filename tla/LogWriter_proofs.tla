-------------------------- MODULE LogWriter_proofs --------------------------
(***************************************************************************)
(* What the log files hold, for any number of types, indices and bags.     *)
(* A file is followed from the bag that creates it to its renaming: the    *)
(* only hidden files are those of the current_files_ that are open, so a   *)
(* new file is empty even when another one had its name.                   *)
(***************************************************************************)
EXTENDS LogWriter, SequenceTheorems, TLAPS

(***************************************************************************)
(* The inductive invariant.                                                *)
(***************************************************************************)

\* The content s of the file n: the data of one index, in order.
InFile(s, n) ==
  /\ s \in Seq(Chunk)
  /\ \A i \in DOMAIN s : s[i].index = n.index
  /\ \A i, j \in DOMAIN s : i <= j => s[i].trans <= s[j].trans

\* No data of the content s is later than trans.
NotAfter(s, trans) == \A i \in DOMAIN s : s[i].trans <= trans

FilesInv ==
  /\ DOMAIN current = LogTypes
  /\ joined => writer = "exited"
  /\ \A n \in Name : InFile(hidden[n], n) /\ InFile(visible[n], n)
  /\ \A ty \in LogTypes : current[ty].open =>
       /\ current[ty].name.index = current[ty].index
       /\ NotAfter(hidden[current[ty].name], current[ty].trans)

Inv == TypeOK /\ HiddenIsOpen /\ FilesInv

-----------------------------------------------------------------------------
(***************************************************************************)
(* Files.                                                                  *)
(***************************************************************************)

\* What a file holds that is new, or gets another chunk that is not behind the last one.
LEMMA EmptyFile == \A n : InFile(NoFile, n) /\ \A t : NotAfter(NoFile, t)
BY DEF InFile, NotAfter, NoFile

LEMMA WrittenFile ==
  ASSUME NEW n \in Name, NEW s, InFile(s, n), NEW c \in Chunk, c.index = n.index,
         NotAfter(s, c.trans)
  PROVE  /\ InFile(Append(s, c), n)
         /\ NotAfter(Append(s, c), c.trans)
         /\ Append(s, c) # NoFile
<1>1. s \in Seq(Chunk)
  BY DEF InFile
<1>2. /\ Append(s, c) \in Seq(Chunk)
      /\ DOMAIN s = 1 .. Len(s)
      /\ DOMAIN Append(s, c) = 1 .. Len(s) + 1
      /\ Len(s) \in Nat
      /\ Append(s, c)[Len(s) + 1] = c
      /\ \A i \in 1 .. Len(s) : Append(s, c)[i] = s[i]
  BY <1>1, AppendProperties
<1>3. c.trans \in Nat
  BY LogWriterAssumption DEF Chunk, Trans
<1>4. NotAfter(Append(s, c), c.trans)
  BY <1>2, <1>3 DEF NotAfter
<1>5. InFile(Append(s, c), n)
  <2> SUFFICES ASSUME NEW i \in 1 .. Len(s) + 1, NEW j \in 1 .. Len(s) + 1, i <= j
               PROVE  /\ Append(s, c)[i].index = n.index
                      /\ Append(s, c)[i].trans <= Append(s, c)[j].trans
    BY <1>2 DEF InFile
  <2>1. CASE j = Len(s) + 1
    BY <1>2, <1>4, <2>1 DEF NotAfter, InFile
  <2>2. CASE j # Len(s) + 1
    BY <1>2, <2>2 DEF InFile
  <2> QED
    BY <2>1, <2>2
<1>6. Append(s, c) # NoFile
  BY <1>1 DEF NoFile
<1> QED
  BY <1>4, <1>5, <1>6

\* A file is a prefix of what it was, and of what it becomes with another chunk.
LEMMA PrefixFacts ==
  ASSUME NEW s \in Seq(Chunk), NEW c \in Chunk
  PROVE  IsPrefix(s, s) /\ IsPrefix(s, Append(s, c))
<1>1. Len(s) \in Nat /\ Append(s, c) \in Seq(Chunk) /\ Len(Append(s, c)) = Len(s) + 1
  BY AppendProperties
<1>2. SubSeq(Append(s, c), 1, Len(s)) = SubSeq(s, 1, Len(s))
  BY <1>1
<1> QED
  BY <1>1, <1>2 DEF IsPrefix

LEMMA ChunksHaveTrans ==
  ASSUME NEW s \in Seq(Chunk)
  PROVE  \A i \in DOMAIN s : s[i].trans \in Nat
<1>1. \A i \in DOMAIN s : s[i] \in Chunk
  OBVIOUS
<1> QED
  BY <1>1, LogWriterAssumption DEF Chunk, Trans

\* The parts of a bag.
LEMMA BagFacts ==
  ASSUME TypeOK, NEW b \in Bag
  PROVE  /\ b.type \in LogTypes /\ b.index \in Index /\ b.trans \in Trans /\ b.trans \in Nat
         /\ NameOf(b) \in Name /\ NameOf(b).type = b.type /\ NameOf(b).index = b.index
         /\ ChunkOf(b) \in Chunk /\ ChunkOf(b).index = b.index /\ ChunkOf(b).trans = b.trans
BY LogWriterAssumption DEF TypeOK, Bag, NameOf, ChunkOf, Name, Chunk, Trans

\* The current files.
LEMMA CurrentFacts ==
  ASSUME TypeOK, NEW ty \in LogTypes
  PROVE  /\ current[ty].name \in Name /\ current[ty].name.type = ty
         /\ current[ty].open \in BOOLEAN
         /\ current[ty].index \in Index /\ current[ty].trans \in Trans
         /\ current[ty].trans \in Nat
BY LogWriterAssumption DEF TypeOK, CurrentFile, Name, Trans

\* Two types have no file in common.
LEMMA NamesDiffer ==
  ASSUME TypeOK, NEW ty \in LogTypes, NEW tz \in LogTypes,
         current[ty].name = current[tz].name
  PROVE  ty = tz
BY CurrentFacts

\* The only hidden file of a type is the open one.
LEMMA HiddenOfType ==
  ASSUME TypeOK, HiddenIsOpen, ~joined, NEW n \in Name, hidden[n] # NoFile
  PROVE  n.type \in LogTypes /\ current[n.type].open /\ current[n.type].name = n
BY CurrentFacts DEF HiddenIsOpen

-----------------------------------------------------------------------------
(***************************************************************************)
(* One bag. Whatever its flag, the current file of its type is closed or   *)
(* not, and the one that is current then may get the chunk c.              *)
(***************************************************************************)
NothingLost(n) ==
  \/ hidden[n] # NoFile /\ visible[n] # NoFile
  \/ IsPrefix(hidden[n], hidden'[n]) /\ IsPrefix(visible[n], visible'[n])
  \/ hidden[n] = visible'[n] /\ visible[n] = NoFile

\* The current file old of the type ty gives way to new, closed or not.
Effect(ty, old, new, closes, c) ==
  /\ old = current[ty]
  /\ DOMAIN current' = LogTypes
  /\ \A tz \in LogTypes : current'[tz] = IF tz = ty THEN new ELSE current[tz]
  /\ DOMAIN hidden' = Name /\ DOMAIN visible' = Name
  /\ hidden' = [n \in Name |-> hidden'[n]] /\ visible' = [n \in Name |-> visible'[n]]
  /\ \A n \in Name :
       visible'[n] = IF closes /\ n = old.name THEN hidden[n] ELSE visible[n]
  /\ \A n \in Name :
       hidden'[n] = IF new.open /\ n = new.name
                      THEN Append(IF closes THEN NoFile ELSE hidden[n], c)
                      ELSE IF closes /\ n = old.name THEN NoFile ELSE hidden[n]
  /\ closes => old.open
  /\ old.open /\ ~closes =>
       new.open /\ new.name = old.name /\ NotAfter(hidden[new.name], c.trans)
  /\ new.open => c.trans = new.trans /\ c.index = new.index /\ new.name.index = new.index

LEMMA EffectIsGood ==
  ASSUME Inv, ~joined, ~joined', NEW ty \in LogTypes, NEW old, NEW new \in CurrentFile(ty),
         NEW closes \in BOOLEAN, NEW c \in Chunk, Effect(ty, old, new, closes, c)
  PROVE  /\ \A tz \in LogTypes : current'[tz] \in CurrentFile(tz)
         /\ hidden' \in [Name -> Seq(Chunk)] /\ visible' \in [Name -> Seq(Chunk)]
         /\ HiddenIsOpen' /\ FilesInv'
         /\ \A n \in Name : NothingLost(n)
<1>1. TypeOK /\ HiddenIsOpen /\ FilesInv
  BY DEF Inv
<1>2. /\ old.name \in Name /\ old.name.type = ty /\ old.open \in BOOLEAN
      /\ old = current[ty]
  BY <1>1, CurrentFacts DEF Effect
<1>3. new.name \in Name /\ new.name.type = ty /\ new.open \in BOOLEAN
  BY DEF CurrentFile, Name
<1>4. ASSUME NEW tz \in LogTypes
      PROVE  current'[tz] \in CurrentFile(tz) /\ (tz # ty => current'[tz] = current[tz])
  BY <1>1 DEF Effect, TypeOK
<1>5. ASSUME NEW n \in Name
      PROVE  /\ InFile(hidden[n], n) /\ hidden[n] \in Seq(Chunk)
             /\ InFile(visible[n], n) /\ visible[n] \in Seq(Chunk)
  BY <1>1 DEF FilesInv, InFile
\* The file that gets the chunk.
<1>6. ASSUME new.open
      PROVE  \E s : /\ hidden'[new.name] = Append(s, c)
                    /\ InFile(s, new.name) /\ NotAfter(s, c.trans)
                    /\ s = NoFile \/ s = hidden[new.name]
  <2>1. hidden'[new.name] = Append(IF closes THEN NoFile ELSE hidden[new.name], c)
    BY <1>3, <1>6 DEF Effect
  <2>2. CASE closes
    BY <2>1, <2>2, EmptyFile
  <2>3. CASE ~closes /\ old.open
    BY <2>1, <2>3, <1>3, <1>5 DEF Effect
  <2>4. CASE ~closes /\ ~old.open
    <3>1. hidden[new.name] = NoFile
      BY <2>4, <1>1, <1>2, <1>3, HiddenOfType
    <3> QED
      BY <2>1, <2>4, <3>1, EmptyFile
  <2> QED
    BY <2>2, <2>3, <2>4, <1>2
<1>7. ASSUME new.open
      PROVE  /\ InFile(hidden'[new.name], new.name) /\ hidden'[new.name] # NoFile
             /\ NotAfter(hidden'[new.name], new.trans)
  <2>1. PICK s : /\ hidden'[new.name] = Append(s, c)
                 /\ InFile(s, new.name) /\ NotAfter(s, c.trans)
    BY <1>6, <1>7
  <2>2. c.index = new.name.index /\ c.trans = new.trans
    BY <1>7 DEF Effect
  <2> QED
    BY <2>1, <2>2, <1>3, WrittenFile
<1>8. ASSUME NEW n \in Name, ~(new.open /\ n = new.name)
      PROVE  hidden'[n] = IF closes /\ n = old.name THEN NoFile ELSE hidden[n]
  BY <1>8 DEF Effect
<1>9. ASSUME NEW n \in Name
      PROVE  InFile(hidden'[n], n) /\ InFile(visible'[n], n)
  <2>1. InFile(hidden'[n], n)
    BY <1>5, <1>7, <1>8, EmptyFile
  <2>2. InFile(visible'[n], n)
    BY <1>5 DEF Effect
  <2> QED
    BY <2>1, <2>2
<1>10. hidden' \in [Name -> Seq(Chunk)] /\ visible' \in [Name -> Seq(Chunk)]
  <2>1. \A n \in Name : hidden'[n] \in Seq(Chunk) /\ visible'[n] \in Seq(Chunk)
    BY <1>9 DEF InFile
  <2> QED
    BY <2>1 DEF Effect
\* The open files of the other types.
<1>11. ASSUME NEW tz \in LogTypes, tz # ty, current[tz].open
       PROVE  /\ hidden'[current[tz].name] = hidden[current[tz].name]
              /\ current[tz].name # new.name /\ current[tz].name # old.name
  BY <1>11, <1>1, <1>2, <1>3, <1>8, CurrentFacts
<1>12. HiddenIsOpen'
  <2> SUFFICES ASSUME NEW n \in Name
               PROVE  hidden'[n] # NoFile <=>
                        \E tz \in LogTypes : current'[tz].open /\ current'[tz].name = n
    BY DEF HiddenIsOpen
  <2>1. CASE new.open /\ n = new.name
    BY <2>1, <1>7 DEF Effect
  <2>2. CASE ~(new.open /\ n = new.name) /\ closes /\ n = old.name
    <3>1. hidden'[n] = NoFile
      BY <2>2, <1>8
    <3>2. ASSUME NEW tz \in LogTypes, current'[tz].open, current'[tz].name = n PROVE FALSE
      BY <2>2, <3>2, <1>4, <1>11 DEF Effect
    <3> QED
      BY <3>1, <3>2
  <2>3. CASE ~(new.open /\ n = new.name) /\ ~(closes /\ n = old.name)
    <3>1. hidden'[n] = hidden[n]
      BY <2>3, <1>8
    <3>2. ASSUME NEW tz \in LogTypes, current[tz].open, current[tz].name = n PROVE tz # ty
      BY <2>3, <3>2 DEF Effect
    <3>3. ASSUME NEW tz \in LogTypes, current'[tz].open, current'[tz].name = n PROVE tz # ty
      BY <2>3, <3>3 DEF Effect
    <3>4. (\E tz \in LogTypes : current'[tz].open /\ current'[tz].name = n) <=>
            \E tz \in LogTypes : current[tz].open /\ current[tz].name = n
      BY <3>2, <3>3, <1>4
    <3> QED
      BY <3>1, <3>4, <1>1 DEF HiddenIsOpen
  <2> QED
    BY <2>1, <2>2, <2>3
<1>13. FilesInv'
  <2> SUFFICES ASSUME NEW tz \in LogTypes, current'[tz].open
               PROVE  /\ current'[tz].name.index = current'[tz].index
                      /\ NotAfter(hidden'[current'[tz].name], current'[tz].trans)
    BY <1>9 DEF FilesInv, Effect
  <2>1. CASE tz = ty
    BY <2>1, <1>7 DEF Effect
  <2>2. CASE tz # ty
    BY <2>2, <1>1, <1>4, <1>11 DEF FilesInv
  <2> QED
    BY <2>1, <2>2
<1>14. ASSUME NEW n \in Name PROVE NothingLost(n)
  <2>1. CASE closes /\ n = old.name
    <3>1. visible'[n] = hidden[n] /\ hidden[n] # NoFile
      BY <2>1, <1>1, <1>2 DEF Effect, HiddenIsOpen
    <3> QED
      BY <3>1 DEF NothingLost
  <2>2. CASE ~(closes /\ n = old.name)
    <3>1. visible'[n] = visible[n]
      BY <2>2 DEF Effect
    <3>2. hidden'[n] = hidden[n] \/ hidden'[n] = Append(hidden[n], c)
      <4>1. CASE new.open /\ n = new.name
        <5>1. hidden[n] = NoFile \/ ~closes
          BY <4>1, <2>2, <1>1, <1>2, <1>3, HiddenOfType
        <5> QED
          BY <4>1, <5>1 DEF Effect
      <4>2. CASE ~(new.open /\ n = new.name)
        BY <4>2, <2>2, <1>8
      <4> QED
        BY <4>1, <4>2
    <3> QED
      BY <3>1, <3>2, <1>5, PrefixFacts DEF NothingLost
  <2> QED
    BY <2>1, <2>2
<1> QED
  BY <1>4, <1>10, <1>12, <1>13, <1>14

\* Write changes nothing, or the files of the type of the bag.
LEMMA WriteHasEffect ==
  ASSUME Inv, Write
  PROVE  \/ UNCHANGED <<current, hidden, visible>>
         \/ \E ty \in LogTypes, closes \in BOOLEAN, c \in Chunk :
              \E new \in CurrentFile(ty) : Effect(ty, current[ty], new, closes, c)
<1>1. TypeOK /\ HiddenIsOpen /\ FilesInv /\ ~joined
  BY DEF Inv, FilesInv, Write
<1>2. PICK b \in Bag : /\ ~IsStale(b)
                       /\ \/ b.flag = "create" /\ (NoDirectory(b) \/ CreateFile(b))
                          \/ b.flag = "data" /\ WriteFile(b)
                          \/ b.flag = "end" /\ StopFile(b)
  <2>1. Head(batch) \in Bag
    BY <1>1 DEF Write, TypeOK
  <2> QED
    BY <2>1 DEF Write
<1> DEFINE ty == b.type
           old == current[ty]
           c == ChunkOf(b)
<1>3. /\ ty \in LogTypes /\ b.index \in Index /\ b.trans \in Trans /\ b.trans \in Nat
      /\ NameOf(b) \in Name /\ NameOf(b).type = ty /\ NameOf(b).index = b.index
      /\ c \in Chunk /\ c.index = b.index /\ c.trans = b.trans
  BY <1>1, BagFacts
<1>4. /\ old.name \in Name /\ old.name.type = ty /\ old.open \in BOOLEAN
      /\ old.trans \in Nat /\ old \in CurrentFile(ty)
  BY <1>1, <1>3, CurrentFacts DEF TypeOK
<1>5. DOMAIN current = LogTypes /\ hidden \in [Name -> Seq(Chunk)]
      /\ visible \in [Name -> Seq(Chunk)]
  BY <1>1 DEF FilesInv, TypeOK
<1>6. CASE NoDirectory(b)
  BY <1>6 DEF NoDirectory
<1>7. ASSUME NEW opens \in BOOLEAN, CreateFile(b)!(opens)
      PROVE  \E new \in CurrentFile(ty) : Effect(ty, old, new, old.open, c)
  <2> DEFINE new == [open |-> opens, index |-> b.index, trans |-> b.trans, name |-> NameOf(b)]
  <2>1. new \in CurrentFile(ty)
    BY <1>1, <1>3, <1>7 DEF CurrentFile, NameOf, TypeOK
  <2>2. /\ current' = [current EXCEPT ![ty] = new]
        /\ visible' = IF old.open THEN Renamed(old.name) ELSE visible
        /\ hidden' = IF opens THEN Created(b)
                     ELSE IF old.open THEN Without(old.name) ELSE hidden
    BY <1>7
  <2>3. /\ new.open = opens /\ new.index = b.index /\ new.trans = b.trans
        /\ new.name = NameOf(b)
    OBVIOUS
  <2> HIDE DEF new
  <2>4. \A n \in Name :
          visible'[n] = IF old.open /\ n = old.name THEN hidden[n] ELSE visible[n]
    BY <2>2, <1>4, <1>5 DEF Renamed
  <2>5. \A n \in Name :
          hidden'[n] = IF new.open /\ n = new.name
                         THEN Append(IF old.open THEN NoFile ELSE hidden[n], c)
                         ELSE IF old.open /\ n = old.name THEN NoFile ELSE hidden[n]
    <3>1. CASE ~opens
      BY <3>1, <2>2, <2>3, <1>4, <1>5 DEF Without
    <3>2. CASE opens
      <4> DEFINE rest == IF old.open THEN Without(old.name) ELSE hidden
      <4>1. rest \in [Name -> Seq(Chunk)]
        BY <1>4, <1>5 DEF Without, NoFile
      <4>2. \A n \in Name :
              rest[n] = IF old.open /\ n = old.name THEN NoFile ELSE hidden[n]
        BY <1>4, <1>5 DEF Without
      <4>3. hidden' = [rest EXCEPT ![NameOf(b)] = Append(@, c)]
        BY <3>2, <2>2 DEF Created
      <4> HIDE DEF rest
      <4>4. \A n \in Name : hidden'[n] = IF n = NameOf(b) THEN Append(rest[n], c) ELSE rest[n]
        BY <4>1, <4>3, <1>3
      <4>5. old.open => rest[NameOf(b)] = NoFile
        <5>1. CASE NameOf(b) = old.name
          BY <5>1, <4>2, <1>3
        <5>2. CASE NameOf(b) # old.name
          <6>1. hidden[NameOf(b)] = NoFile
            BY <5>2, <1>1, <1>3, HiddenOfType
          <6> QED
            BY <5>2, <6>1, <4>2, <1>3
        <5> QED
          BY <5>1, <5>2
      <4>6. ~old.open => rest[NameOf(b)] = hidden[NameOf(b)]
        BY <4>2, <1>3
      <4>7. ASSUME NEW n \in Name
            PROVE  hidden'[n] = IF n = NameOf(b)
                                  THEN Append(IF old.open THEN NoFile ELSE hidden[n], c)
                                  ELSE IF old.open /\ n = old.name THEN NoFile ELSE hidden[n]
        <5>1. CASE n = NameOf(b)
          BY <5>1, <4>4, <4>5, <4>6, <1>4
        <5>2. CASE n # NameOf(b)
          BY <5>2, <4>2, <4>4
        <5> QED
          BY <5>1, <5>2
      <4> QED
        BY <3>2, <2>3, <4>7
    <3> QED
      BY <1>7, <3>1, <3>2
  <2>6. DOMAIN hidden' = Name /\ DOMAIN visible' = Name
        /\ hidden' = [n \in Name |-> hidden'[n]] /\ visible' = [n \in Name |-> visible'[n]]
    <3>1. hidden' \in [Name -> Seq(Chunk)]
      <4> DEFINE rest == IF old.open THEN Without(old.name) ELSE hidden
      <4>1. rest \in [Name -> Seq(Chunk)]
        BY <1>4, <1>5 DEF Without, NoFile
      <4>2. hidden' = [rest EXCEPT ![NameOf(b)] = Append(@, c)] \/ hidden' = rest
        BY <2>2 DEF Created
      <4> HIDE DEF rest
      <4>3. ASSUME NEW s \in Seq(Chunk) PROVE Append(s, c) \in Seq(Chunk)
        BY <1>3
      <4> HIDE DEF c
      <4>4. Append(rest[NameOf(b)], c) \in Seq(Chunk)
        BY <1>3, <4>1, <4>3
      <4> QED
        BY <4>1, <4>2, <4>4, <1>3
    <3>2. visible' \in [Name -> Seq(Chunk)]
      BY <2>2, <1>4, <1>5 DEF Renamed
    <3> QED
      BY <3>1, <3>2
  <2>7. DOMAIN current' = LogTypes
        /\ \A tz \in LogTypes : current'[tz] = IF tz = ty THEN new ELSE current[tz]
    BY <2>2, <1>3, <1>5
  <2>8. Effect(ty, old, new, old.open, c)
    BY <1>3, <2>3, <2>4, <2>5, <2>6, <2>7 DEF Effect
  <2> QED
    BY <2>1, <2>8
<1>8. CASE WriteFile(b) /\ old.index = b.index /\ b.flag = "data"
  <2> DEFINE new == [old EXCEPT !.trans = b.trans]
  <2>1. old.trans <= b.trans
    BY <1>2, <1>3, <1>4, <1>8 DEF IsStale
  <2>2. new \in CurrentFile(ty)
    BY <1>3, <1>4 DEF CurrentFile
  <2>3. /\ new.open = old.open /\ new.index = old.index /\ new.trans = b.trans
        /\ new.name = old.name
    BY <1>4 DEF CurrentFile
  <2>4. /\ current' = [current EXCEPT ![ty] = new]
        /\ hidden' = IF old.open THEN [hidden EXCEPT ![old.name] = Append(@, c)] ELSE hidden
        /\ visible' = visible
    BY <1>3, <1>4, <1>5, <1>8 DEF WriteFile
  <2> HIDE DEF new
  <2>5. old.open => NotAfter(hidden[old.name], c.trans) /\ old.name.index = old.index
    <3> SUFFICES ASSUME old.open PROVE NotAfter(hidden[old.name], c.trans)
      BY <1>1, <1>3 DEF FilesInv
    <3>1. NotAfter(hidden[old.name], old.trans) /\ hidden[old.name] \in Seq(Chunk)
      BY <1>1, <1>3, <1>4, <1>5 DEF FilesInv
    <3>2. \A i \in DOMAIN hidden[old.name] : hidden[old.name][i].trans \in Nat
      BY <3>1, ChunksHaveTrans
    <3> QED
      BY <3>1, <3>2, <2>1, <1>3, <1>4 DEF NotAfter
  <2>6. Effect(ty, old, new, FALSE, c)
    BY <1>3, <1>4, <1>5, <1>8, <2>3, <2>4, <2>5 DEF Effect
  <2> QED
    BY <1>3, <2>2, <2>6
<1>9. CASE WriteFile(b) /\ old.index # b.index
  BY <1>9 DEF WriteFile
<1>10. CASE StopFile(b)
  <2> DEFINE new == [old EXCEPT !.open = FALSE, !.trans = b.trans]
  <2>1. new \in CurrentFile(ty)
    BY <1>3, <1>4 DEF CurrentFile
  <2>2. new.open = FALSE
    BY <1>4 DEF CurrentFile
  <2>3. current' = [current EXCEPT ![ty] = new]
    BY <1>10, <1>3, <1>5 DEF StopFile
  <2>4. /\ hidden' = IF old.open THEN Without(old.name) ELSE hidden
        /\ visible' = IF old.open THEN Renamed(old.name) ELSE visible
    BY <1>10 DEF StopFile, Close
  <2> HIDE DEF new
  <2>5. Effect(ty, old, new, old.open, c)
    BY <1>3, <1>4, <1>5, <2>2, <2>3, <2>4 DEF Effect, Without, Renamed
  <2> QED
    BY <1>3, <1>4, <2>1, <2>5
<1> QED
  BY <1>2, <1>3, <1>4, <1>6, <1>7, <1>8, <1>9, <1>10 DEF CreateFile

-----------------------------------------------------------------------------
(***************************************************************************)
(* The steps.                                                              *)
(***************************************************************************)
LEMMA WriteStep ==
  ASSUME Inv, Write
  PROVE  Inv' /\ \A n \in Name : NothingLost(n)
<1>1. TypeOK /\ HiddenIsOpen /\ FilesInv /\ ~joined /\ ~joined'
  BY DEF Inv, FilesInv, Write
<1>2. /\ batch' \in Seq(Bag)
      /\ UNCHANGED <<queue, writer, stop, joined, time, bags>>
  BY <1>1 DEF Write, TypeOK
<1>3. CASE UNCHANGED <<current, hidden, visible>>
  <2>1. \A n \in Name : NothingLost(n)
    BY <1>1, <1>3, PrefixFacts DEF NothingLost, TypeOK, IsPrefix
  <2> QED
    BY <1>1, <1>2, <1>3, <2>1 DEF Inv, TypeOK, HiddenIsOpen, FilesInv
<1>4. ASSUME NEW ty \in LogTypes, NEW closes \in BOOLEAN, NEW c \in Chunk,
             NEW new \in CurrentFile(ty), Effect(ty, current[ty], new, closes, c)
      PROVE  Inv' /\ \A n \in Name : NothingLost(n)
  <2>1. /\ \A tz \in LogTypes : current'[tz] \in CurrentFile(tz)
        /\ hidden' \in [Name -> Seq(Chunk)] /\ visible' \in [Name -> Seq(Chunk)]
        /\ HiddenIsOpen' /\ FilesInv'
        /\ \A n \in Name : NothingLost(n)
    BY <1>1, <1>4, EffectIsGood
  <2>2. TypeOK'
    BY <1>1, <1>2, <2>1 DEF TypeOK, CurrentFile
  <2> QED
    BY <2>1, <2>2 DEF Inv
<1> QED
  BY <1>3, <1>4, WriteHasEffect

LEMMA Step ==
  ASSUME Inv, [Next]_vars
  PROVE  Inv' /\ \A n \in Name : NothingLost(n)
<1>1. CASE Write
  BY <1>1, WriteStep
<1>2. CASE ~Write
  <2> USE LogWriterAssumption
  <2>1. TypeOK /\ HiddenIsOpen /\ FilesInv
    BY DEF Inv
  <2>2. UNCHANGED <<hidden, visible>>
    BY <1>2 DEF Next, vars, StoreLogBag, Tick, TakeQueue, Sleep, Exit, Stop, Join
  <2>3. \A n \in Name : NothingLost(n)
    BY <2>1, <2>2 DEF NothingLost, TypeOK, IsPrefix
  <2>4. Inv'
    <3>1. ASSUME NEW b \in Bag, StoreLogBag(b) PROVE Inv'
      BY <3>1, <2>1 DEF StoreLogBag, Inv, TypeOK, CurrentFile, HiddenIsOpen, FilesInv
    <3>2. CASE Tick
      BY <3>2, <2>1 DEF Tick, Inv, TypeOK, CurrentFile, HiddenIsOpen, FilesInv
    <3>3. CASE TakeQueue
      BY <3>3, <2>1 DEF TakeQueue, Inv, TypeOK, CurrentFile, HiddenIsOpen, FilesInv
    <3>4. CASE Sleep
      BY <3>4, <2>1 DEF Sleep, Inv, TypeOK, CurrentFile, HiddenIsOpen, FilesInv
    <3>5. CASE Exit
      BY <3>5, <2>1 DEF Exit, Inv, TypeOK, CurrentFile, HiddenIsOpen, FilesInv
    <3>6. CASE Stop
      BY <3>6, <2>1 DEF Stop, Inv, TypeOK, CurrentFile, HiddenIsOpen, FilesInv
    <3>7. CASE Join
      <4>1. \A ty \in LogTypes : current'[ty] \in CurrentFile(ty) /\ ~current'[ty].open
        <5>1. ASSUME NEW ty \in LogTypes, NEW r \in CurrentFile(ty)
              PROVE  LET f == [r EXCEPT !.open = FALSE] IN f \in CurrentFile(ty) /\ ~f.open
          BY DEF CurrentFile
        <5> QED
          BY <3>7, <5>1, <2>1 DEF Join, TypeOK
      <4>2. TypeOK'
        BY <3>7, <4>1, <2>1 DEF Join, TypeOK, CurrentFile
      <4>3. HiddenIsOpen'
        BY <3>7 DEF Join, HiddenIsOpen
      <4>4. FilesInv'
        <5>1. DOMAIN current' = LogTypes /\ UNCHANGED <<writer, hidden, visible>>
              /\ writer = "exited"
          BY <3>7 DEF Join
        <5> QED
          BY <4>1, <5>1, <2>1 DEF FilesInv
      <4> QED
        BY <4>2, <4>3, <4>4 DEF Inv
    <3>8. CASE UNCHANGED vars
      BY <3>8, <2>1 DEF vars, Inv, TypeOK, CurrentFile, HiddenIsOpen, FilesInv
    <3> QED
      BY <1>2, <3>1, <3>2, <3>3, <3>4, <3>5, <3>6, <3>7, <3>8 DEF Next
  <2> QED
    BY <2>3, <2>4
<1> QED
  BY <1>1, <1>2

LEMMA Start == Init => Inv
<1> SUFFICES ASSUME Init PROVE Inv
  OBVIOUS
<1> USE LogWriterAssumption
<1>1. TypeOK
  <2>1. \A ty \in LogTypes : current[ty] \in CurrentFile(ty)
    BY DEF Init, CurrentFile, Index, Trans
  <2>2. NoFile \in Seq(Chunk)
    BY DEF NoFile
  <2>3. hidden \in [Name -> Seq(Chunk)] /\ visible \in [Name -> Seq(Chunk)]
    BY <2>2 DEF Init
  <2>4. queue \in Seq(Bag) /\ batch \in Seq(Bag)
    BY DEF Init
  <2>5. time \in 0 .. MaxTime /\ bags \in 0 .. MaxBags
    BY DEF Init
  <2> QED
    BY <2>1, <2>3, <2>4, <2>5 DEF Init, TypeOK
<1>2. HiddenIsOpen
  BY DEF Init, HiddenIsOpen
<1>3. FilesInv
  BY EmptyFile DEF Init, FilesInv
<1> QED
  BY <1>1, <1>2, <1>3 DEF Inv

LEMMA Inductive == Spec => []Inv
BY Start, Step, PTL DEF Spec

\* The log files: what is hidden is open, and a file has the data of one index in order,
\* for any bags in any order, any clock and any failure of fopen.
THEOREM FilesCorrect == Spec => []FilesOK
<1>1. Inv => FilesOK
  <2> SUFFICES ASSUME Inv PROVE FilesOK
    OBVIOUS
  <2>1. \A n \in Name : InFile(hidden[n], n) /\ InFile(visible[n], n)
    BY DEF Inv, FilesInv
  <2>2. OneIndexPerFile
    BY <2>1 DEF OneIndexPerFile, InFile
  <2>3. InOrder
    BY <2>1 DEF InOrder, InFile, Contents
  <2> QED
    BY <2>2, <2>3 DEF Inv, FilesOK
<1> QED
  BY <1>1, Inductive, PTL

\* What was written stays in its file through CreateFile, WriteFile and StopFile, unless
\* a visible file has the name of a hidden one.
THEOREM NoDataLostCorrect == Spec => NoDataLost
<1>1. Inv /\ [Next]_vars =>
        \A n \in Name :
          \/ hidden[n] # NoFile /\ visible[n] # NoFile
          \/ IsPrefix(hidden[n], hidden'[n]) /\ IsPrefix(visible[n], visible'[n])
          \/ hidden[n] = visible'[n] /\ visible[n] = NoFile
  BY Step DEF NothingLost
<1> QED
  BY <1>1, Inductive, PTL DEF Spec, NoDataLost

=============================================================================
