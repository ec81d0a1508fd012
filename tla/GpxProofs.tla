----------------------------- MODULE GpxProofs -----------------------------
(***************************************************************************)
(* The track file nests for any number of runs, points and crashes.  The   *)
(* invariant adds to EachRunNests what the flags of the writer say of the  *)
(* last piece written: that is what the next method relies on.             *)
(***************************************************************************)
EXTENDS Gpx, SequenceTheorems, TLAPS

Pieces == {"gpx", "trkpt", "extensions", "rpm", "/extensions", "/trkpt", "/gpx"}

Nests(s) ==
    /\ s # <<>> => s[1] = "gpx"
    /\ \A k \in 1 .. Len(s) - 1 : s[k + 1] \in MayFollow(s[k]) \cup {"gpx"}

Written == file \o buffer

\* What a piece may stand behind: a piece it may follow, or anything if it begins
\* a document.
Fits(s, x) == IF s = <<>> THEN x = "gpx" ELSE x \in MayFollow(s[Len(s)]) \cup {"gpx"}

\* What the flags say of the last piece.
LastPiece ==
    IF inExtensions THEN {"rpm"} ELSE IF inTrkPt THEN {"trkpt"} ELSE {"gpx", "/trkpt"}

FileTypes ==
    /\ file \in Seq(Pieces) /\ buffer \in Seq(Pieces)
    /\ is_open \in BOOLEAN /\ inTrkPt \in BOOLEAN /\ inExtensions \in BOOLEAN

FlagsNest ==
    /\ inTrkPt => is_open
    /\ inExtensions => inTrkPt
    /\ ~is_open => buffer = <<>>

GpxInv ==
    /\ FileTypes /\ FlagsNest /\ Nests(Written)
    /\ is_open => Written # <<>> /\ Written[Len(Written)] \in LastPiece
----------------------------------------------------------------------------
LEMMA AppendNests ==
    ASSUME NEW s \in Seq(Pieces), NEW x \in Pieces, Nests(s), Fits(s, x)
    PROVE  /\ Append(s, x) \in Seq(Pieces) /\ Nests(Append(s, x))
           /\ Append(s, x) # <<>>
           /\ Append(s, x)[Len(Append(s, x))] = x
  <1> DEFINE t == Append(s, x)
  <1>1. /\ t \in Seq(Pieces) /\ Len(t) = Len(s) + 1 /\ t[Len(s) + 1] = x
        /\ \A k \in 1 .. Len(s) : t[k] = s[k]
    BY AppendProperties
  <1>2. Len(s) \in Nat /\ (s = <<>> <=> Len(s) = 0)
    BY LenProperties, EmptySeq
  <1>3. t # <<>>
    BY <1>1, <1>2
  <1>4. t[1] = "gpx"
    BY <1>1, <1>2 DEF Nests, Fits
  <1>5. ASSUME NEW k \in 1 .. Len(t) - 1
        PROVE  t[k + 1] \in MayFollow(t[k]) \cup {"gpx"}
    <2>1. CASE k = Len(s)
      BY <2>1, <1>1, <1>2 DEF Fits
    <2>2. CASE k # Len(s)
      <3>1. k \in 1 .. Len(s) - 1 /\ k + 1 \in 1 .. Len(s) /\ k \in 1 .. Len(s)
        BY <2>2, <1>1, <1>2
      <3> QED BY <3>1, <1>1 DEF Nests
    <2> QED BY <2>1, <2>2
  <1> QED BY <1>1, <1>3, <1>4, <1>5 DEF Nests

\* What a crash leaves of the document.
LEMMA PrefixNests ==
    ASSUME NEW s \in Seq(Pieces), NEW t \in Seq(Pieces), Nests(s \o t)
    PROVE  Nests(s)
  <1>1. /\ Len(s) \in Nat /\ Len(t) \in Nat /\ Len(s \o t) = Len(s) + Len(t)
        /\ \A k \in 1 .. Len(s) : (s \o t)[k] = s[k]
    BY LenProperties, ConcatProperties
  <1>2. (s = <<>> <=> Len(s) = 0) /\ (s \o t = <<>> <=> Len(s \o t) = 0)
    BY EmptySeq, ConcatProperties
  <1>3. s # <<>> => s[1] = "gpx"
    BY <1>1, <1>2 DEF Nests
  <1>4. ASSUME NEW k \in 1 .. Len(s) - 1
        PROVE  s[k + 1] \in MayFollow(s[k]) \cup {"gpx"}
    <2>1. k \in 1 .. Len(s \o t) - 1 /\ k \in 1 .. Len(s) /\ k + 1 \in 1 .. Len(s)
      BY <1>1
    <2> QED BY <2>1, <1>1 DEF Nests
  <1> QED BY <1>3, <1>4 DEF Nests

LEMMA ConcatAppend ==
    ASSUME NEW s \in Seq(Pieces), NEW t \in Seq(Pieces), NEW x \in Pieces
    PROVE  s \o Append(t, x) = Append(s \o t, x)
  OBVIOUS

LEMMA Two ==
    ASSUME NEW s \in Seq(Pieces), NEW x \in Pieces, NEW y \in Pieces
    PROVE  s \o <<x>> = Append(s, x) /\ s \o <<x, y>> = Append(Append(s, x), y)
  OBVIOUS

\* The opening piece, written to an empty buffer.
LEMMA Opened ==
    ASSUME file \in Seq(Pieces), file' = file, buffer' = <<"gpx">>
    PROVE  Written' = Append(file, "gpx") /\ buffer' \in Seq(Pieces)
  <1>1. "gpx" \in Pieces
    BY DEF Pieces
  <1>2. file \o <<"gpx">> = Append(file, "gpx") /\ <<"gpx">> \in Seq(Pieces)
    BY <1>1, Two
  <1>3. Written' = file' \o buffer'
    BY DEF Written
  <1> QED BY <1>2, <1>3

LEMMA WrittenAppend ==
    ASSUME FileTypes, NEW x \in Pieces, file' = file, buffer' = Append(buffer, x)
    PROVE  Written' = Append(Written, x) /\ buffer' \in Seq(Pieces)
  BY ConcatAppend, AppendProperties DEF Written, FileTypes

LEMMA WrittenTwo ==
    ASSUME FileTypes, NEW x \in Pieces, NEW y \in Pieces,
           file' = file, buffer' = buffer \o <<x, y>>
    PROVE  Written' = Append(Append(Written, x), y) /\ buffer' \in Seq(Pieces)
  <1>1. file \in Seq(Pieces) /\ buffer \in Seq(Pieces)
    BY DEF FileTypes
  <1>2. buffer' = Append(Append(buffer, x), y)
    BY <1>1, Two
  <1>3. Append(buffer, x) \in Seq(Pieces) /\ buffer' \in Seq(Pieces)
    BY <1>1, <1>2, AppendProperties
  <1>4. file \o Append(Append(buffer, x), y) = Append(file \o Append(buffer, x), y)
    BY <1>1, <1>3, ConcatAppend
  <1>5. file \o Append(buffer, x) = Append(file \o buffer, x)
    BY <1>1, ConcatAppend
  <1> QED BY <1>2, <1>3, <1>4, <1>5 DEF Written

LEMMA WrittenIsSeq == FileTypes => Written \in Seq(Pieces)
  BY ConcatProperties DEF FileTypes, Written

LEMMA GpxInvInit == GpxInit => GpxInv
  <1> SUFFICES ASSUME GpxInit PROVE GpxInv
    OBVIOUS
  <1>1. file = <<>> /\ buffer = <<>> /\ is_open = FALSE /\ inTrkPt = FALSE /\ inExtensions = FALSE
    BY DEF GpxInit
  <1>2. FileTypes
    BY <1>1, EmptySeq DEF FileTypes
  <1>3. Written = <<>>
    BY <1>1 DEF Written
  <1>4. Nests(Written)
    BY <1>3 DEF Nests
  <1> QED BY <1>1, <1>2, <1>4 DEF GpxInv, FlagsNest

LEMMA InitializeKeeps == GpxInv /\ Initialize => GpxInv'
  <1> SUFFICES ASSUME GpxInv, Initialize PROVE GpxInv'
    OBVIOUS
  <1>1. file \in Seq(Pieces) /\ buffer \in Seq(Pieces) /\ Nests(file)
    BY PrefixNests DEF GpxInv, FileTypes, Written
  <1>2. file' = file /\ inTrkPt' = FALSE /\ inExtensions' = FALSE
    BY DEF Initialize
  <1>3. PICK opens \in BOOLEAN :
           is_open' = opens /\ buffer' = IF opens THEN <<"gpx">> ELSE <<>>
    BY DEF Initialize
  <1>4. CASE ~opens
    <2>1. is_open' = FALSE /\ buffer' = <<>>
      BY <1>3, <1>4
    <2>2. Written' = file
      BY <2>1, <1>1, <1>2 DEF Written
    <2>3. FileTypes' /\ FlagsNest'
      BY <2>1, <1>1, <1>2, EmptySeq DEF FileTypes, FlagsNest
    <2> QED BY <2>1, <2>2, <2>3, <1>1 DEF GpxInv
  <1>5. CASE opens
    <2>1. is_open' = TRUE /\ buffer' = <<"gpx">>
      BY <1>3, <1>5
    <2>2. Written' = Append(file, "gpx") /\ buffer' \in Seq(Pieces)
      BY <2>1, <1>1, <1>2, Opened
    <2>3. Fits(file, "gpx") /\ "gpx" \in Pieces
      BY DEF Fits, Pieces
    <2>4. /\ Nests(Written') /\ Written' # <<>> /\ Written'[Len(Written')] = "gpx"
      BY <2>2, <2>3, <1>1, AppendNests
    <2>5. FileTypes' /\ FlagsNest'
      BY <2>1, <2>2, <1>1, <1>2 DEF FileTypes, FlagsNest
    <2>6. "gpx" \in LastPiece'
      BY <1>2 DEF LastPiece
    <2> QED BY <2>4, <2>5, <2>6 DEF GpxInv
  <1> QED BY <1>4, <1>5

LEMMA StartTrkPtKeeps == GpxInv /\ StartTrkPt => GpxInv'
  <1> SUFFICES ASSUME GpxInv, StartTrkPt PROVE GpxInv'
    OBVIOUS
  <1>1. /\ is_open /\ ~inTrkPt /\ ~inExtensions /\ is_open' = is_open
        /\ inExtensions' = inExtensions /\ inTrkPt' = TRUE
        /\ file' = file /\ buffer' = Append(buffer, "trkpt")
    BY DEF StartTrkPt, GpxInv, FlagsNest
  <1>2. FileTypes /\ Written \in Seq(Pieces)
    BY WrittenIsSeq DEF GpxInv
  <1>3. "trkpt" \in Pieces /\ Written' = Append(Written, "trkpt") /\ buffer' \in Seq(Pieces)
    BY <1>1, <1>2, WrittenAppend DEF Pieces
  <1>4. Fits(Written, "trkpt")
    BY <1>1 DEF GpxInv, LastPiece, Fits, MayFollow
  <1>5. Nests(Written') /\ Written' # <<>> /\ Written'[Len(Written')] = "trkpt"
    BY <1>2, <1>3, <1>4, AppendNests DEF GpxInv
  <1>6. FileTypes' /\ FlagsNest'
    BY <1>1, <1>2, <1>3 DEF FileTypes, FlagsNest
  <1>7. "trkpt" \in LastPiece'
    BY <1>1 DEF LastPiece
  <1> QED BY <1>5, <1>6, <1>7 DEF GpxInv

LEMMA AddExtensionKeeps == GpxInv /\ AddExtension => GpxInv'
  <1> SUFFICES ASSUME GpxInv, AddExtension PROVE GpxInv'
    OBVIOUS
  <1>1. /\ is_open /\ inTrkPt /\ is_open' = is_open /\ inTrkPt' = inTrkPt
        /\ inExtensions' = TRUE /\ file' = file
        /\ buffer' = buffer \o (IF inExtensions THEN <<"rpm">> ELSE <<"extensions", "rpm">>)
    BY DEF AddExtension
  <1>2. FileTypes /\ Written \in Seq(Pieces) /\ buffer \in Seq(Pieces)
    BY WrittenIsSeq DEF GpxInv, FileTypes
  <1>3. "extensions" \in Pieces /\ "rpm" \in Pieces
    BY DEF Pieces
  <1>4. "rpm" \in LastPiece'
    BY <1>1 DEF LastPiece
  <1>5. CASE inExtensions
    <2>1. buffer' = Append(buffer, "rpm")
      BY <1>1, <1>2, <1>3, <1>5, Two
    <2>2. Written' = Append(Written, "rpm") /\ buffer' \in Seq(Pieces)
      BY <2>1, <1>1, <1>2, <1>3, WrittenAppend
    <2>3. Fits(Written, "rpm")
      BY <1>1, <1>5 DEF GpxInv, LastPiece, Fits, MayFollow
    <2>4. Nests(Written') /\ Written' # <<>> /\ Written'[Len(Written')] = "rpm"
      BY <1>2, <1>3, <2>2, <2>3, AppendNests DEF GpxInv
    <2>5. FileTypes' /\ FlagsNest'
      BY <1>1, <1>2, <2>2 DEF FileTypes, FlagsNest
    <2> QED BY <1>4, <2>4, <2>5 DEF GpxInv
  <1>6. CASE ~inExtensions
    <2>1. buffer' = buffer \o <<"extensions", "rpm">>
      BY <1>1, <1>6
    <2>2. Written' = Append(Append(Written, "extensions"), "rpm") /\ buffer' \in Seq(Pieces)
      BY <2>1, <1>1, <1>2, <1>3, WrittenTwo
    <2>3. Fits(Written, "extensions")
      BY <1>1, <1>6 DEF GpxInv, LastPiece, Fits, MayFollow
    <2> DEFINE half == Append(Written, "extensions")
    <2>4. half \in Seq(Pieces) /\ Nests(half) /\ half # <<>> /\ half[Len(half)] = "extensions"
      BY <1>2, <1>3, <2>3, AppendNests DEF GpxInv
    <2>5. Fits(half, "rpm")
      BY <2>4 DEF Fits, MayFollow
    <2>6. Nests(Written') /\ Written' # <<>> /\ Written'[Len(Written')] = "rpm"
      BY <1>3, <2>2, <2>4, <2>5, AppendNests
    <2>7. FileTypes' /\ FlagsNest'
      BY <1>1, <1>2, <2>2 DEF FileTypes, FlagsNest
    <2> QED BY <1>4, <2>6, <2>7 DEF GpxInv
  <1> QED BY <1>5, <1>6

\* endTrkPt() and close() write the same end of a point.
LEMMA PointEnded ==
    ASSUME GpxInv, is_open, inTrkPt
    PROVE  LET t == Written \o TrkPtEnd
           IN  t \in Seq(Pieces) /\ Nests(t) /\ t # <<>> /\ t[Len(t)] = "/trkpt"
  <1>1. FileTypes /\ Written \in Seq(Pieces) /\ Nests(Written)
    BY WrittenIsSeq DEF GpxInv
  <1>2. "/extensions" \in Pieces /\ "/trkpt" \in Pieces
    BY DEF Pieces
  <1>3. CASE inExtensions
    <2>1. Written \o TrkPtEnd = Append(Append(Written, "/extensions"), "/trkpt")
      BY <1>1, <1>2, <1>3, Two DEF TrkPtEnd
    <2>2. Fits(Written, "/extensions")
      BY <1>3 DEF GpxInv, LastPiece, Fits, MayFollow
    <2> DEFINE half == Append(Written, "/extensions")
    <2>3. half \in Seq(Pieces) /\ Nests(half) /\ half # <<>> /\ half[Len(half)] = "/extensions"
      BY <1>1, <1>2, <2>2, AppendNests
    <2>4. Fits(half, "/trkpt")
      BY <2>3 DEF Fits, MayFollow
    <2> QED BY <1>2, <2>1, <2>3, <2>4, AppendNests
  <1>4. CASE ~inExtensions
    <2>1. Written \o TrkPtEnd = Append(Written, "/trkpt")
      BY <1>1, <1>2, <1>4, Two DEF TrkPtEnd
    <2>2. Fits(Written, "/trkpt")
      BY <1>4 DEF GpxInv, LastPiece, Fits, MayFollow
    <2> QED BY <1>1, <1>2, <2>1, <2>2, AppendNests
  <1> QED BY <1>3, <1>4

LEMMA ConcatThree ==
    ASSUME NEW s \in Seq(Pieces), NEW t \in Seq(Pieces), NEW u \in Seq(Pieces)
    PROVE  s \o (t \o u) = (s \o t) \o u /\ t \o u \in Seq(Pieces)
  OBVIOUS

LEMMA EndIsSeq == TrkPtEnd \in Seq(Pieces)
  <1>1. <<"/extensions", "/trkpt">> \in Seq(Pieces) /\ <<"/trkpt">> \in Seq(Pieces)
    BY DEF Pieces
  <1> QED BY <1>1 DEF TrkPtEnd

LEMMA EndTrkPtKeeps == GpxInv /\ EndTrkPt => GpxInv'
  <1> SUFFICES ASSUME GpxInv, EndTrkPt PROVE GpxInv'
    OBVIOUS
  <1>1. /\ is_open /\ inTrkPt /\ is_open' = is_open /\ inTrkPt' = FALSE
        /\ inExtensions' = FALSE /\ file' = file /\ buffer' = buffer \o TrkPtEnd
    BY DEF EndTrkPt
  <1>2. FileTypes
    BY DEF GpxInv
  <1>3. Written' = Written \o TrkPtEnd /\ buffer' \in Seq(Pieces)
    BY <1>1, <1>2, EndIsSeq, ConcatThree DEF Written, FileTypes
  <1>4. Nests(Written') /\ Written' # <<>> /\ Written'[Len(Written')] = "/trkpt"
    BY <1>1, <1>3, PointEnded
  <1>5. FileTypes' /\ FlagsNest'
    BY <1>1, <1>2, <1>3 DEF FileTypes, FlagsNest
  <1>6. "/trkpt" \in LastPiece'
    BY <1>1 DEF LastPiece
  <1> QED BY <1>4, <1>5, <1>6 DEF GpxInv

LEMMA AddTrkPtKeeps == GpxInv /\ AddTrkPt => GpxInv'
  <1> SUFFICES ASSUME GpxInv, AddTrkPt PROVE GpxInv'
    OBVIOUS
  <1>1. /\ is_open /\ ~inTrkPt /\ ~inExtensions /\ is_open' = is_open
        /\ inTrkPt' = inTrkPt /\ inExtensions' = inExtensions
        /\ file' = file /\ buffer' = buffer \o <<"trkpt", "/trkpt">>
    BY DEF AddTrkPt, state, GpxInv, FlagsNest
  <1>2. FileTypes /\ Written \in Seq(Pieces)
    BY WrittenIsSeq DEF GpxInv
  <1>3. "trkpt" \in Pieces /\ "/trkpt" \in Pieces
    BY DEF Pieces
  <1>4. Written' = Append(Append(Written, "trkpt"), "/trkpt") /\ buffer' \in Seq(Pieces)
    BY <1>1, <1>2, <1>3, WrittenTwo
  <1>5. Fits(Written, "trkpt")
    BY <1>1 DEF GpxInv, LastPiece, Fits, MayFollow
  <1> DEFINE half == Append(Written, "trkpt")
  <1>6. half \in Seq(Pieces) /\ Nests(half) /\ half # <<>> /\ half[Len(half)] = "trkpt"
    BY <1>2, <1>3, <1>5, AppendNests DEF GpxInv
  <1>7. Fits(half, "/trkpt")
    BY <1>6 DEF Fits, MayFollow
  <1>8. Nests(Written') /\ Written' # <<>> /\ Written'[Len(Written')] = "/trkpt"
    BY <1>3, <1>4, <1>6, <1>7, AppendNests
  <1>9. FileTypes' /\ FlagsNest'
    BY <1>1, <1>2, <1>4 DEF FileTypes, FlagsNest
  <1>10. "/trkpt" \in LastPiece'
    BY <1>1 DEF LastPiece
  <1> QED BY <1>8, <1>9, <1>10 DEF GpxInv

\* close(): a point that is open is ended, then the document.
LEMMA CloseKeeps == GpxInv /\ Close => GpxInv'
  <1> SUFFICES ASSUME GpxInv, Close PROVE GpxInv'
    OBVIOUS
  <1>1. /\ is_open' = FALSE /\ inTrkPt' = FALSE /\ inExtensions' = FALSE /\ buffer' = <<>>
        /\ file' = file \o buffer \o (IF is_open THEN Ending ELSE <<>>)
    BY DEF Close
  <1>2. FileTypes /\ Written \in Seq(Pieces) /\ Nests(Written)
    BY WrittenIsSeq DEF GpxInv
  <1>3. file' \in Seq(Pieces) /\ Nests(file')
    <2>1. "/gpx" \in Pieces
      BY DEF Pieces
    <2>2. CASE ~is_open
      <3>1. file' = Written \o <<>>
        BY <1>1, <2>2 DEF Written
      <3> QED BY <3>1, <1>2
    <2>3. CASE is_open /\ inTrkPt
      <3> DEFINE t == Written \o TrkPtEnd
      <3>1. file' = Written \o (TrkPtEnd \o <<"/gpx">>)
        BY <1>1, <2>3 DEF Written, Ending
      <3>2. <<"/gpx">> \in Seq(Pieces)
        BY <2>1
      <3>3. file' = t \o <<"/gpx">>
        BY <3>1, <3>2, <1>2, EndIsSeq, ConcatThree
      <3>4. t \in Seq(Pieces) /\ Nests(t) /\ t # <<>> /\ t[Len(t)] = "/trkpt"
        BY <2>3, PointEnded
      <3> HIDE DEF t
      <3>5. file' = Append(t, "/gpx")
        BY <3>3, <3>4, <2>1, Two
      <3>6. Fits(t, "/gpx")
        BY <3>4 DEF Fits, MayFollow
      <3> QED BY <2>1, <3>4, <3>5, <3>6, AppendNests
    <2>4. CASE is_open /\ ~inTrkPt
      <3>1. file' = Written \o (<<>> \o <<"/gpx">>)
        BY <1>1, <2>4 DEF Written, Ending
      <3>2. file' = Append(Written, "/gpx")
        BY <3>1, <1>2, <2>1, Two
      <3>3. Fits(Written, "/gpx")
        BY <2>4 DEF GpxInv, FlagsNest, LastPiece, Fits, MayFollow
      <3> QED BY <1>2, <2>1, <3>2, <3>3, AppendNests
    <2> QED BY <2>2, <2>3, <2>4
  <1>4. Written' = file'
    BY <1>1, <1>3 DEF Written
  <1>5. FileTypes' /\ FlagsNest'
    BY <1>1, <1>3, EmptySeq DEF FileTypes, FlagsNest
  <1> QED BY <1>1, <1>3, <1>4, <1>5 DEF GpxInv

LEMMA FlushKeeps == GpxInv /\ Flush => GpxInv'
  <1> SUFFICES ASSUME GpxInv, Flush PROVE GpxInv'
    OBVIOUS
  <1>1. PICK n \in 1 .. Len(buffer) :
           /\ file' = file \o SubSeq(buffer, 1, n)
           /\ buffer' = SubSeq(buffer, n + 1, Len(buffer))
    BY DEF Flush
  <1>2. FileTypes /\ file \in Seq(Pieces) /\ buffer \in Seq(Pieces)
    BY DEF GpxInv, FileTypes
  <1> DEFINE done == SubSeq(buffer, 1, n)
             rest == SubSeq(buffer, n + 1, Len(buffer))
  <1>3. done \in Seq(Pieces) /\ rest \in Seq(Pieces) /\ done \o rest = buffer
    BY <1>2
  <1>4. Written' = Written /\ file' \in Seq(Pieces) /\ buffer' \in Seq(Pieces)
    <2> HIDE DEF done, rest
    <2>1. file' = file \o done /\ buffer' = rest
      BY <1>1 DEF done, rest
    <2> QED BY <2>1, <1>2, <1>3, ConcatThree DEF Written
  <1>5. is_open' = is_open /\ inTrkPt' = inTrkPt /\ inExtensions' = inExtensions
    BY DEF Flush, state
  <1>6. is_open
    <2>1. buffer # <<>>
      BY DEF Flush
    <2> QED BY <2>1 DEF GpxInv, FlagsNest
  <1>7. FileTypes' /\ FlagsNest' /\ LastPiece' = LastPiece
    BY <1>2, <1>4, <1>5, <1>6 DEF GpxInv, FileTypes, FlagsNest, LastPiece
  <1> QED BY <1>4, <1>5, <1>7 DEF GpxInv

LEMMA CrashKeeps == GpxInv /\ Crash => GpxInv'
  <1> SUFFICES ASSUME GpxInv, Crash PROVE GpxInv'
    OBVIOUS
  <1>1. /\ is_open' = FALSE /\ inTrkPt' = FALSE /\ inExtensions' = FALSE
        /\ buffer' = <<>> /\ file' = file
    BY DEF Crash
  <1>2. file \in Seq(Pieces) /\ Nests(file)
    BY PrefixNests DEF GpxInv, FileTypes, Written
  <1>3. Written' = file
    BY <1>1, <1>2 DEF Written
  <1>4. FileTypes' /\ FlagsNest'
    BY <1>1, <1>2, EmptySeq DEF FileTypes, FlagsNest
  <1> QED BY <1>1, <1>2, <1>3, <1>4 DEF GpxInv

LEMMA EnterLoopKeeps == GpxInv /\ EnterLoop => GpxInv'
  <1> SUFFICES ASSUME GpxInv, EnterLoop PROVE GpxInv'
    OBVIOUS
  <1>1. UNCHANGED <<file, buffer, is_open, inTrkPt, inExtensions>>
    BY DEF EnterLoop, state
  <1> QED BY <1>1 DEF GpxInv, FileTypes, FlagsNest, Written, LastPiece

LEMMA AbandonKeeps == GpxInv /\ Abandon => GpxInv'
  <1> SUFFICES ASSUME GpxInv, Abandon PROVE GpxInv'
    OBVIOUS
  <1>1. /\ is_open' = FALSE /\ inTrkPt' = FALSE /\ inExtensions' = FALSE
        /\ buffer' = <<>> /\ file' = Written
    BY DEF Abandon, Written
  <1>2. Written \in Seq(Pieces) /\ Nests(Written)
    BY WrittenIsSeq DEF GpxInv
  <1>3. Written' = Written
    BY <1>1, <1>2 DEF Written
  <1>4. FileTypes' /\ FlagsNest'
    BY <1>1, <1>2, EmptySeq DEF FileTypes, FlagsNest
  <1> QED BY <1>1, <1>2, <1>3, <1>4 DEF GpxInv

LEMMA GpxInvNext == GpxInv /\ [GpxNext]_gpxVars => GpxInv'
  <1> SUFFICES ASSUME GpxInv, UNCHANGED gpxVars PROVE GpxInv'
    BY InitializeKeeps, StartTrkPtKeeps, AddExtensionKeeps, EndTrkPtKeeps, AddTrkPtKeeps,
       EnterLoopKeeps, AbandonKeeps, CloseKeeps, FlushKeeps, CrashKeeps DEF GpxNext
  <1>1. UNCHANGED <<file, buffer, is_open, inTrkPt, inExtensions>>
    BY DEF gpxVars, state
  <1> QED BY <1>1 DEF GpxInv, FileTypes, FlagsNest, Written, LastPiece

\* Whatever order the methods are called in and wherever crashes cut the file, the
\* pieces of each run form the beginning of a document, for any number of pieces
\* and runs (the methods of GPX; EachRunNests).
THEOREM TrackNests == GpxSpec => []EachRunNests
  <1>1. GpxInv => EachRunNests
    BY DEF GpxInv, Nests, Written, EachRunNests
  <1> QED BY <1>1, GpxInvInit, GpxInvNext, PTL DEF GpxSpec
----------------------------------------------------------------------------
(* Without a crash a document only begins where the last one was ended, or  *)
(* where a run that returned early left its header: E is the set of the    *)
(* pieces it may begin behind.                                             *)

Inner == Pieces \ {"gpx"}

NoRestart(s, E) == \A k \in 2 .. Len(s) : s[k] = "gpx" => s[k - 1] \in E
Ended(s, E)     == s # <<>> => s[Len(s)] \in E

\* As long as the loop is not entered, the header is the last piece of a file that
\* is open: what Abandon leaves.
WholeInv ==
    /\ crashes \in Nat
    /\ is_open => phase # "down"
    /\ phase = "starting" /\ is_open => Ended(Written, {"gpx"})
    /\ crashes = 0 => /\ NoRestart(Written, RunsEndWith)
                      /\ ~is_open => Ended(Written, RunsEndWith)

LEMMA InnerKeeps ==
    ASSUME NEW E, NEW s \in Seq(Pieces), NEW t \in Seq(Inner), NoRestart(s, E)
    PROVE  NoRestart(s \o t, E)
  <1> SUFFICES ASSUME NEW k \in 2 .. Len(s \o t), (s \o t)[k] = "gpx"
               PROVE  (s \o t)[k - 1] \in E
    BY DEF NoRestart
  <1>1. /\ Len(s) \in Nat /\ Len(t) \in Nat /\ Len(s \o t) = Len(s) + Len(t)
        /\ \A j \in 1 .. Len(s) : (s \o t)[j] = s[j]
        /\ \A j \in 1 .. Len(t) : (s \o t)[Len(s) + j] = t[j]
    OBVIOUS
  <1>2. k \in 1 .. Len(s)
    <2> SUFFICES ASSUME k > Len(s) PROVE FALSE
      BY <1>1
    <2>1. k - Len(s) \in 1 .. Len(t) /\ Len(s) + (k - Len(s)) = k
      BY <1>1
    <2>2. (s \o t)[k] = t[k - Len(s)] /\ t[k - Len(s)] \in Inner
      BY <1>1, <2>1
    <2> QED BY <2>2 DEF Inner
  <1>3. k - 1 \in 1 .. Len(s) /\ k \in 2 .. Len(s)
    BY <1>1, <1>2
  <1> QED BY <1>1, <1>2, <1>3 DEF NoRestart

LEMMA NewDocument ==
    ASSUME NEW E, NEW s \in Seq(Pieces), NoRestart(s, E), Ended(s, E)
    PROVE  NoRestart(Append(s, "gpx"), E)
  <1> DEFINE t == Append(s, "gpx")
  <1> SUFFICES ASSUME NEW k \in 2 .. Len(t), t[k] = "gpx" PROVE t[k - 1] \in E
    BY DEF NoRestart
  <1>1. "gpx" \in Pieces
    BY DEF Pieces
  <1>2. /\ Len(s) \in Nat /\ Len(t) = Len(s) + 1 /\ (s = <<>> <=> Len(s) = 0)
        /\ \A j \in 1 .. Len(s) : t[j] = s[j]
    BY <1>1, AppendProperties, LenProperties, EmptySeq
  <1>3. CASE k = Len(s) + 1
    BY <1>2, <1>3 DEF Ended
  <1>4. CASE k # Len(s) + 1
    <2>1. k \in 2 .. Len(s) /\ k - 1 \in 1 .. Len(s) /\ k \in 1 .. Len(s)
      BY <1>2, <1>4
    <2> QED BY <2>1, <1>2 DEF NoRestart
  <1> QED BY <1>3, <1>4

\* What reached the file of a document without restarts has none either.
LEMMA PrefixNoRestart ==
    ASSUME NEW E, NEW s \in Seq(Pieces), NEW t \in Seq(Pieces), NoRestart(s \o t, E)
    PROVE  NoRestart(s, E)
  <1>1. /\ Len(s) \in Nat /\ Len(t) \in Nat /\ Len(s \o t) = Len(s) + Len(t)
        /\ \A j \in 1 .. Len(s) : (s \o t)[j] = s[j]
    OBVIOUS
  <1> SUFFICES ASSUME NEW k \in 2 .. Len(s), s[k] = "gpx" PROVE s[k - 1] \in E
    BY DEF NoRestart
  <1>2. k \in 2 .. Len(s \o t) /\ k \in 1 .. Len(s) /\ k - 1 \in 1 .. Len(s)
    BY <1>1
  <1> QED BY <1>1, <1>2 DEF NoRestart

\* The methods within a document write inner pieces.
LEMMA WithinDocument ==
    ASSUME GpxInv, StartTrkPt \/ AddExtension \/ EndTrkPt \/ AddTrkPt
    PROVE  /\ \E t \in Seq(Inner) : Written' = Written \o t
           /\ is_open /\ is_open' /\ phase' = "looping" /\ UNCHANGED <<crashes, abandoned>>
  <1>1. PICK t \in Seq(Inner) : file' = file /\ buffer' = buffer \o t
    <2>1. CASE StartTrkPt
      <3>1. file' = file /\ buffer' = Append(buffer, "trkpt") /\ "trkpt" \in Pieces
        BY <2>1 DEF StartTrkPt, Pieces
      <3>2. buffer' = buffer \o <<"trkpt">>
        BY <3>1, Two DEF GpxInv, FileTypes
      <3>3. <<"trkpt">> \in Seq(Inner)
        BY DEF Inner, Pieces
      <3> QED BY <3>1, <3>2, <3>3
    <2>2. CASE AddExtension
      <3>1. <<"rpm">> \in Seq(Inner) /\ <<"extensions", "rpm">> \in Seq(Inner)
        BY DEF Inner, Pieces
      <3> QED BY <2>2, <3>1 DEF AddExtension
    <2>3. CASE EndTrkPt
      <3>1. <<"/trkpt">> \in Seq(Inner) /\ <<"/extensions", "/trkpt">> \in Seq(Inner)
        BY DEF Inner, Pieces
      <3> QED BY <2>3, <3>1 DEF EndTrkPt, TrkPtEnd
    <2>4. CASE AddTrkPt
      <3>1. <<"trkpt", "/trkpt">> \in Seq(Inner)
        BY DEF Inner, Pieces
      <3> QED BY <2>4, <3>1 DEF AddTrkPt
    <2> QED BY <2>1, <2>2, <2>3, <2>4
  <1>2. t \in Seq(Pieces)
    BY DEF Inner
  <1>3. Written' = Written \o t
    <2>1. file \in Seq(Pieces) /\ buffer \in Seq(Pieces)
      BY DEF GpxInv, FileTypes
    <2>2. file \o (buffer \o t) = (file \o buffer) \o t
      BY <1>2, <2>1, ConcatThree
    <2>3. Written = file \o buffer /\ Written' = file' \o buffer'
      BY DEF Written
    <2> QED BY <1>1, <2>2, <2>3
  <1>4. is_open /\ is_open' /\ phase' = "looping" /\ UNCHANGED <<crashes, abandoned>>
    BY DEF StartTrkPt, AddExtension, EndTrkPt, AddTrkPt, state
  <1> QED BY <1>3, <1>4

LEMMA WholeInvInit == GpxInit => WholeInv
  <1> SUFFICES ASSUME GpxInit PROVE WholeInv
    OBVIOUS
  <1>1. Written = <<>> /\ crashes = 0 /\ ~is_open
    BY DEF GpxInit, Written
  <1> QED BY <1>1 DEF WholeInv, NoRestart, Ended

LEMMA WholeInvNext == GpxInv /\ WholeInv /\ [GpxNext]_gpxVars => WholeInv'
  <1> SUFFICES ASSUME GpxInv, WholeInv, [GpxNext]_gpxVars PROVE WholeInv'
    OBVIOUS
  <1>1. FileTypes /\ Written \in Seq(Pieces) /\ file \in Seq(Pieces) /\ buffer \in Seq(Pieces)
    BY WrittenIsSeq DEF GpxInv, FileTypes
  <1>2. CASE StartTrkPt \/ AddExtension \/ EndTrkPt \/ AddTrkPt
    <2>1. PICK t \in Seq(Inner) : Written' = Written \o t
      BY <1>2, WithinDocument
    <2>2. is_open' /\ phase' = "looping" /\ UNCHANGED <<crashes, abandoned>>
      BY <1>2, WithinDocument
    <2>3. NoRestart(Written, RunsEndWith) => NoRestart(Written', RunsEndWith)
      BY <2>1, <1>1, InnerKeeps
    <2> QED BY <2>2, <2>3 DEF WholeInv, RunsEndWith
  <1>3. CASE Initialize
    <2>1. /\ ~is_open /\ phase' = "starting" /\ file' = file
          /\ UNCHANGED <<crashes, abandoned>>
      BY <1>3 DEF Initialize, WholeInv
    <2>2. Written = file
      <3>1. buffer = <<>>
        BY <2>1 DEF GpxInv, FlagsNest
      <3> QED BY <3>1, <1>1 DEF Written
    <2>3. PICK opens \in BOOLEAN :
             is_open' = opens /\ buffer' = IF opens THEN <<"gpx">> ELSE <<>>
      BY <1>3 DEF Initialize
    <2>4. CASE opens
      <3>1. is_open' /\ buffer' = <<"gpx">>
        BY <2>3, <2>4
      <3>2. Written' = Append(Written, "gpx")
        BY <3>1, <2>1, <2>2, <1>1, Opened
      <3>3. NoRestart(Written, RunsEndWith) /\ Ended(Written, RunsEndWith)
               => NoRestart(Written', RunsEndWith)
        BY <3>2, <1>1, NewDocument
      <3>4. Written'[Len(Written')] = "gpx"
        BY <3>2, <1>1, AppendProperties DEF Pieces
      <3>5. Ended(Written, {"gpx"})'
        BY <3>4 DEF Ended
      <3> QED BY <3>1, <3>3, <3>5, <2>1 DEF WholeInv, RunsEndWith
    <2>5. CASE ~opens
      <3>1. ~is_open' /\ buffer' = <<>>
        BY <2>3, <2>5
      <3>2. Written' = Written
        BY <3>1, <2>1, <2>2, <1>1 DEF Written
      <3> QED BY <3>1, <3>2, <2>1 DEF WholeInv, RunsEndWith
    <2> QED BY <2>4, <2>5
  <1>4. CASE EnterLoop
    <2>1. Written' = Written /\ phase' = "looping" /\ UNCHANGED <<is_open, crashes, abandoned>>
      BY <1>4 DEF EnterLoop, state, Written
    <2> QED BY <2>1 DEF WholeInv, RunsEndWith
  <1>5. CASE Abandon
    <2>1. /\ phase = "starting" /\ ~is_open' /\ crashes' = crashes /\ abandoned' = TRUE
          /\ file' = Written /\ buffer' = <<>>
      BY <1>5 DEF Abandon, Written
    <2>2. Written' = Written
      BY <2>1, <1>1 DEF Written
    <2>3. RunsEndWith \subseteq RunsEndWith' /\ {"gpx"} \subseteq RunsEndWith'
      BY <2>1 DEF RunsEndWith
    <2>4. NoRestart(Written, RunsEndWith) => NoRestart(Written, RunsEndWith)'
      BY <2>2, <2>3 DEF NoRestart
    <2>5. Ended(Written, RunsEndWith) \/ Ended(Written, {"gpx"}) => Ended(Written, RunsEndWith)'
      BY <2>2, <2>3 DEF Ended
    <2> QED BY <2>1, <2>4, <2>5 DEF WholeInv
  <1>6. CASE Close
    <2>1. /\ ~is_open' /\ UNCHANGED <<crashes, abandoned>> /\ buffer' = <<>>
          /\ file' = Written \o (IF is_open THEN Ending ELSE <<>>)
      BY <1>6 DEF Close, Written
    <2>2. CASE ~is_open
      <3>1. file' = Written
        BY <2>1, <2>2, <1>1
      <3>2. Written' = Written
        BY <3>1, <2>1, <1>1 DEF Written
      <3> QED BY <3>2, <2>1, <2>2 DEF WholeInv, RunsEndWith
    <2>3. CASE is_open
      <3>1. PICK x \in Seq(Inner) : Ending = x \o <<"/gpx">>
        <4>1. /\ <<"/extensions", "/trkpt">> \in Seq(Inner) /\ <<"/trkpt">> \in Seq(Inner)
              /\ <<>> \in Seq(Inner)
          BY DEF Inner, Pieces
        <4> QED BY <4>1 DEF Ending, TrkPtEnd
      <3>2. Ending = Append(x, "/gpx") /\ "/gpx" \in Inner
        <4>1. x \in Seq(Pieces) /\ "/gpx" \in Inner /\ "/gpx" \in Pieces
          BY DEF Inner, Pieces
        <4> QED BY <4>1, <3>1, Two
      <3>3. Ending \in Seq(Inner) /\ Len(Ending) > 0 /\ Ending[Len(Ending)] = "/gpx"
        BY <3>2, AppendProperties, LenProperties
      <3>4. Ending \in Seq(Pieces)
        BY <3>3 DEF Inner
      <3>5. file' = Written \o Ending /\ file' \in Seq(Pieces)
        BY <2>1, <2>3, <3>4, <1>1, ConcatThree
      <3>6. Written' = file'
        BY <2>1, <3>5 DEF Written
      <3>7. NoRestart(Written, RunsEndWith) => NoRestart(Written', RunsEndWith)
        BY <3>3, <3>5, <3>6, <1>1, InnerKeeps
      <3>8. Ended(Written', RunsEndWith)
        <4>1. /\ Len(Written \o Ending) = Len(Written) + Len(Ending)
              /\ (Written \o Ending)[Len(Written) + Len(Ending)] = Ending[Len(Ending)]
          BY <3>3, <3>4, <1>1, ConcatProperties
        <4> QED BY <4>1, <3>3, <3>5, <3>6 DEF Ended, RunsEndWith
      <3> QED BY <3>7, <3>8, <2>1 DEF WholeInv, RunsEndWith
    <2> QED BY <2>2, <2>3
  <1>7. CASE Flush
    <2>1. PICK n \in 1 .. Len(buffer) :
             /\ file' = file \o SubSeq(buffer, 1, n)
             /\ buffer' = SubSeq(buffer, n + 1, Len(buffer))
      BY <1>7 DEF Flush
    <2> DEFINE done == SubSeq(buffer, 1, n)
               rest == SubSeq(buffer, n + 1, Len(buffer))
    <2>2. done \in Seq(Pieces) /\ rest \in Seq(Pieces) /\ done \o rest = buffer
      BY <1>1
    <2>3. Written' = Written
      <3> HIDE DEF done, rest
      <3>1. file' = file \o done /\ buffer' = rest
        BY <2>1 DEF done, rest
      <3>2. file \in Seq(Pieces)
        BY <1>1
      <3>3. (file \o done) \o rest = file \o (done \o rest)
        BY <3>2, <2>2, ConcatThree
      <3> QED BY <3>1, <3>3, <2>2 DEF Written
    <2>4. UNCHANGED <<is_open, phase, crashes, abandoned>>
      BY <1>7 DEF Flush, state
    <2> QED BY <2>3, <2>4 DEF WholeInv, RunsEndWith
  <1>8. CASE Crash
    <2>1. crashes' = crashes + 1 /\ ~is_open'
      BY <1>8 DEF Crash
    <2> QED BY <2>1 DEF WholeInv
  <1>9. CASE UNCHANGED gpxVars
    BY <1>9 DEF gpxVars, state, WholeInv, Written, RunsEndWith
  <1> QED BY <1>2, <1>3, <1>4, <1>5, <1>6, <1>7, <1>8, <1>9 DEF GpxNext

\* As long as nothing crashes, every run that reaches the loop leaves a whole
\* document, because close() ends what is open, and a run that main() returns from
\* before it leaves the bare header (CleanRunsAreWhole).
THEOREM TracksWhole == GpxSpec => []CleanRunsAreWhole
  <1>1. GpxInv /\ WholeInv => CleanRunsAreWhole
    <2> SUFFICES ASSUME GpxInv, WholeInv, crashes = 0 PROVE CleanRunsAreWhole
      BY DEF CleanRunsAreWhole
    <2>1. file \in Seq(Pieces) /\ buffer \in Seq(Pieces)
      BY DEF GpxInv, FileTypes
    <2>2. NoRestart(file, RunsEndWith)
      BY <2>1, PrefixNoRestart DEF WholeInv, Written
    <2>3. ASSUME phase = "down", file # <<>> PROVE file[Len(file)] \in RunsEndWith
      <3>1. ~is_open /\ buffer = <<>>
        BY <2>3 DEF WholeInv, GpxInv, FlagsNest
      <3>2. Written = file
        BY <3>1, <2>1 DEF Written
      <3> QED BY <2>3, <3>1, <3>2 DEF WholeInv, Ended
    <2> QED BY <2>2, <2>3 DEF CleanRunsAreWhole, NoRestart
  <1> QED BY <1>1, GpxInvInit, GpxInvNext, WholeInvInit, WholeInvNext, PTL DEF GpxSpec
=============================================================================
