------------------------------- MODULE FlvWriter -------------------------------
(***************************************************************************)
(* The FLV files that RTPDump writes through srs-librtmp, down to the      *)
(* write() calls: srs_flv_open_write, srs_flv_write_header,                *)
(* srs_flv_write_tag and srs_flv_close on a disk that others use as well   *)
(* and that may be full, in a process that may die between two calls.      *)
(* A write() to a disk with little room writes a part and says how much;   *)
(* SrsFileWriter::write takes that for success.                            *)
(*                                                                         *)
(* All files are written by T2, so one call ends before the next begins.   *)
(* A file is a sequence of cells, each of one tag: cells of its header,    *)
(* its data, and the previous tag size that follows it.  ReadTags is the   *)
(* decoder of the same library, for what a reader gets back.               *)
(***************************************************************************)
EXTENDS Integers, SequencesExt

CONSTANTS
  Files,       (* File names, one for each recorder.                          *)
  Own,         (* Other descriptors of the process: 0, 1, 2.                  *)
  HeadLen,     (* Cells of a tag header.                                      *)
  SizeLen,     (* Cells of a previous tag size.                               *)
  DataLens,    (* Lengths of tag data.                                        *)
  MaxTags,     (* Bound: tags for a file.                                     *)
  MaxRoom      (* Bound: cells that the disk has room for.                    *)

ASSUME WriterAssumption ==
  /\ Own \subseteq Nat /\ IsFiniteSet(Own)
  /\ HeadLen \in Nat \ {0} /\ SizeLen \in Nat \ {0}
  /\ DataLens \subseteq Nat \ {0}
  /\ MaxTags \in Nat /\ MaxRoom \in Nat

VARIABLES
  fd,      (* fd of each file's SrsFileWriter, -1 without one.                *)
  opened,  (* The process's open descriptors.                                 *)
  own,     (* Those of them that are not a recorder's.                        *)
  job,     (* The call in progress on each file: its tag, the length of its   *)
           (* data, and the iovecs that are left.                             *)
  disk,    (* What is in each file.                                           *)
  room,    (* Cells that the disk has left.                                   *)
  tags,    (* Tags that were begun on each file.                              *)
  clean,   (* Is everything in the file written whole?                        *)
  whole    (* Tags whose call returned 0 while it was.                        *)

vars == <<fd, opened, own, job, disk, room, tags, clean, whole>>

NoJob == [tag |-> 0, len |-> 0, iovs |-> <<>>]

Init ==
  /\ fd = [f \in Files |-> -1]
  /\ opened = Own /\ own = Own
  /\ job = [f \in Files |-> NoJob]
  /\ disk = [f \in Files |-> <<>>]
  /\ room \in 0..MaxRoom
  /\ tags = [f \in Files |-> 0]
  /\ clean = [f \in Files |-> FALSE]
  /\ whole = [f \in Files |-> <<>>]

Idle == \A f \in Files : job[f] = NoJob

-------------------------------------------------------------------------------
(* Layout.                                                                 *)

Cells(tag, part, says, n) ==
  [k \in 1..n |-> [tag |-> tag, part |-> part, says |-> says, at |-> k]]

(* Mutant: the data size of a tag counts its header.                       *)
DataSizeOfTag(len) == len + HeadLen
DataSize(len) == len

HeaderIovs == <<Cells(0, "flv", 0, HeadLen), Cells(0, "size", 0, SizeLen)>>
TagIovs(tag, len) ==
  <<Cells(tag, "head", DataSize(len), HeadLen), Cells(tag, "data", 0, len), Cells(tag, "size", 0, SizeLen)>>

(* What srs_flv_read_header and srs_flv_read_tag_* get from file contents  *)
(* d: the tags, up to the first place where there is no tag.  A read at    *)
(* the end of the file fails, a short one does not.                        *)
TagAt(d, p) == d[p].tag
LenAt(d, p) == d[p].says

HeadAt(d, p) ==
  /\ p + HeadLen - 1 <= Len(d)
  /\ \A k \in 1..HeadLen : /\ d[p + k - 1].part = "head"
                           /\ d[p + k - 1].at = k
                           /\ d[p + k - 1].tag = TagAt(d, p)

DataAt(d, p, tag, len) ==
  \A k \in 1..len : /\ d[p + k - 1].part = "data"
                    /\ d[p + k - 1].at = k
                    /\ d[p + k - 1].tag = tag

(* The tags from each position on.                                         *)
TagsFrom(d) ==
  LET from[p \in Nat \ {0}] ==
        IF /\ HeadAt(d, p)
           /\ p + HeadLen + LenAt(d, p) <= Len(d)
           /\ DataAt(d, p + HeadLen, TagAt(d, p), LenAt(d, p))
        THEN <<[tag |-> TagAt(d, p), len |-> LenAt(d, p)]>>
             \o from[p + HeadLen + LenAt(d, p) + SizeLen]
        ELSE <<>>
  IN  from

ReadTags(d) ==
  LET start == HeadLen + SizeLen
  IN  IF start <= Len(d) /\ SubSeq(d, 1, HeadLen) = HeaderIovs[1]
      THEN TagsFrom(d)[start + 1] ELSE <<>>

-------------------------------------------------------------------------------
(* The lowest free descriptor.                                             *)
FreeFd == CHOOSE n \in 0..Cardinality(opened) :
            n \notin opened /\ \A m \in 0..(n - 1) : m \in opened

(* Mutant: the destructor does not close descriptor 0, which is_open does  *)
(* not count as open either.                                               *)
ClosesPositive(n) == n > 0
Closes(n) == n >= 0

AfterClose(n, descriptors) == IF Closes(n) THEN descriptors \ {n} ELSE descriptors

(* srs_flv_open_write empties the file.  A writer with descriptor 0 is not *)
(* `open' for the encoder: it is closed again and the caller gets NULL.    *)
(* Otherwise initFLVHeader goes on with srs_flv_write_header.              *)
OpenWrite(f) ==
  /\ Idle /\ fd[f] = -1
  /\ disk' = [disk EXCEPT ![f] = <<>>]
  /\ room' = room + Len(disk[f])
  /\ tags' = [tags EXCEPT ![f] = 0]
  /\ whole' = [whole EXCEPT ![f] = <<>>]
  /\ clean' = [clean EXCEPT ![f] = TRUE]
  /\ IF FreeFd > 0
     THEN /\ fd' = [fd EXCEPT ![f] = FreeFd]
          /\ opened' = opened \cup {FreeFd}
          /\ job' = [job EXCEPT ![f].iovs = HeaderIovs]
     ELSE /\ opened' = AfterClose(FreeFd, opened \cup {FreeFd})
          /\ UNCHANGED <<fd, job>>
  /\ UNCHANGED own

(* srs_flv_write_tag.                                                      *)
WriteTag(f, len) ==
  /\ Idle /\ fd[f] > 0
  /\ tags[f] < MaxTags
  /\ tags' = [tags EXCEPT ![f] = @ + 1]
  /\ job' = [job EXCEPT ![f] = [tag |-> tags'[f], len |-> len, iovs |-> TagIovs(tags'[f], len)]]
  /\ UNCHANGED <<fd, opened, own, disk, room, clean, whole>>

Untouched(j) == j.tag # 0 /\ Len(j.iovs) = 3

(* One write(): all of an iovec, or what there is room for.                *)
Write(f) ==
  /\ job[f].iovs # <<>>
  /\ room > 0
  /\ LET iov == Head(job[f].iovs)
         n == IF Len(iov) <= room THEN Len(iov) ELSE room
         rest == Tail(job[f].iovs)
         this == [tag |-> job[f].tag, len |-> job[f].len]
         returns == rest = <<>> /\ job[f].tag # 0
     IN  /\ disk' = [disk EXCEPT ![f] = @ \o SubSeq(iov, 1, n)]
         /\ room' = room - n
         /\ clean' = [clean EXCEPT ![f] = @ /\ n = Len(iov)]
         /\ job' = [job EXCEPT ![f] = IF rest = <<>> THEN NoJob ELSE [@ EXCEPT !.iovs = rest]]
         /\ whole' = [whole EXCEPT ![f] = IF returns /\ clean'[f] THEN Append(@, this) ELSE @]
  /\ UNCHANGED <<fd, opened, own, tags>>

(* write() to a full disk fails, and the call with it; RTPDump logs that.  *)
(* When nothing of the tag was written before, the file is as it was.      *)
WriteFails(f) ==
  /\ job[f].iovs # <<>>
  /\ room = 0
  /\ job' = [job EXCEPT ![f] = NoJob]
  /\ clean' = [clean EXCEPT ![f] = @ /\ Untouched(job[f])]
  /\ UNCHANGED <<fd, opened, own, disk, room, tags, whole>>

(* srs_flv_close.                                                          *)
Close(f) ==
  /\ Idle /\ fd[f] > 0
  /\ opened' = AfterClose(fd[f], opened)
  /\ fd' = [fd EXCEPT ![f] = -1]
  /\ UNCHANGED <<own, job, disk, room, tags, clean, whole>>

(* The process dies and is started again; its files are as they were.      *)
Crash ==
  /\ fd' = [f \in Files |-> -1]
  /\ opened' = Own /\ own' = Own
  /\ job' = [f \in Files |-> NoJob]
  /\ UNCHANGED <<disk, room, tags, clean, whole>>

(* Others fill the disk and free it.                                       *)
Others ==
  /\ room' \in 0..MaxRoom
  /\ UNCHANGED <<fd, opened, own, job, disk, tags, clean, whole>>

(* The process closes its standard input, as a daemon does, and whatever   *)
(* it opens next gets that descriptor.                                     *)
StandardInput ==
  /\ \/ 0 \in own /\ own' = own \ {0} /\ opened' = opened \ {0}
     \/ 0 \notin opened /\ own' = own \cup {0} /\ opened' = opened \cup {0}
  /\ UNCHANGED <<fd, job, disk, room, tags, clean, whole>>

Next ==
  \/ \E f \in Files : \/ OpenWrite(f) \/ Write(f) \/ WriteFails(f) \/ Close(f)
                      \/ \E len \in DataLens : WriteTag(f, len)
  \/ Crash \/ Others \/ StandardInput

Spec == Init /\ [][Next]_vars

-------------------------------------------------------------------------------
(* What srs_flv_write_tag wrote and answered with 0 before the first short *)
(* or failed write() is read back in that order, whatever is written after *)
(* it, also when the process dies in the middle of a tag.  And as long as  *)
(* there was none, a reader gets nothing else: a tag without its size      *)
(* field is not read.                                                      *)
ReadsBack ==
  \A f \in Files :
    /\ IsPrefix(whole[f], ReadTags(disk[f]))
    /\ clean[f] => ReadTags(disk[f]) = whole[f]

(* Opening, closing and failing leave the process with the descriptors of  *)
(* its open files and no other, also where it has none at 0.               *)
NoDescriptorLost == opened = own \cup {fd[f] : f \in {g \in Files : fd[g] >= 0}}
===============================================================================
