---------------------------- MODULE OutputStream ----------------------------
(***************************************************************************)
(* NOStream of the third experiment (src/asm/ostreams.c): the stream the   *)
(* emitter writes a program to.  It gathers bytes in a buffer; a stream on *)
(* a file writes the buffer out when the next bytes do not fit.  Writing   *)
(* to the file may fail after a part of it was written, and closing the    *)
(* file may fail as well.                                                  *)
(*                                                                         *)
(* Bytes are numbered in the order in which the client offers them, so     *)
(* that a byte lost, repeated or out of place shows.                       *)
(***************************************************************************)
EXTENDS Integers, Sequences

CONSTANTS
  MinBufferSize,   (* N_OSTREAM_MIN_BUFFER_SIZE                           *)
  Sizes,           (* the buffer sizes clients ask for                    *)
  Lengths,         (* how many bytes a client writes in one call          *)
  MaxBytes,        (* bound: the bytes offered to the stream              *)
  MaxFailures      (* bound: the failures of fwrite and fclose            *)

ASSUME StreamAssumption ==
  /\ MinBufferSize \in Nat
  /\ Sizes \subseteq Nat
  /\ Lengths \subseteq Nat
  /\ MaxBytes \in Nat
  /\ MaxFailures \in Nat

VARIABLES
  created,    (* a constructor has returned a stream                       *)
  size,       (* size of the buffer                                        *)
  buffer,     (* buffer[0] .. buffer[cursor - 1]                           *)
  file,       (* "open", or "NULL" for a memory stream and a closed one    *)
  disk,       (* what the file at the path holds once it is closed         *)
  error,      (* the type of the client's NError                           *)
  offered,    (* number of the last byte of the last write                 *)
  accepted,   (* the bytes that were copied into the buffer                *)
  failures    (* how often fwrite or fclose have failed                    *)

stream == << created, size, buffer, file >>
vars == << created, size, buffer, file, disk, error, offered, accepted,
           failures >>

Errors == { "Ok", "BadAllocation", "IOError", "BufferTooSmall" }

(* What an earlier program left at the path. *)
Old == << 0 >>

Maximum(a, b) == IF a < b THEN b ELSE a

Init ==
  /\ created = FALSE /\ size = 0 /\ buffer = << >> /\ file = "NULL"
  /\ disk = Old
  /\ error = "Ok"
  /\ offered = 0 /\ accepted = << >> /\ failures = 0

(* ni_new_ostream_on_buffer: does not look at the error it is given. *)
NewOnBuffer ==
  \E requested \in Sizes, mem \in BOOLEAN :
    /\ ~created
    /\ created' = mem
    /\ size' = IF mem THEN requested ELSE size
    /\ error' = IF mem THEN error ELSE "BadAllocation"
    /\ UNCHANGED << buffer, file, disk, offered, accepted, failures >>

(* ni_new_memory_ostream: an error from before frees what was allocated. *)
NewMemory ==
  \E requested \in Sizes, mem \in BOOLEAN :
    /\ ~created
    /\ created' = (mem /\ error = "Ok")
    /\ size' = IF created' THEN Maximum(requested, MinBufferSize) ELSE size
    /\ error' = IF mem THEN error ELSE "BadAllocation"
    /\ UNCHANGED << buffer, file, disk, offered, accepted, failures >>

(* ni_new_file_ostream: the file is emptied before memory is asked for, and *)
(* closed again if there is none or there was an error before.              *)
NewFile ==
  \E requested \in Sizes, opens, mem \in BOOLEAN :
    /\ ~created
    /\ created' = (opens /\ mem /\ error = "Ok")
    /\ size' = IF created' THEN Maximum(requested, MinBufferSize) ELSE size
    /\ file' = IF created' THEN "open" ELSE "NULL"
    /\ disk' = IF opens THEN << >> ELSE disk
    /\ error' = IF ~opens THEN "IOError"
                ELSE IF mem THEN error ELSE "BadAllocation"
    /\ UNCHANGED << buffer, offered, accepted, failures >>

-----------------------------------------------------------------------------
(* fwrite may stop anywhere; the call fails unless all bytes are taken. *)
Fwrites ==
  { taken \in 0 .. Len(buffer) : taken < Len(buffer) => failures < MaxFailures }

(* Slip: the cursor is not reset. *)
FlushesKeeping ==
  IF file = "NULL" \/ buffer = << >>
  THEN { [disk |-> disk, buffer |-> buffer, fails |-> 0] }
  ELSE { [disk   |-> disk \o SubSeq(buffer, 1, taken),
          buffer |-> buffer,
          fails  |-> IF taken = Len(buffer) THEN 0 ELSE 1] : taken \in Fwrites }

(* What ni_ostream_flush can come to.  After a failure all of the buffer is *)
(* still there: the next flush writes its beginning a second time.          *)
Flushes ==
  IF file = "NULL" \/ buffer = << >>
  THEN { [disk |-> disk, buffer |-> buffer, fails |-> 0] }
  ELSE { [disk   |-> disk \o SubSeq(buffer, 1, taken),
          buffer |-> IF taken = Len(buffer) THEN << >> ELSE buffer,
          fails  |-> IF taken = Len(buffer) THEN 0 ELSE 1] : taken \in Fwrites }

ErrorAfter(flush) == IF flush.fails = 0 THEN error ELSE "IOError"

Flush ==
  \E flush \in Flushes :
    /\ created
    /\ disk' = flush.disk
    /\ buffer' = flush.buffer
    /\ error' = ErrorAfter(flush)
    /\ failures' = failures + flush.fails
    /\ UNCHANGED << created, size, file, offered, accepted >>

(* Slip: the cursor is not looked at. *)
FitsEmpty(bytes, count) == count <= size

(* can_insert_element *)
Fits(bytes, count) == count <= size - Len(bytes)

(* The bytes of the next write. *)
Data(count) == [ i \in 1 .. count |-> offered + i ]

Insert(bytes, count) ==
  /\ buffer' = bytes \o Data(count)
  /\ accepted' = accepted \o Data(count)

(* Slip: a full buffer is reported without flushing it. *)
WriteWithoutFlush(count) ==
  /\ IF Fits(buffer, count)
     THEN /\ Insert(buffer, count)
          /\ UNCHANGED error
     ELSE /\ error' = "BufferTooSmall"
          /\ UNCHANGED << buffer, accepted >>
  /\ UNCHANGED << disk, failures >>

(* ni_ostream_write_data, which all ni_ostream_write_* call.  Where the     *)
(* buffer has to be flushed an error from before is taken for the flush's.  *)
Write(count) ==
  \/ /\ Fits(buffer, count)
     /\ Insert(buffer, count)
     /\ UNCHANGED << disk, error, failures >>
  \/ \E flush \in Flushes :
       /\ ~Fits(buffer, count)
       /\ disk' = flush.disk
       /\ failures' = failures + flush.fails
       /\ \/ /\ ErrorAfter(flush) # "Ok"
             /\ error' = ErrorAfter(flush)
             /\ buffer' = flush.buffer
             /\ UNCHANGED accepted
          \/ /\ ErrorAfter(flush) = "Ok"
             /\ ~Fits(flush.buffer, count)
             /\ error' = "BufferTooSmall"
             /\ buffer' = flush.buffer
             /\ UNCHANGED accepted
          \/ /\ ErrorAfter(flush) = "Ok"
             /\ Fits(flush.buffer, count)
             /\ Insert(flush.buffer, count)
             /\ UNCHANGED error

WriteData ==
  \E count \in Lengths :
    /\ created
    /\ offered + count <= MaxBytes
    /\ offered' = offered + count
    /\ Write(count)
    /\ UNCHANGED << created, size, file >>

(* fclose: when it fails the end of what was written may not be there. *)
Fclose(written) ==
  /\ file' = "NULL"
  /\ \/ /\ disk' = written
        /\ UNCHANGED << error, failures >>
     \/ /\ failures < MaxFailures
        /\ \E kept \in 0 .. Len(written) : disk' = SubSeq(written, 1, kept)
        /\ error' = "IOError"
        /\ failures' = failures + 1

(* Slip: no flush before closing. *)
CloseUnflushed ==
  /\ created
  /\ IF file = "NULL"
     THEN UNCHANGED << file, disk, error, failures >>
     ELSE Fclose(disk)
  /\ UNCHANGED << created, size, buffer, offered, accepted >>

(* ni_ostream_close: with an error, of the flush or from before, the file   *)
(* is left open.                                                            *)
Close ==
  \E flush \in Flushes :
    /\ created
    /\ buffer' = flush.buffer
    /\ IF file = "NULL"
       THEN UNCHANGED << file, disk, error, failures >>
       ELSE IF ErrorAfter(flush) # "Ok"
       THEN /\ disk' = flush.disk
            /\ error' = ErrorAfter(flush)
            /\ failures' = failures + flush.fails
            /\ UNCHANGED file
       ELSE Fclose(flush.disk)
    /\ UNCHANGED << created, size, offered, accepted >>

(* n_error_reset, or a new NError for the next call. *)
ClientResetsError ==
  /\ error # "Ok"
  /\ error' = "Ok"
  /\ UNCHANGED << created, size, buffer, file, disk, offered, accepted,
                  failures >>

Next ==
  \/ NewOnBuffer
  \/ NewMemory
  \/ NewFile
  \/ WriteData
  \/ Flush
  \/ Close
  \/ ClientResetsError

Spec == Init /\ [][Next]_vars

-----------------------------------------------------------------------------
(* A stream that could not be constructed has no file open and no bytes. *)
TypeOK ==
  /\ created \in BOOLEAN
  /\ size \in Nat
  /\ buffer \in Seq(Nat)
  /\ file \in { "open", "NULL" }
  /\ disk \in Seq(Nat)
  /\ error \in Errors
  /\ offered \in Nat
  /\ accepted \in Seq(Nat)
  /\ failures \in Nat
  /\ ~created => file = "NULL" /\ buffer = << >> /\ accepted = << >>

(* ni_ostream_write_data never copies beyond the end of the buffer. *)
BufferInBounds == Len(buffer) <= size

(* What this stream has written to its file. *)
Written == IF disk = Old THEN << >> ELSE disk

(* As long as the file works, whatever errors there are of other kinds, the *)
(* file and the buffer together hold the bytes accepted: once each, in      *)
(* order, and none of a write that was refused.                             *)
ExactUntilFailure == failures = 0 => Written \o buffer = accepted

(* seq can be had from longer by leaving elements out. *)
IsSubsequence(seq, longer) ==
  LET found[i \in 0 .. Len(longer)] ==
        IF i = 0 THEN 0
        ELSE LET sofar == found[i - 1]
             IN  IF sofar < Len(seq) /\ seq[sofar + 1] = longer[i]
                 THEN sofar + 1 ELSE sofar
  IN  found[Len(longer)] = Len(seq)

(* When ni_ostream_close closes the file and reports nothing, every byte    *)
(* accepted is in the file, in order, also if a write failed half-way       *)
(* before and was repeated; in that case there may be bytes twice.          *)
CloseDelivers ==
  [][ file = "open" /\ file' = "NULL" /\ error' = "Ok" =>
        /\ IsSubsequence(accepted, disk')
        /\ failures = 0 => disk' = accepted ]_vars

(* The comment in ni_ostream_write_data: BufferTooSmall means a stream in   *)
(* memory (or closed), or bytes that an empty buffer would not hold.        *)
TooSmallIsHonest ==
  [][ error # "BufferTooSmall" /\ error' = "BufferTooSmall" =>
        file = "NULL" \/ offered' - offered > size ]_vars
=============================================================================
