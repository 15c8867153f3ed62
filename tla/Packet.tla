------------------------------- MODULE Packet -------------------------------
(***************************************************************************)
(* UnstructuredBuffer (common/misc/packetize.h, packetize.cc): the two     *)
(* ends of a message put and get fields by size alone, so a field reaches  *)
(* the other end only if both list the same sizes in the same order.       *)
(* A field is its meaning and its size in bytes (x86_64); the bytes        *)
(* themselves are left out.                                                *)
(***************************************************************************)
EXTENDS Naturals, Sequences, SequencesExt

Int32(name) == <<name, 4>>    \* int, UInt32, pid_t
Int64(name) == <<name, 8>>    \* UInt64, IntPtr, size_t, off_t, a pointer
Buf(name, n) == <<name, n>>    \* make_pair(buffer, n)

\* UnstructuredBuffer::size.
size(fields) == FoldLeft(LAMBDA n, f : n + f[2], 0, fields)

\* get(T& data): the next sizeof(T) bytes.  They are field i of the packet if
\* the fields up to it have the same sizes on both sides.
Got(packet, gets, i) ==
  IF i <= Len(packet) /\ \A j \in 1..i : packet[j][2] = gets[j][2]
  THEN packet[i][1] ELSE "garbage"

\* Every variable the receiver fills is the field the sender meant.
Understood(packet, gets) ==
  \A i \in DOMAIN gets : gets[i][2] > 0 => Got(packet, gets, i) = gets[i][1]
=============================================================================
