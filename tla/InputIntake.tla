---------------------------- MODULE InputIntake ----------------------------
(***************************************************************************)
(* How bytes get into the program and what bounds them: file_identity and   *)
(* read_bounded (src/src/analyzer.rs), JarArchive::open and read, and       *)
(* decompress_raw_lzma2 with its LimitedWriter (src/src/archive.rs).        *)
(*                                                                          *)
(* The input is opened twice by path, once to hash it and once to read it,  *)
(* and another process may write to it all the while.  A file is a sequence *)
(* of blocks; the hash is taken to be injective.                            *)
(***************************************************************************)
EXTENDS Integers, Sequences

CONSTANTS
  Blocks,      \* contents of one block
  MaxInput,    \* --max-input-mib, in blocks
  MaxEntry,    \* --max-entry-mib
  MaxDecoded,  \* --max-decoded-mib
  MaxFile,     \* bound of the model: blocks of the file
  MaxWrites    \* bound of the model: writes by the other process

ASSUME LimitsAssumption ==
  {MaxInput, MaxEntry, MaxDecoded, MaxFile, MaxWrites} \subseteq Nat

VARIABLES
  kind,     \* "pe" or "jar", from the extension of the path
  file,     \* contents of the input file now
  writes,   \* writes of the other process so far
  pc,       \* "stat", "hash", "reopen", "read", "check", "archive", "member",
            \* "decode", "accepted" or "refused"
  size,     \* the length the first metadata() call gave: input_size
  hashed,   \* blocks fed to the hasher: input_sha256
  bytes,    \* blocks read for the analysis
  member,   \* the resource member of the archive
  resource, \* size of what JarArchive::read returned for it
  stream,   \* size to which that resource decodes
  decoded   \* size of the LimitedWriter

vars == <<kind, file, writes, pc, size, hashed, bytes, member, resource, stream, decoded>>

Files == UNION {[1..n -> Blocks] : n \in 0..MaxFile}

\* A ZIP header declares a size and a name; the data may expand to another size.
Member == [safe : BOOLEAN, declared : 0..(MaxEntry + 1), actual : 0..(MaxEntry + 2)]
NoMember == [safe |-> TRUE, declared |-> 0, actual |-> 0]

Smaller(m, n) == IF m < n THEN m ELSE n

Init == /\ kind \in {"pe", "jar"}
        /\ file \in Files
        /\ writes = 0
        /\ pc = "stat"
        /\ size = 0
        /\ hashed = <<>>
        /\ bytes = <<>>
        /\ member = NoMember
        /\ resource = 0
        /\ stream = 0
        /\ decoded = 0

\* Another process overwrites a block, appends one or truncates the file.
ExternalWrite ==
  /\ writes < MaxWrites
  /\ writes' = writes + 1
  /\ \/ \E i \in DOMAIN file, b \in Blocks : file' = [file EXCEPT ![i] = b]
     \/ \E b \in Blocks : Len(file) < MaxFile /\ file' = Append(file, b)
     \/ \E n \in 0..Len(file) : file' = SubSeq(file, 1, n)
  /\ UNCHANGED <<kind, pc, size, hashed, bytes, member, resource, stream, decoded>>

-----------------------------------------------------------------------------
\* file_identity: metadata, then the limit.
Stat == /\ pc = "stat"
        /\ size' = Len(file)
        /\ pc' = IF Len(file) <= MaxInput THEN "hash" ELSE "refused"
        /\ UNCHANGED <<kind, file, writes, hashed, bytes, member, resource, stream, decoded>>

\* One read of the hashing loop; read = 0 ends it.
HashBlock == /\ pc = "hash"
             /\ Len(hashed) < Len(file)
             /\ hashed' = Append(hashed, file[Len(hashed) + 1])
             /\ UNCHANGED <<kind, file, writes, pc, size, bytes, member, resource, stream, decoded>>

\* Mutant of HashEnds: after one read.
HashEndsEarly == /\ pc = "hash"
                 /\ Len(hashed) >= Smaller(1, Len(file))
                 /\ pc' = "reopen"
                 /\ UNCHANGED <<kind, file, writes, size, hashed, bytes, member, resource,
                                stream, decoded>>

HashEnds == /\ pc = "hash"
            /\ Len(hashed) >= Len(file)
            /\ pc' = "reopen"
            /\ UNCHANGED <<kind, file, writes, size, hashed, bytes, member, resource, stream, decoded>>

\* read_bounded and JarArchive::open look at the size of the reopened file.
Reopen == /\ pc = "reopen"
          /\ pc' = IF Len(file) <= MaxInput THEN "read" ELSE "refused"
          /\ UNCHANGED <<kind, file, writes, size, hashed, bytes, member, resource, stream, decoded>>

\* Mutant of Readable: no take.
ReadableAll == Len(bytes) < Len(file)

\* Only read_bounded puts take(limit + 1) in front of read_to_end.
Readable == /\ Len(bytes) < Len(file)
            /\ kind = "pe" => Len(bytes) < MaxInput + 1

ReadBlock == /\ pc = "read"
             /\ Readable
             /\ bytes' = Append(bytes, file[Len(bytes) + 1])
             /\ UNCHANGED <<kind, file, writes, pc, size, hashed, member, resource, stream, decoded>>

ReadEnds == /\ pc = "read"
            /\ ~Readable
            /\ pc' = IF kind = "pe" THEN "check" ELSE "archive"
            /\ UNCHANGED <<kind, file, writes, size, hashed, bytes, member, resource, stream, decoded>>

\* read_bounded: "input grew while being read".
CheckLength == /\ pc = "check"
               /\ pc' = IF Len(bytes) <= MaxInput THEN "accepted" ELSE "refused"
               /\ UNCHANGED <<kind, file, writes, size, hashed, bytes, member, resource, stream, decoded>>

-----------------------------------------------------------------------------
\* JarArchive::open checks the name and the declared size of every member; one
\* stands for them all.
OpenArchive == /\ pc = "archive"
               /\ member' \in Member
               /\ pc' = IF member'.safe /\ member'.declared <= MaxEntry
                          THEN "member" ELSE "refused"
               /\ UNCHANGED <<kind, file, writes, size, hashed, bytes, resource, stream, decoded>>

\* Mutant of ReadMember: take(limit) hides the byte that is too much.
ReadMemberTruncated == /\ pc = "member"
                       /\ resource' = Smaller(member.actual, MaxEntry)
                       /\ stream' \in 0..(MaxDecoded + 2)
                       /\ pc' = IF resource' <= MaxEntry THEN "decode" ELSE "refused"
                       /\ UNCHANGED <<kind, file, writes, size, hashed, bytes, member, decoded>>

\* JarArchive::read stops one byte after the limit and then refuses.
ReadMember == /\ pc = "member"
              /\ resource' = Smaller(member.actual, MaxEntry + 1)
              /\ stream' \in 0..(MaxDecoded + 2)
              /\ pc' = IF resource' <= MaxEntry THEN "decode" ELSE "refused"
              /\ UNCHANGED <<kind, file, writes, size, hashed, bytes, member, decoded>>

\* LimitedWriter::write takes a whole chunk or none of it.
WriteChunk == /\ pc = "decode"
              /\ \E n \in 1..(stream - decoded) :
                   IF decoded + n <= MaxDecoded
                     THEN decoded' = decoded + n /\ pc' = pc
                     ELSE decoded' = decoded /\ pc' = "refused"
              /\ UNCHANGED <<kind, file, writes, size, hashed, bytes, member, resource, stream>>

DecodeEnds == /\ pc = "decode"
              /\ decoded = stream
              /\ pc' = "accepted"
              /\ UNCHANGED <<kind, file, writes, size, hashed, bytes, member, resource, stream, decoded>>

\* "invalid raw LZMA2 stream".
DecodeFails == /\ pc = "decode"
               /\ pc' = "refused"
               /\ UNCHANGED <<kind, file, writes, size, hashed, bytes, member, resource, stream, decoded>>

Terminated == pc \in {"accepted", "refused"} /\ UNCHANGED vars

Intake == \/ Stat \/ HashBlock \/ HashEnds \/ Reopen
          \/ ReadBlock \/ ReadEnds \/ CheckLength
          \/ OpenArchive \/ ReadMember \/ WriteChunk \/ DecodeEnds \/ DecodeFails

Next == Intake \/ ExternalWrite \/ Terminated

Spec == Init /\ [][Next]_vars

-----------------------------------------------------------------------------
TypeOK == /\ kind \in {"pe", "jar"}
          /\ file \in Files
          /\ writes \in 0..MaxWrites
          /\ pc \in {"stat", "hash", "reopen", "read", "check", "archive", "member",
                     "decode", "accepted", "refused"}
          /\ size \in 0..MaxFile
          /\ hashed \in Files
          /\ bytes \in Files
          /\ member \in Member
          /\ resource \in 0..(MaxEntry + 1)
          /\ stream \in 0..(MaxDecoded + 2)
          /\ decoded \in 0..MaxDecoded

\* The limit holds for what is accepted, whatever is appended during the reads: a raw
\* PE never costs more than one block over it (take(limit + 1) and the check after
\* it), and an archive passes it only by growing after its size was checked.
LimitUnlessArchiveGrew ==
  /\ kind = "pe" => Len(bytes) <= MaxInput + 1
  /\ pc = "accepted" /\ Len(bytes) > MaxInput => kind = "jar" /\ writes > 0

\* What the report calls the input's size and SHA-256 belongs to the bytes that
\* were analysed, for an input that nobody touched between the two openings.
IdentityOfQuietInput == pc = "accepted" /\ writes = 0 =>
                          size = Len(bytes) /\ hashed = bytes

\* A resource goes on to the PE search only if it fits its limit before decoding
\* and is complete after it: neither a member whose header lies about its size
\* nor a refused chunk leaves a truncated payload.
PayloadWhole == kind = "jar" /\ pc = "accepted" =>
                  /\ resource = member.actual
                  /\ member.actual <= MaxEntry
                  /\ decoded = stream
                  /\ stream <= MaxDecoded
=============================================================================
