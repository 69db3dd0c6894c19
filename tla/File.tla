---------------------------------- MODULE File ----------------------------------
(***************************************************************************)
(* OOBase::File on POSIX (src/File.cpp) and the SmartFD that holds its     *)
(* descriptor (include/OOBase/Posix.h, src/Posix.cpp): opening, positions, *)
(* and mapping parts of a file into memory.  There is one file on disk.    *)
(***************************************************************************)
EXTENDS Integers, FiniteSets

CONSTANTS
  Files,        \* objects of class File
  Descriptors,  \* the numbers that the kernel gives out, lowest first
  PageSize,
  Pages,        \* pages of address space
  MaxSize       \* bound: the length of the file

VARIABLES
  size,         \* length of the file, None while there is none
  table,        \* the kernel's [Descriptors -> Closed or [pos, writeable, owner]]
  fd,           \* [Files -> m_fd]
  page,         \* [page of address space -> page of the file, or None]
  maps,         \* mappings held: [at |-> address, offset, length]
  failed        \* history: a close() has failed, which frees the number all the same

vars == <<size, table, fd, page, maps, failed>>

None == -1
Nobody == "nobody"
Client == "client"   \* descriptors held by others than a SmartFD
Closed == [pos |-> None, writeable |-> FALSE, owner |-> Nobody]

Init ==
  /\ size \in {None, MaxSize}
  /\ table = [d \in Descriptors |-> Closed]
  /\ fd = [f \in Files |-> None]
  /\ page = [p \in 0 .. Pages - 1 |-> None]
  /\ maps = {} /\ failed = FALSE

IsOpen(d) == d \in Descriptors /\ table[d] # Closed
Lowest == CHOOSE d \in Descriptors : ~IsOpen(d) /\ \A e \in Descriptors : e < d => IsOpen(e)

\* POSIX::open(), which goes on while it is interrupted.
CanOpen(writeable) == (size # None \/ writeable) /\ \E d \in Descriptors : ~IsOpen(d)
Opened(writeable, owner) == [pos |-> 0, writeable |-> writeable, owner |-> owner]
Lost(d) == IF IsOpen(d) THEN Opened(FALSE, Nobody) ELSE Closed   \* its position matters no more

\* SmartFD::operator=(int) does not close what was held: that descriptor is lost,
\* also when open() fails.
Open(f, writeable) ==
  /\ IF CanOpen(writeable)
     THEN /\ table' = [d \in Descriptors |->
                         IF d = Lowest THEN Opened(writeable, f)
                         ELSE IF d = fd[f] THEN Lost(d) ELSE table[d]]
          /\ fd' = [fd EXCEPT ![f] = Lowest]
          /\ size' = IF size = None THEN 0 ELSE size
     ELSE /\ table' = [d \in Descriptors |-> IF d = fd[f] THEN Lost(d) ELSE table[d]]
          /\ fd' = [fd EXCEPT ![f] = None]
          /\ UNCHANGED size
  /\ UNCHANGED <<page, maps, failed>>

\* Others open and close descriptors too.
ClientOpens ==
  /\ CanOpen(FALSE) /\ table' = [table EXCEPT ![Lowest] = Opened(FALSE, Client)]
  /\ UNCHANGED <<size, fd, page, maps, failed>>
ClientCloses(d) ==
  /\ IsOpen(d) /\ table[d].owner = Client /\ table' = [table EXCEPT ![d] = Closed]
  /\ UNCHANGED <<size, fd, page, maps, failed>>

\* SmartFD::close() forgets the number if POSIX::close() succeeds or was
\* interrupted.
Close(f, succeeds) ==
  /\ fd[f] # None
  /\ table' = [d \in Descriptors |-> IF d = fd[f] THEN Closed ELSE table[d]]
  /\ fd' = [fd EXCEPT ![f] = IF succeeds /\ IsOpen(fd[f]) THEN None ELSE @]
  /\ failed' = (failed \/ ~succeeds)
  /\ UNCHANGED <<size, page, maps>>

\* ~SmartFD(): whatever close() said, the number is gone with the object.
Destroy(f) ==
  /\ table' = [d \in Descriptors |-> IF d = fd[f] THEN Closed ELSE table[d]]
  /\ fd' = [fd EXCEPT ![f] = None]
  /\ UNCHANGED <<size, page, maps, failed>>

\* SmartFD::detach(): the descriptor is the caller's.
Detach(f) ==
  /\ IsOpen(fd[f])
  /\ table' = [table EXCEPT ![fd[f]] = Opened(FALSE, Client)]
  /\ fd' = [fd EXCEPT ![f] = None]
  /\ UNCHANGED <<size, page, maps, failed>>

Least(a, b) == IF a < b THEN a ELSE b
Pos(f) == table[fd[f]].pos
MoveTo(f, pos) == table' = [table EXCEPT ![fd[f]].pos = pos]

Read(f, n) ==
  /\ IsOpen(fd[f])
  /\ MoveTo(f, IF Pos(f) >= size THEN Pos(f) ELSE Least(Pos(f) + n, size))
  /\ UNCHANGED <<size, fd, page, maps, failed>>

\* write() may write less than it was given.
Write(f, n) ==
  /\ IsOpen(fd[f]) /\ table[fd[f]].writeable
  /\ Pos(f) + n <= MaxSize
  /\ MoveTo(f, Pos(f) + n)
  /\ size' = IF Pos(f) + n > size THEN Pos(f) + n ELSE size
  /\ UNCHANGED <<fd, page, maps, failed>>

\* seek(offset, direction) fails before the start of the file.
Seek(f, from, offset) ==
  /\ IsOpen(fd[f])
  /\ LET base == CASE from = "begin" -> 0 [] from = "current" -> Pos(f) [] from = "end" -> size
     IN  base + offset \in 0 .. MaxSize /\ MoveTo(f, base + offset)
  /\ UNCHANGED <<size, fd, page, maps, failed>>

\* map(): the length is cut to what the file has, and the mapping begins at the
\* page of the offset, "lead" before it.
Length(offset, length) == Least(Least(length, size), size - offset)
Lead(address) == address % PageSize
PagesOf(address, length) ==
  {p \in 0 .. Pages - 1 : p >= (address - Lead(address)) \div PageSize /\ p * PageSize < address + length}

Mapped(first, offset, length) ==
  [at |-> first * PageSize + Lead(offset), offset |-> offset, length |-> Length(offset, length)]

Map(f, offset, length) ==
  /\ IsOpen(fd[f]) /\ offset < size
  /\ Length(offset, length) + Lead(offset) > 0
  /\ \E first \in 0 .. Pages - 1 : \E m \in {Mapped(first, offset, length)} :
       /\ m.at + m.length <= Pages * PageSize
       /\ \A p \in PagesOf(m.at, m.length) : page[p] = None
       /\ m \notin maps /\ maps' = maps \cup {m}
       /\ page' = [p \in DOMAIN page |->
                     IF p \in PagesOf(m.at, m.length) THEN (offset \div PageSize) + p - first ELSE page[p]]
  /\ UNCHANGED <<size, table, fd, failed>>

\* auto_map(): to the end of the file by default.
AutoMap(f, offset) == Map(f, offset, size)

\* Mutant: the length is not made longer by the part of the page before it.
ReleasedWithoutLead(m) == PagesOf(m.at - Lead(m.at), m.length)

\* unmap() finds the start of the page again; a FileMapping calls it when the
\* last pointer into it is gone, the File or not.
Released(m) == PagesOf(m.at, m.length)

Unmap(m) ==
  /\ maps' = maps \ {m}
  /\ page' = [p \in DOMAIN page |-> IF p \in Released(m) THEN None ELSE page[p]]
  /\ UNCHANGED <<size, table, fd, failed>>

Next ==
  \/ \E f \in Files :
       \/ \E b \in BOOLEAN : Open(f, b) \/ Close(f, b)
       \/ Destroy(f) \/ Detach(f)
       \/ \E n \in 0 .. MaxSize : Read(f, n) \/ Write(f, n) \/ AutoMap(f, n)
       \/ \E from \in {"begin", "current", "end"}, n \in -MaxSize .. MaxSize : Seek(f, from, n)
       \/ \E offset, length \in 0 .. MaxSize : Map(f, offset, length)
  \/ ClientOpens \/ (\E d \in Descriptors : ClientCloses(d))
  \/ \E m \in maps : Unmap(m)

-----------------------------------------------------------------------------
\* Every byte of a mapping that is held is the byte of the file asked for, none
\* lies beyond the file's end, and the pages that are mapped are those of the
\* mappings held, each of one: unmap() finds from the address alone what map()
\* added in front.
MappingsHold ==
  /\ \A m \in maps :
       /\ m.offset + m.length <= size
       /\ \A i \in 0 .. m.length - 1 :
            page[(m.at + i) \div PageSize] * PageSize + ((m.at + i) % PageSize) = m.offset + i
  /\ \A p \in DOMAIN page :
       Cardinality({m \in maps : p \in PagesOf(m.at, m.length)}) = IF page[p] = None THEN 0 ELSE 1

\* A file's descriptor is open and nobody else's, until a close() has failed: it
\* frees the number, which the SmartFD keeps and closes again, whosever it is
\* by then.
DescriptorsHold ==
  ~failed => \A f \in Files : fd[f] # None => IsOpen(fd[f]) /\ table[fd[f]].owner = f
=============================================================================
