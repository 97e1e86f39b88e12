--------------------------- MODULE CommandStream ---------------------------
(***************************************************************************)
(* How the command server cuts a client's TCP stream into packages:        *)
(* incomingData of src/server/CommandServer.cpp over CircularBuffer        *)
(* (src/util/CircularBuffer.cpp), for one connection.                      *)
(*                                                                         *)
(* A package is a type byte, two length bytes and data.  A byte is the     *)
(* pair <<k, o>>: offset o, from 1, of the client's k-th package.  TCP     *)
(* keeps the bytes in order and may deliver them in any pieces.  Each      *)
(* Recv is followed by one look at the head of the buffer and at most one  *)
(* package is handled.                                                     *)
(*                                                                         *)
(* start and end of the circular buffer only ever grow; add, get and read  *)
(* compare an index modulo capacity with them as they are, so their test   *)
(* for a full or an empty buffer works only while start or end is below    *)
(* capacity.                                                               *)
(***************************************************************************)
EXTENDS Integers, Sequences, FiniteSetsExt

CONSTANTS CmdPkgMax,  \* CMDPKG_MAX
          Base,       \* number of values of a byte (256)
          Lens,       \* package lengths the client uses, header included
          Types,      \* package types the client uses
          Window,     \* the client's limit of bytes sent and not yet handled
          Split,      \* may a header arrive in two pieces?
          MaxPkgs     \* bound: number of packages sent

\* A package of CMDPKG_MAX bytes is left out: CmdPkg writes a '\0' behind it,
\* one past the end of cmd_buf.
ASSUME SizesAssumption  == /\ CmdPkgMax \in Nat /\ Base \in Nat \ {0, 1}
                           /\ Lens \subseteq {l \in 3..(CmdPkgMax - 1) : l < Base * Base}
                           /\ Types \subseteq 1..(Base - 1)
ASSUME BoundsAssumption == Window \in Nat /\ MaxPkgs \in Nat /\ Split \in BOOLEAN

Capacity == CmdPkgMax * 2
HEADER   == 3

VARIABLES
  pkgs,     \* the packages sent: type and length
  wire,     \* bytes sent and not yet received
  ring,     \* CircularBuffer::buf
  start, end, count,  \* CircularBuffer's fields of the same names
  handled,  \* history: which package each call of handle got, 0 for none
  open      \* the connection is open

bufVars == <<ring, start, end, count>>
vars    == <<pkgs, wire, bufVars, handled, open>>

Garbage == <<0, 0>>  \* a byte malloc left in the buffer

Init == /\ pkgs = <<>> /\ wire = <<>>
        /\ ring = [j \in 0..(Capacity - 1) |-> Garbage]
        /\ start = 0 /\ end = 0 /\ count = 0
        /\ handled = <<>>
        /\ open = TRUE

-----------------------------------------------------------------------------
(* The client *)

Send(t, l) == /\ open /\ Len(pkgs) < MaxPkgs
              /\ count + Len(wire) + l <= Window
              /\ pkgs' = Append(pkgs, [type |-> t, len |-> l])
              /\ wire' = wire \o [o \in 1..l |-> <<Len(pkgs) + 1, o>>]
              /\ UNCHANGED <<bufVars, handled, open>>

-----------------------------------------------------------------------------
(* CircularBuffer *)

\* Mutation: the loop also stops at its first byte.
CopiedFromFirst(from, len, stop) ==
    LET hits == {i \in 0..(len - 1) : (from + i) % Capacity = stop}
    IN  IF hits = {} THEN len ELSE Min(hits)

\* How many bytes the loop of add, get or read copies: it runs from the index
\* from, over len bytes, and breaks where it meets stop, but not at once.
Copied(from, len, stop) ==
    LET hits == {i \in 1..(len - 1) : (from + i) % Capacity = stop}
    IN  IF hits = {} THEN len ELSE Min(hits)

\* buf after add has written the first n bytes of chunk.
Written(chunk, n) ==
    [j \in 0..(Capacity - 1) |->
        LET i == (j - end) % Capacity IN IF i < n THEN chunk[i + 1] ELSE ring[j]]

\* The n bytes of buffer b from start on.
Taken(b, n) == [i \in 1..n |-> b[(start + i - 1) % Capacity]]

-----------------------------------------------------------------------------
(* CommandServer::incomingData *)

\* Possible values of a byte in a header.  Data is text, whose codes are
\* larger than any length byte of a short package.
Values(b) == CASE b = Garbage -> 0..(Base - 1)
               [] b # Garbage /\ b[2] = 1 -> {pkgs[b[1]].type}
               [] b # Garbage /\ b[2] = 2 -> {pkgs[b[1]].len \div Base}
               [] b # Garbage /\ b[2] = 3 -> {pkgs[b[1]].len % Base}
               [] OTHER -> {Base - 1}

\* Mutation: the length is taken for little endian.
PkgLensSwapped(h) ==
    LET field(i) == IF i <= Len(h) THEN Values(h[i]) ELSE 0..(Base - 1)
    IN  {lo * Base + hi : hi \in field(2), lo \in field(3)}

\* toushort(cmd_buf, 1) when read got the bytes h: a byte it did not get is
\* left in cmd_buf from an earlier package, perhaps of another client.
PkgLens(h) ==
    LET field(i) == IF i <= Len(h) THEN Values(h[i]) ELSE 0..(Base - 1)
    IN  {hi * Base + lo : hi \in field(2), lo \in field(3)}

\* Mutation: a package that is just complete is not seen.
LongerThan(size, len) == size > len

\* session->buf->size() >= pkg_len
Complete(size, len) == size >= len

\* History: which package the bytes p are; 0 if they are not one whole package.
PackageOf(p) ==
    LET k == p[1][1]
    IN  IF k > 0 /\ Len(p) = pkgs[k].len /\ \A o \in 1..Len(p) : p[o] = <<k, o>> THEN k ELSE 0

\* Mutation: get adds to count, as add does.
HandleAddsCount(b, e, c, len) ==
    LET n == Copied(start, len, e)
    IN  /\ start' = start + n /\ count' = c + n
        /\ handled' = IF len = 0 THEN handled ELSE Append(handled, PackageOf(Taken(b, n)))

\* The package of length len is taken from the buffer (contents b, end e, size
\* c) and handled.  Of length 0 it has no type any more and is ignored.
Handle(b, e, c, len) ==
    LET n == Copied(start, len, e)
    IN  /\ start' = start + n /\ count' = c - n
        /\ handled' = IF len = 0 THEN handled ELSE Append(handled, PackageOf(Taken(b, n)))

\* The first n bytes on the wire end inside a header.  Recv may end there, but
\* a package sent at once mostly arrives at once: Split says if it does.
CutsHeader(n) == n < Len(wire) /\ wire[n + 1][2] \in 2..HEADER

\* One turn of the loop: Recv gets n bytes, add stores what it has room for
\* (its result is ignored), read peeks at the header, and a package that is
\* complete is handled.
Recv(n) ==
    /\ open
    /\ n \in 1..Len(wire) /\ n <= CmdPkgMax
    /\ CutsHeader(n) => Split
    /\ wire' = SubSeq(wire, n + 1, Len(wire))
    /\ LET added == Copied(end, n, start)
           b     == Written(SubSeq(wire, 1, n), added)
           e     == end + added
           c     == count + added
       IN  /\ ring' = b /\ end' = e
           /\ \E len \in PkgLens(Taken(b, Copied(start, HEADER, e))) :
                IF Complete(c, len)
                THEN Handle(b, e, c, len)
                ELSE count' = c /\ UNCHANGED <<start, handled>>
    /\ UNCHANGED <<pkgs, open>>

\* The client closes its end: closeConnection, from Epoll::loop (EPOLLRDHUP)
\* or at the end of file, deletes the buffer; bytes on the wire are not read.
CloseConnection == /\ open
                   /\ open' = FALSE
                   /\ UNCHANGED <<pkgs, wire, bufVars, handled>>

-----------------------------------------------------------------------------
Next == \/ \E t \in Types, l \in Lens : Send(t, l)
        \/ \E n \in 1..CmdPkgMax : Recv(n)
        \/ CloseConnection

Spec == Init /\ [][Next]_vars

\* The event loop reads what has arrived.
FairSpec == Spec /\ WF_vars(\E n \in 1..CmdPkgMax : Recv(n))

-----------------------------------------------------------------------------
(* Properties *)

Bytes == {Garbage} \cup {<<k, o>> : k \in 1..MaxPkgs, o \in 1..CmdPkgMax}

\* Types of the variables; the buffer never counts more bytes than it has
\* room for.
TypeOK == /\ pkgs \in Seq([type : Types, len : Lens]) /\ Len(pkgs) <= MaxPkgs
          /\ wire \in Seq(Bytes)
          /\ ring \in [0..(Capacity - 1) -> Bytes]
          /\ start \in Nat /\ end \in Nat /\ count \in 0..Capacity
          /\ handled \in Seq(0..MaxPkgs)
          /\ open \in BOOLEAN

\* What the buffer and the wire hold, in the order it will be read.
Unread == Taken(ring, count) \o wire

\* No byte is lost, repeated or overwritten on its way through the circular
\* buffer and around its end: what is unread is exactly the rest of the stream
\* after the handled packages.  It holds for a stream cut anywhere but inside
\* a header, of a client that has no more than a buffer full unhandled.
NothingLost ==
    /\ Unread = <<>> => Len(handled) = Len(pkgs)
    /\ Unread # <<>> => /\ Unread[1] = <<Len(handled) + 1, 1>>
                        /\ LET last == Len(pkgs)
                           IN  Unread[Len(Unread)] = <<last, pkgs[last].len>>
    /\ \A i \in 1..(Len(Unread) - 1) :
         LET k == Unread[i][1]
             o == Unread[i][2]
         IN  Unread[i + 1] = IF o < pkgs[k].len THEN <<k, o + 1>> ELSE <<k + 1, 1>>

\* The packages are handled whole, each once, in the order the client sent
\* them, also when they were sent back to back: for such a client and stream.
HandledInOrder == \A i \in 1..Len(handled) : handled[i] = i

\* A package sent when everything before it has been handled is handled too,
\* unless the client goes on sending or leaves.
AloneHandled ==
    \A k \in 1..MaxPkgs :
        count = 0 /\ Len(pkgs) = k /\ Len(handled) = k - 1
            ~> Len(handled) >= k \/ Len(pkgs) > k \/ ~open

-----------------------------------------------------------------------------
(* What a comment says and the code does not keep *)

\* "we have whole package - process it" (incomingData): what is handled is a
\* whole package.  But of a header that arrives in two pieces read gets one,
\* and the length is taken from what is left in cmd_buf.
HandledWhole == \A i \in 1..Len(handled) : handled[i] # 0
=============================================================================
