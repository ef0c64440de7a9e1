# A specification of the simplified VPN

TLA+ modules, TLC configurations and machine-checked proofs for the three programs under `src/src`:
`vpn_client`, `vpn_server` and `vpn_destination`, and for the two talk programs of the Mininet guide. Paths below are
relative to the repository, and files without a path are under `src/src`.

## 1. The system

A client builds a TCP/IP packet that contains the text `"payload"`, puts a GRE header in front of it, XORs it with a
fixed key and sends it to the VPN server over TCP. The server decrypts it, drops the GRE header, writes its own address
over the client's and sends the packet on to the destination. The destination answers the address it finds in the
packet; the server puts a GRE header back, readdresses the answer to the client, encrypts it and sends it. Each program
does this once and exits. There is no thread, no loop over clients, no timeout and no retry.

### Components

| Part | State it keeps | Operations | Correct when |
|---|---|---|---|
| client (`client.c`) | the addresses of its own, its server's and its destination's host; one socket | read and compare names, connect, build and send, receive, print, exit | it ends, is shown only the answer to its own question, does not crash |
| server (`server.c`) | one accepted and one dialled socket, the client's saved address, the packet being relayed | listen, accept, receive, rewrite, dial, forward, receive the reply, rewrite, encrypt and send, exit | what it forwards does not hold the client's address, what it sends the client is encrypted, it serves one client and answers that one |
| destination (`destination.c`) | one accepted socket, the request and the answer | listen, accept, receive, answer, exit | it sees the server, not the client |
| packets (`packet.c`, `encap.c`, `decap.c`, `protocol.h`) | buffers of a packet's size | create, encapsulate, decapsulate, receive, rewrite, measure | every length fits its buffer and its `uint8_t`; a rewrite changes what it should and nothing else |
| encryption (`encrypt.c`) | the key | XOR | twice is the identity, and the 0s put around it do not lose or expose text |
| hosts (`host_info.c`) | seven names and addresses | look up, print and parse an address | only a whole name is found, and an address survives each change of its form |
| checksum (`utils.c`) | - | compute, verify | a header that was sealed verifies |
| sockets and processes (the operating system) | TCP connections, accept queues, which programs run | listen, accept, connect, send, recv, close, die | external |
| talk programs (`doc/guide_mininet/examples`) | one buffer each, never cleared | the client sends lines, the server echoes them with a stamp until "exit" | every answer is to the line just sent, and "exit" ends both |

### Interactions and hard behaviours

The programs share nothing but TCP streams, and each of them reads a stream with one `recv`, whatever that returns. What
is hard to test follows from that:

* a stream ends, is reset or delivers a part of a packet at any of three `recv` calls, and the programs tell only -1 from
  everything else (`packet.c:236, 261, 271`);
* the length of a text is measured in the *ciphertext* (`packet.c:240`), where a 0 may stand for a character, and is
  guessed back by writing a 0;
* the programs start in any order and die at any time, and no `recv` has a timeout;
* the server serves one client and exits, while `listen` lets another one connect (`server.c:87, 95-108, 127`), and
  `SO_REUSEPORT` lets the next server listen next to it (`server.c:69`);
* users give names; a server may be named as a destination, and the destination of one server may be another;
* a packet is rewritten in place, in two byte orders, around a checksum (`packet.c:277-351`);
* who frees a packet depends on the function it was handed to and on what its call returned (`packet.c:196-229`).

`PROJECT.json` lists them one by one with the line where each bites and the properties that watch it.

## 2. Modules

| Module | Models |
|---|---|
| `Packet` | packets as cells, and the functions that create, encrypt, cut and rewrite them |
| `Kernel` | TCP, the accept queue, hosts, processes and their deaths: external, from the calls the programs make |
| `Client`, `Server`, `Destination` | the `main` of each program, one action per step |
| `Vpn` | the composition, its fairness and its properties |
| `Relay` | what the VPN promises, without packets, keys or sockets: the abstract specification |
| `Tunnel` | one encrypted transfer of an *arbitrary* text |
| `Headers` | the three headers with their real sizes, byte orders and checksum, and what is printed of them |
| `IpHeader` | the server's rewrites of an IP header |
| `HostTable` | names, the table, and addresses as text, number and bytes |
| `Wire` | one exchange byte by byte, with the real key and sizes, next to the same exchange in the cells of `Packet` |
| `Memory` | what each program allocates, touches and frees during an exchange |
| `SimplexTalk` | the client and the server of the Mininet guide |
| `MCVpn`, `MCTunnel`, `MCIpHeader`, `MCWire`, `MCSimplexTalk` | values of the constants for TLC |
| `VpnInv` | the inductive invariant of `Vpn`: shapes, connections, secrecy |
| `VpnStory` | the invariants on top of it: what each packet is made of, and who leaves what unread |
| `PacketProofs` | lemmas about packets, sequences and the operators of `Packet` |
| `VpnProofs`, `StoryProofs`, `PromiseProofs` | the theorems about `Vpn`, each on top of the one before |
| `TunnelProofs`, `MemoryProofs`, `SimplexTalkProofs` | the theorems about `Tunnel`, `Memory` and `SimplexTalk` |
| `WireProofs` | the theorems about bytes: `IpHeader` and `Wire` |

`Client`, `Server` and `Destination` extend `Kernel`, which extends `Packet`; `Vpn` extends the three. `Tunnel` extends
`Packet` alone, so the same operators serve the system, the isolated codec and the proofs. `IpHeader` extends `Headers`;
`Wire` extends `Headers` and `HostTable` and has an instance of `Packet`. `Memory` and `SimplexTalk` stand alone.

### How the code's state appears

* **A cell** is a value and a flag `masked`, "XOR-ed with the key". A packet has one cell for the GRE header, one for
  each IP address, one for the TCP flags and `MaxPayload` for the payload. The byte 0 is `Clear("zero")` (`Nul`); XOR
  makes of it the key byte, `Masked("zero")`, and of a character that equals its key byte a 0. That is enough for `strlen`,
  for `%s` and for the two places that put a 0 into a payload to behave as in the code. That it *is* enough is checked:
  `Wire` runs both side by side. Header fields that no program reads back (ports, sequence numbers, window, checksums)
  are in `Headers` and left out of the cells, as is the `uint8_t`'s real size: a
  packet of 7 cells must be below `SizeLimit` = 8 as the real one of 174 bytes must be below 256, and
  `SizeAssumption` says so.
* **A program** is `pc[p]` (which call it is about to make), `outcome[p]` (how it ended: returned 0, returned an error,
  died of a NULL pointer, was killed) and `terminal[p]` (the packets it has printed). `"exit"` is between the last
  statement and the closing of the sockets, `"gone"` after it.
* **A host** runs any number of processes: `HostOf` maps each element of `Hosts`, a process, to the element that names
  its host. Several processes on one host stand for programs that run side by side and for one that is started again:
  a server on the same host may join the listeners of its port at any time (`SO_REUSEPORT`), and a connection goes to
  any of them that listens.
* **A connection** is named by the process that made it, since every program makes at most one: `peer[p]` is whom `p` has
  connected to, `up[p]` and `down[p]` are the bytes in flight each way, `upEnd[p]` and `downEnd[p]` whether the sender
  has closed or reset. `queue[h]` holds the connections made and not yet accepted, `session[h]` the accepted one.
* `packet[s]` stands for `fixed_pkt` and then `enc_pkt`, `clientIp[s]` for `client_ip`, `response[d]` for the
  destination's `fixed_pkt`. A buffer `calloc` has zeroed and `recv` has filled in part is `Received`.
  A field arrives whole or not at all: an address cut in the middle and one that is missing are both no host's
  (`AddressesAreReal`), which is all the programs' steps depend on.
* **Names**: users give a client three names; each is a host or unknown (`Nobody`). A client's own name is its host's or
  unknown: the address it sends is then its own. The same holds of a server and of a destination. Which names are typed is
  the constant `CommandLine`; how a typed line becomes a name is in `Wire`.
* **A buffer** of `Memory` is a name and a size. An access is the number of bytes it reaches; what an access to a
  freed buffer or behind the end of one has hit is recorded in `wrong`.
* **The talk programs** keep their texts as sequences of characters, so that what is left of an old text in a buffer
  that is not cleared can be seen; "exit" is one character. `Garbage` is what a buffer holds before it is written.

### How the code's steps appear

Each action is one system call with everything the program does up to the next one. `ServerReceive`, for example, is
`serv_rec_from_cli`, `print_packet`, `save_client_ip` and `serv_handle_pkt`, since nothing another process does can come
between them. A failing call is a disjunct or an action of its own with the code's reaction: `ClientSend` goes on after a
failed send (`client.c:105-108`), `ServerForward` returns (`server.c:159-162`), `ServerReceiveReplyFails` crashes
(`server.c:176`). `ClientFault`, `ServerFault` and `DestFault` are calls that fail for a reason of the machine's; `Kill`
is the death of a program at any time.

The kernel's part: `recv` blocks on an empty stream, returns 0 at its end, and with `ShortReads` any part of what is
there; the bytes before a FIN are delivered first, a reset fails one call; a process that ends with bytes unread may
reset the connection and resets those that were never accepted; `connect` fails when nobody listens or the queue
(`Backlog` + 1 long, as on Linux) is full.

## 3. What TLC checks

All runs finish within two minutes. "Faults" are kills and failed calls, at most `MaxFaults`.

| Run | Instance | Question and answer |
|---|---|---|
| `Solo` | 1 client, 1 server, 1 destination, 1 idle host; any names; short reads; 2 faults; fair; 65 230 states | Every program keeps its data's shape (`TypeOK`). What travels in the tunnel is encrypted (`TunnelEncrypted`). The destination and its link never hold the client's address (`ClientHidden`). However packets are cut, nobody prints a character the other end did not write (`CleanText`), and text that is shown is the answer to one's own question (`AuthenticReply`). Whatever dies or fails, a waiting client ends unless its own send has failed (`ReturnsUnlessStuck`). |
| `TwoClients` | 2 clients; 2 servers on one host, 2 destinations on another; 1 fault; 142 676 states | Programs that are started again, or twice, share a port. A client that is shown text is still shown the answer to its own question (`AuthenticReply`), and the programs implement `Relay` (`RelaySpec`): nobody is asked, answers or is told twice, and no answer comes from anywhere but the question's path. |
| `TwoServers` | 2 clients, 2 servers, 1 destination; servers named as destinations; no fault; fair; 59 344 states | A server that another one has dialled dials nobody (`ServesClients`). Only a program whose connection was never accepted dereferences a NULL (`AcceptedNeverCrash`). A client whose server and destination are free is shown the whole reply (`RoundTrip`). A client waits for ever only when servers wait for each other in a circle (`ReturnsUnlessStuck`). `RelaySpec` holds here too. |
| `Tunnel` | every text up to `MaxPayload` = 4 over two letters and the key byte; every short read; 1 982 states | `TextArrives` states exactly what a receiver reads of a text: what has arrived, up to the first character equal to its key byte, at most `MaxPayload - 1`. `HeadersArrive` and `WireEncrypted` hold for every text. |
| `IpHeader` | the seven addresses, 128 bytes; 463 states | The rewrites change one address and leave everything else but the checksum alone (`RewriteKeepsTheRest`). |
| `Wire` | lines typed over {h, 1, 3, 9}; the real key, sizes and messages; receipts cut inside of and behind each header and in the text; 13 790 states | The cells of `Packet` say the truth about the bytes: an address cell in clear is that host's four bytes and nothing else is, even where a server decrypts what nobody has encrypted, with everything six bytes off (`AddressesAreReal`); and the text that is printed is the text of the cells, everywhere but there (`TextIsReal`). A line too long for the buffer is nobody's name (`OnlyWholeNames`); any 32 bits fit the address buffers and survive being text (`AnyAddressSurvives`); the headers found behind a GRE header and without one have the same fields (`FieldsSurvive`). |
| `Memory` | the real sizes; every call fails or returns any size; 816 states | No buffer is used after it was freed or freed twice, and one byte is touched outside of one (`OnlyTheTerminator`). A program that comes to its end has freed everything but the packets of a send that failed: one in the client, two in the server, none in the destination (`LosesOnlyUnsent`). |
| `SimplexTalk` | 3 lines of any of 4 lengths, "exit" behind a long one included; any contents of the buffers; 1 partial receipt; fair; 49 914 states | Each answer is to the line just sent, without a trace of older texts (`EchoesInOrder`). The server's buffer is overrun by one line that is too long and by nothing else (`OnlyLongLinesOverrun`). "exit" ends both programs, also when they have lost step (`ExitEndsBoth`). |

Four runs end in a counterexample, each a disagreement between the repository's words and its code (`PROJECT.json`,
"findings"):

* `TurnedAway`: with two clients and no fault, the client the one-shot server does not accept is reset;
  `serv_rec_from_cli` returns NULL and `print_packet` dereferences it.
* `EndOfStream`: when the server cannot reach the destination it closes; the client's `recv` returns 0, and it decrypts
  and prints the zeroed buffer as a received packet.
* `FailedSend`: a failed `send` of the client is reported and ignored; client and server wait for each other for ever. The
  client names the run's only VPN server as its server (`KnownNames`), so it is that server which accepts it and waits.
* `Checksum`: the checksum is put in network order by `cksum` and again by its callers; the repository's
  `verify_checksum` rejects every header the programs build.

### Why these bounds

Each program makes one pass through its `main`, so behaviours are finite without any bound on steps; what is bounded is
the number of hosts, the sizes and the faults. `Request` has one character and `Reply` two, so that a request, a reply
and every part of either differ; `MaxPayload` = 3 leaves room for the terminating 0 and one cell more. In `Tunnel` a text
may also fill the payload, which is where `strlen` leaves the text. Two clients are what it takes to compete for a
server and to fill the accept queue: the code's backlog is 3, `Backlog` is 0 here, so that two clients show what five
would, one accepted and another waiting, or one waiting and a `connect` that finds no room. Two servers are what it
takes to be in each other's way, and to be started again; two destinations, likewise. Two faults cover a second failure
while the first is handled. In the runs of two clients `recv` is not short: what a cut does to a packet depends on
nothing but its own exchange, and `Solo` cuts every packet of one everywhere, with two faults. Symmetry is used in
`TwoClients` alone, whose properties are safety properties, over processes that occur nowhere but in the constants' sets.

`Wire` has the code's own constants and bounds where a packet is cut and which lines are typed. The ten `Cuts` are, of a packet
with a GRE header: nothing (0), inside of and behind that header (3, 6), inside of the IP header (14) and of each of its
addresses (20, 24), behind it (26), inside of and behind the TCP header (40, 46), in the text (50). Of one without they are
inside of the IP header (3, 6) and of an address (14), behind it (20), inside of and behind the TCP header (24, 26, 40), and
in the text (46, 50). The theorems of `WireProofs` have every cut. The lines typed have at most `LineLimit` characters, one
more than the four that fit the code's buffer.
`Memory` has no bound: each call returns any size, or fails. In `SimplexTalk` a buffer holds 6 characters, enough for a
line that leaves no room for the stamp of one character; three lines are what it takes to see a third text over the
leftovers of two. `MaxCuts` bounds the receipts that return part of what has come: one is enough for the programs to
lose step for good.

`CHECK_DEADLOCK FALSE` is in every configuration because the system really stops: every program exits, is never
started, or waits for a user.

### Fairness

`Fairness` is weak, per program, over its own steps: the operating system runs a process that can run, delivers what is
in flight, and closes the sockets of one that has ended. It does not include a user starting a program, a call failing or
a process being killed: none of them need ever happen. The same holds of `TalkSpec`: a user need not type, and need not
end the input. `FairSpec` is the specification of `Solo`, `TwoServers` and `FailedSend`; the other runs of `Vpn` check
safety only.

## 4. What is proved

For every value of the constants that satisfies the assumptions in the modules (`HostsAssumption`, `SizeAssumption`,
`KernelAssumption`, `ClientAssumption`, `DestinationAssumption`, `TunnelAssumption`, `IpAssumption`,
`MemoryAssumption`, `WireAssumption`, `TextAssumption`, `TalkAssumption`), with any number of clients, servers,
destinations and faults. All of them are facts of the code: the process sets are disjoint (a process runs one program), a
packet fits `SizeLimit`, a text (`IsText`) holds characters and no address or 0, the reply is shorter than the payload,
the talk server's last message fits its buffer, the two messages of the programs fit their packets and hold no byte of the
key (`TextAssumption`; `Tunnel` is where a text may hold one), every host has a name of its own.

* `TypeCorrect` (`VpnProofs`): `Spec => []TypeOK`. `TypeOK` is not inductive: what a server forwards is a packet only
  because of where it is in its `main`. `Ready` says what a program has at each place, and `TypeInv == TypeOK /\ Ready`
  is inductive.
* `TunnelIsEncrypted` and `ServersServeClients` (`VpnProofs`): `Spec => []TunnelEncrypted` and
  `Spec => []ServesClients`, from the inductive invariant `IInv == TypeInv /\ Wiring /\ Secrecy` of `VpnInv`. The
  difficulty is that a server may be named as a destination: it then *decrypts* plain cells, which hides them, and
  would relay them. `Secrecy` carries the reason it does not: no cell it finds is an address in clear, so the dial
  fails and the server never has anything to send. `Wiring` is what makes a link's ends identifiable: who has
  accepted or queued whom, and that no byte travels before a connection is made.
* `SizesFit`, `WireIsEncrypted`, `HeadersAlwaysArrive` (`TunnelProofs`): the transfer of any text, in packets of any size,
  cut at any cell. `TunnelInv` adds to the three properties that the wire starts with the encrypted header and that
  nothing is received before something is sent.
* `TextAlwaysArrives` (`TunnelProofs`): `TunnelSpec => []TextArrives`. `TextInv` adds to `TunnelInv` that the bytes sent
  carry the text (`CarriesText`): its kept characters encrypted behind the header, and then 0s only. `TextEndIs`, that
  `strlen` stops at the one place with a 0 and none before it, is used three times: on the ciphertext, on what is
  decrypted, and on the answer the server measures; `BeforeKeyByteFacts` says where the first key byte is.
* `RewriteIsExact` (`WireProofs`): `IpSpec => []RewriteKeepsTheRest`, for every set of addresses and payload size: the
  changes of byte order cancel.
* `AddressesShownAreReal`, `TextShownIsReal`, `NamesAreWhole`, `AddressesSurvive`, `FieldsArrive` (`WireProofs`): the five
  properties of `Wire`, for the code's table of seven hosts, whichever of them are client and server, and every pair of
  messages, payload size a `uint8_t` can measure, cut and length of a line. `Wire` runs
  the bytes and the cells of `Packet` side by side, so these theorems are what justifies the cells that the theorems about
  `Vpn` speak of. They follow from one invariant, `WireInv`. Its core is `Agree`: of a packet in flight or in a buffer, what
  each cell says is true of the bytes it stands for, under the key where the cell is masked, and bytes without a cell
  are 0; `Full` is the same of a buffer `recv` has filled as far as it goes. Each function of `packet.c` is shown to
  keep them, in bytes and cells at once: building, XOR, a cut and the 0s behind it, the two rewrites, putting the GRE
  header in front and taking it off. The three parts that need more than the last packet are carried along:
  what is in flight has the fields of what was printed before it (`Shifted`, `SameBare`, `UnderKey`), from which
  `FieldsSurvive` follows by induction over the legs; the name that was found is the whole line (`NameRead`), since no line
  cut to `MaxNameLength - 1` characters is in the table; and its address is what the server dials (`NameArrived`).
  A server that decrypts what was never encrypted finds everything six bytes off, under the wrong bytes of the key. That it
  sees no host's address there rests on two bytes and one cell of `OnTheWire`: the bytes that become the first of each
  address (`wire[22]`, `wire[26]`) are not what the key turns into 10, and no cell in its place is a masked host. Below
  are the lemmas on the data: that XOR with the same key byte twice is the identity (bit by bit), that four bytes in either
  order give the number back, and that any address, printed by `%d` and parsed digit by digit, is the same address.
* `BuffersHeld`, `OneByteOutside`, `NothingElseLeaks` (`MemoryProofs`): `MemorySpec => []MemoryInv`,
  `MemorySpec => []OnlyTheTerminator` and `MemorySpec => []LosesOnlyUnsent`, for any sizes of payload and messages and
  every result of every call. Each function of `packet.c` has a contract: which buffers it needs, which it leaves, and
  what its accesses stay inside of. `MemoryInv` says, at each place in each `main`, which buffers the program holds, that
  they have room for a packet, and that what the others have sent fits them; the contracts carry it over each step. It also
  says who can have failed where: a client that goes on after a failed send holds its request from then on, and the only
  failure a server outlives is that of its last send.
  A function of the code is a list of operations here, performed one after the other; what a whole list does is
  an induction over it, done by taking the least place where the claim would fail.

* `StoryInvariant` (`StoryProofs`): `Spec => []Story`, the invariant the promises of the whole system follow from. None of
  `ClientHidden`, `CleanText` and `AuthenticReply` is inductive: each speaks of a packet and of one several programs
  earlier, and says nothing of what is in flight between them. `Story` names, for each packet that is printed, held or in
  flight, the one it was made of and the operators it went through: what a server has printed is some arrival of its
  client's `Question`, what it sends on is `Forwarded` of that, what a destination has printed is some arrival of that,
  its answer is `Response`, and so on back. Screens are never cleared, so the parent is there to be named when its owner
  has long ended. `Stages` is what `Story` needs of each program's place: how many packets it has printed, which names it
  has accepted, that who has closed an end is gone.
* `TextsStayClean`, `ShownRepliesAreAuthentic`, `ClientsStayHidden` (`PromiseProofs`): consequences of `Story`. The
  arguments are about operators, not steps. For clean text: whatever part of a packet arrives, a text in it ends where
  the cut or the first key byte puts a 0, and every cell before that place is the one that was written there; this is shown for
  each of the four transfers and composed (`QuestionText`, `ForwardedText` and so on). For authenticity: text is shown
  only if the header of the answer came through, and then the addresses in it say whose answer it is. For hiding: the
  server overwrites the one cell that holds the address, and no other cell of the packet holds one, a text neither
  (`IsText`).
* `ProgramsRelay` (`PromiseProofs`): `Spec => RelaySpec`, the refinement. `InitRelay` maps the initial states; then each
  action of each program is a step of `Relay` or a stutter. What makes the steps legal is that a destination which has printed a
  request has it from the server that dialled it, and a client which is shown text from a destination that has been asked
  on its path: `Story` again.
* `NothingIsLeftUnread` and `AcceptedProgramsNeverCrash` (`PromiseProofs`): `Spec => []Drained` and
  `Spec => []AcceptedNeverCrash`. A NULL packet is the result of a reset, and the kernel resets a connection whose reader
  ends with bytes unread, so the question is who can end with bytes unread while nothing fails and no read comes short. `Drained`
  answers it: a server's buffer holds whatever it is sent in one piece; a destination's is one cell shorter than what a
  *client* would send it, and the byte it leaves behind is left to somebody it has answered, whose answer arrives before the
  reset. Without that last case the invariant is false, which the proof attempt showed and TLC confirmed.
* `AnswersAreInOrder` and `OneLineOverruns` (`SimplexTalkProofs`): `TalkSpec => []EchoesInOrder` and
  `TalkSpec => []OnlyLongLinesOverrun`. `TalkInv` says that, until a receipt comes in parts or the server ends, the two programs
  go through seven phases together (`Idle`, `Asking`, `Asked`, `Answering`, `Answered`, `Ending`, `Overrun`), with at
  most one message in flight, and that all that was printed is what it should be. The heart of it is `TextOfPut`: a text and
  its 0 laid over any buffer reads back as the text, whatever was in the buffer before.

`PacketProofs` holds the lemmas about packets they rest on: the shape of what each operator returns, that XOR
hides what is plain and shows what is hidden, where `TextEnd` is, what a header and a text are after a cut. Every inductive
invariant was checked by TLC before it was proved: `IInv`, `Stages`, `Story` and `Drained` on the instances of `Solo`,
`TwoClients`, `TwoServers` and `TurnedAway`, `TalkInv`, `MemoryInv` and `WireInv` on those of `SimplexTalk`, `Memory` and
`Wire`.

Induction: the library's theorems on it take the claim as a parameter, which no prover here can instantiate. What is needed
of it comes from one fact, that every set of natural numbers has a least element (`LeastOf`, from `WFMin`). Where a claim is
about every step of a recursive function (`fold`, `WordSum`, `Octet`) or every operation of a list of `Memory`, the
numbers for which it holds are a set that has 0 and all successors (`AllNaturals`), or have no least exception. That a
recursive function exists at all is shown the same way.

Only model-checked is liveness, which is out of the prover's reach (fairness and `ENABLED`): `ReturnsUnlessStuck`,
`RoundTrip`, `ExitEndsBoth`. The four counterexamples are TLC's as well, and so is that `Checksum` rejects every header: the
proofs need of the checksum that it is 16 bits, not which.

## 5. What is not modelled

* Client authentication: the report announces it (`doc/CSCD58_Report.md`, line 16) and says later that it was not
  implemented; no file has it.
* The Mininet topologies and the contribution script: scripts without protocol logic.
* The OpenSSL guide: its files call a library that does all of the work. The raw-packet example of the Mininet guide
  (`client_packet.c`, `server_packet.c`): one fixed datagram, and a loop that prints and keeps nothing.
* The words around what is printed, and the messages that errors print.
* A user who types another host's name as a program's own.
* Allocations that fail: they are of a few hundred bytes, and the code's only reaction to a NULL is to use it.
* What happens after the talk server has overrun its buffer: the model stops there (`"overrun"`), since the build decides.

Four things met on the way are not findings, because no text of the repository says otherwise: the byte behind the
buffer (`packet.c:219`); the packets that stay allocated when a send fails and its program goes on (`packet.c:199`,
`packet.c:222`), which `LosesOnlyUnsent` counts; the checksum that both rewrites compute while the addresses are in host
order (`packet.c:281-295`); the total length, which leaves out the TCP header (`packet.c:70`).

One disagreement of words is not among the findings either, because no behaviour is wrong: `packet.h:49-52` says that
`serv_handle_pkt_dest` takes "the server name" and "changes the ip_dst to the server's". The code (`packet.c:315-324`) takes an
address, which its only caller makes the client's (`server.c:180-182`), and writes that into `ip_dst`. `ServHandlePktDest`
and `Wire` model the code; that a reply shown to a client bears the client's address is in `AuthenticReply`.

The server's crash is no finding of its own: `serv_rec_from_des` returns NULL when the destination resets the connection, and
`memcpy` reads it (`server.c:176`). It is the client's of `TurnedAway` on the other connection. `TwoServers` reaches it
without a fault, when the destination ends before it accepts the server; `AcceptedNeverCrash` says that otherwise it takes a
fault or a short read, and does not forbid it.

## 6. Plan

Done: the system, with several programs on a host, its abstract relay, the codec, the headers, names and bytes, the heap,
the talk programs; every safety property a run checks proved, and the refinement of `Relay`.

Next: the steps of `Vpn` on bytes instead of cells, so that what `Vpn` promises is stated of bytes in one theorem; now it is
two, one about `Vpn` in cells and one about `Wire`, that the cells are true.
