# Verification of the flash station application

`src/src/` is a bare-metal program for the netX4000. The boot ROM loads it over the network. It acknowledges the last ROM packet, reads the device label (FDL), brings up Ethernet and lwIP, downloads an info file and an image (SWFP) over HTTP, checks the SHA-384 of the image, writes its chunks to SPI flash and SD/MMC, and reports its progress to a server over TCP and to the operator with a blinking LED.

There is one thread and no interrupt handler. Everything that waits calls `network_cyclic_process`, which takes one received frame through lwIP and runs the lwIP timers. Concurrency therefore comes from

- lwIP callbacks, which run inside any call of `network_cyclic_process`,
- the network and the server, which lose, delay, refuse and reset,
- the Ethernet hardware (the XC unit), which shares the pointer FIFOs with the driver while the program runs.

The tree also holds an in-house network stack (`networking/stack/`: Ethernet, ARP, IPv4, ICMP, UDP, TFTP, DHCP, DNS). `SConstruct` does not build it; the program uses lwIP. It is polled from a main loop in the same way, with a timer function per protocol.

Nothing survives a restart except the flash devices. The program has no recovery code, so there is no crash in the models: a restart is a new run on devices with any contents, which is how `Wfp` starts.

## Parts of the system

| Part | Source | Module | Proofs |
|---|---|---|---|
| main program, label, lamps | `main.c`, `fdl.c`, `fdl.h`, `blinki_codes.h` | `FlashApp`, abstract: `Station` | `AppProofs` |
| info file parser | `main.c` | `InfoFile` | `AppProofs` |
| download | `network_lwip.c`, lwIP `http_client.c`, `sha384.c` | `HttpDownload`, abstract: `Transfer` | `ImageProofs` |
| message sender | `network_lwip.c`, lwIP `tcp.c`, `tcp_in.c` | `SendMessage` | `SendProofs` |
| Ethernet driver and interface | `drv_eth_xc.c`, `network_lwip.c` | `EthDriver` | `EthProofs` |
| end of a hash | `sha384.c` | `Sha384` | `AppProofs` |
| SWFP flasher | `wfp.c` | `Wfp` | `ImageProofs` |
| TCP, receiving | lwIP `tcp_in.c`, `tcp.c`, `tcp_out.c` | `TcpRecv` | `TcpProofs` |
| packet buffers over the heap | lwIP `pbuf.c`, `mem.c` | `Pbuf`, which extends `Mem` | `MemProofs` (heap) |
| in-house ARP, IPv4, ICMP, Ethernet | `stack/arp.c`, `ipv4.c`, `icmp.c`, `eth.c` | `Arp` | `ArpProofs` |
| in-house TFTP, DHCP and DNS over UDP | `stack/tftp.c`, `dhcp.c`, `dns.c`, `udp.c` | `Tftp`, `Dhcp`, `Dns`, `Udp`, together in `NetBoot`; abstract: `Transfer` | `BootProofs` |

How they fit together: `FlashApp` calls the other parts and uses them by what they promise. `HttpDownload` shows that a download that returns 0 is a complete body; `InfoFile` that the accepted info files are the right ones; `Sha384` that the hash of a message is asked for with the right padding; `Wfp` that 0 from `processWfp` means that the image is on the devices, if no two chunks share an erase block; `SendMessage` that a message reported as sent has been acknowledged. `TcpRecv` shows that the application gets the stream of the peer in order, which `HttpDownload` builds on, and `Pbuf` and `Mem` that the memory behind a packet is its own. `EthDriver` is below lwIP.

What connects the modules formally:

- `FlashApp` implements `Station`, the station as its operator sees it (`IsStation`).
- `HttpDownload` and the TFTP client implement the same abstract download, `Transfer` (`IsTransfer`, `TftpIsTransfer`).
- `NetBoot` composes three clients over one port table, and `Pbuf` composes the packet buffers with the heap they are allocated from: every `pbuf` call makes the calls of `Mem` it makes in the code.

The remaining promises between parts (what `FlashApp` assumes of a download, of the flasher and of a message) are carried by reading.

Each module has an `MC` module with the values of its constants. Some properties that are proved for every instance are left to the proof and not repeated in a run. In the sections below *proved* marks these; the rest are checked by the run of the module, and many of them are proved as well (see the list at the end). The type invariant (`TypeOK`, in some modules with the name of the module in front) is proved where there is a proof module, and part of another invariant of the run in `NetBoot`, `Mem` and `TcpRecv`. Definitions named at the end of a module's head comment are faulty variants of the definition that follows them. No action uses them. They show that a property can fail.

## FlashApp: one run of the station

One action per call of `flashapp_main`, in its order, with every early exit. `pc` is the next call. `iResult`, `net` (the interface is set up), `want` (hash of the info file), `image` (the image pointer is set), `ram`, `flash` and `code`/`bit` (the blink loop) are the variables the decisions depend on. `log` is what the server has received, `queued` the messages that `sendMessage` gave up and that the stack can still send.

- `readFDL` is a label with the fields its tests look at; the tests are one conjunction (`ValidFdl`), since each failure has the same outcome.
- The result of `setupNetwork` is ignored by the code, so the model goes on without a network.
- No caller looks at the result of `sendMessage`. A message arrives before the call returns, is lost, or stays behind (`Tell`): `tcp_close` sends what is queued, so it can arrive at any later time (`Late`), behind messages that were sent after it, or be dropped by a reset or by the stack (`Discard`). `tcp_write` has not copied it, so a late message may have been overwritten; the server then gets anything (`Noise`).
- A download fails, gives any file, or does not return.
- The lamp is computed from the mask and the state word of the real `blinki_codes.h`, bit by bit.

Properties: `VerifiedOnly` (*proved*: the devices are only touched with an image that has the hash of the info file), `ReportsTrue` (whichever messages are lost or come late: one that arrives as it was written is true when it arrives and ever after, no message comes twice, and one that `sendMessage` waited for comes behind all earlier ones; nothing is claimed of an overwritten message, and late ones may be out of order), `GreenIsFlashed` (*proved*: green exactly if a complete image is on the devices), `IsStation` (see below), `Settles` (every run ends in the blink loop, or in a download that does not return).

`Station` says what the operator is promised: the board is written once or not at all, with an image that has the hash the server named, and then the lamp says for good whether it is complete. The mapping takes the wanted hash, the devices and the lamp; the rest of the program is a stutter.

Run `app` (2 images, 8 labels of which each invalid one fails another test). Two images are enough to have a wrong one. Fairness is `WF(Program)`: a single thread goes on. Nothing is assumed of the messages that stayed behind.

`AppProofs` proves `TypeOK`, `VerifiedOnly`, `GreenIsFlashed`, `ReportsTrue` and the refinement `IsStation` for any set of images, hashes and labels. The inductive invariant adds `Progress`: what the program counter says about the devices, the image pointer and the code. For the messages it adds `LogInv`: no message is in the log or in the stack that comes later in the order than the program is (`Told`), no two have one name, and all are true. The devices and the image pointer only change before a message that speaks of them has been handed to `sendMessage`, so a message is still true when it arrives late. `NoFileAssumption` only keeps the names of the images apart from the three markers of the model; nothing is assumed of the hash function.

## InfoFile: `parseInfoFile`

One action per loop body or test. A character is a newline, a hex digit with its value, or another one. Offsets stand for the pointers, and `InBounds` says that every dereference is inside the file and every store inside `acDataUri` and the hash. The reference (`IsName`, `IsGap` and what follows them) says with quantifiers which files are to be accepted, and with which name and hash; `ParsesRight` compares.

Run `info`: all 21,845 files of up to 7 characters over four characters, a hash of 4 digits, a name of at most 1 character. The file that is accepted needs 7 characters (name, newline, 4 digits, one more), so both sides of every limit occur.

`AppProofs` proves both, and the types (`InfoTypeOK`), for every file and every size. The invariant says what has been scanned (`Scanned`), that the name is the first line (`Named`), and that the bytes of the hash are those of the digits read so far (`Collected`, with the half byte in `ByteSoFar`).

## HttpDownload: a file over HTTP

`httpDownload` waits in a loop that runs the stack. The callbacks of the lwIP HTTP client (connected, receive, error, poll) work on a request state in the heap of lwIP, which points to structures on the stack of `httpDownload`. One action per callback, with everything it calls: parsing, the data callback with hash and copy, the result callback, closing.

TCP delivers the body in order, in pieces of any size and at any alignment. Since the order is fixed the bytes are counted. Headers are abstracted to how far a segment gets the parser. The server may close, reset or be silent at any point. `LWIP_PLATFORM_ASSERT` of this port is an endless loop, so a failed assertion is the state "hang".

Properties: `SuccessIsComplete` (0 means the whole announced body is stored and hashed), `CompleteSucceeds` (a complete response that is closed gives 0), `CallbacksFindFrame` (no callback runs after the frame it writes to is gone, and the result comes once), `TimeoutOnlyIfIdle` (*proved*: the time-out only comes after a time without body data), `IsTransfer` (a download implements `Transfer`: data only arrives behind the data that is there, success means as much as was announced, and nothing changes after the end), `Returns` (the wait ends, unless a body too large for the buffer, or a hash unit left without a full block, hangs the program).

Run `http`: 32 responses (status 200 and 404; no, a right and a wrong Content-Length; bodies below and above a buffer of 4), all alignments, a timeout of 3 ticks instead of the real number. Three ticks are enough to see the counter restart in the middle. Fairness: the start of the request, the timer tick and the return are steps of the program or of its polled timer. Nothing is assumed of the server.

`ImageProofs` proves the invariants and the refinement `IsTransfer` for every size, timeout, response, alignment and segmentation. `FrameInv` says who may still call whom, `DataInv` relates counters, stored and hashed bytes, `TickInv` relates the timer and the idle ticks.

## SendMessage: messages over a pool of connections

`sendMessage` opens a connection per message, writes, waits for the acknowledgement and closes. A closed connection lives on in lwIP, with a pointer to the stack frame of the call, while later messages are sent. The pool of protocol control blocks (pcbs) is small, and `tcp_alloc` takes lingering ones from the end of their life in a fixed order.

State: the locals of `sendMessage`, the memory of each pcb, the free list, the lists of active and TIME_WAIT pcbs. Actions: the steps of `sendMessage`, the segments that arrive for a pcb (SYN-ACK, ACK, FIN, RST), the fast and slow timers of a pcb. History variables record lost pcbs, acknowledged pieces and writes to a dead frame.

Properties: `PcbsAccounted` (each pcb is free, on one list, or lost by a failed `tcp_connect`, until a freed one is closed again), `SuccessIsAcked` (success means that the peer has acknowledged the whole message, unless a sent callback of an earlier connection has written into the frame of this call, which the history variable `wild` records), `ConnectFindsFrame` (*proved*: a connected callback only writes to the frame of its own call), `NoPcbOnlyIfAllBusy` (*proved*: a call fails for lack of a pcb only if none can be evicted), `CallsReturn`, `PcbsComeBack` (after the last message every pcb that is not lost returns to the pool for good, under the hypothesis below).

Run `send`: three messages, two pcbs, messages of two pieces and a send buffer of one, for safety and liveness. More messages than pcbs makes the pool run dry; the program opens at most seven connections (five messages and two downloads) over five pcbs, and the downloads linger as well. There is no symmetry over the pcbs, because the run also checks liveness. Fairness: the program goes on, the clock ticks, and the slow timer ends the states whose time nobody can extend (`TimeFixed`: LAST_ACK, and FIN_WAIT_2 once the application has closed). The fast timer retries a failed output, so strong fairness is asked of its success: memory for one segment is available infinitely often when it is tried infinitely often. Nothing is assumed of the peer.

In the other states the slow timer need not come to an end: a peer that repeats its FIN restarts TIME_WAIT each time, a peer that keeps its window shut and answers the probes keeps the connection for as long as it likes, and without a route no attempt is made and none is counted. `PcbsComeBack` therefore has `WF(SlowTmr(p))` as its premise for each pcb: it says that a pcb comes back if the time of TIME_WAIT and the attempts of a sending connection do end. For the states of `TimeFixed` no premise is needed.

While `sendMessage` holds a pcb, `SlowTmr` leaves it alone: the timers of `sendMessage` (5 s to connect, 10 s without progress) are shorter than those of the stack (six SYN retries of 3 s, twelve data retries, 120 s in LAST_ACK).

`SendProofs` proves the types and the first four for any number of pcbs and messages, any message and send buffer size and any timeouts. The inductive invariant adds three parts. `Handle` says what the call may rely on of the pcb it holds: it has been freed, or it is its own, and what is written and not acknowledged is what the pcb has queued. `Frames` says that every connection belongs to one call and never acknowledges more than the message of that call, which is needed because old connections go on acknowledging during later calls. `Connecting` says that a connection being opened is the one waited for. `CallsReturn` and `PcbsComeBack` are model-checked only.

## EthDriver: frame buffers between program and XC unit

The driver functions, `network_cyclic_process` and `netif_output` step by step, with one register access per step where the XC unit can intervene. A FIFO element is the number in the register; `Element`, `FrameOf`, `Pointer` and `FifoValue` are the conversions of the driver with its bit fields and segment sizes. The XC unit takes empty buffers, fills and queues them, and sends and frees the ones queued for sending. It is external.

One assumption about hardware: between two register accesses of the program the XC unit takes at most one pointer (`XcBurst`). A minimal frame lasts some microseconds on the wire and the accesses are cycles apart. Without it the test of the driver, which keeps one pointer, would not be enough.

Properties: `FramesConserved` (every buffer of the ROM is in exactly one place, on every error path), `NoPopOnEmpty` (*proved*), `FramesIntact` (lwIP gets frames that arrived, in order and at most once, and the port sends what was queued, complete and in order), `Drained` (when the link stays up all received frames are fetched, also after the link was down).

Run `eth`: three buffers in three segments, one with a number beyond the first 64 KiB of its segment, three frames in and two out. Three buffers are enough for one with each side and one in a FIFO, and few enough that the FIFO runs dry. Fairness: the program goes on; the XC unit finishes what has been queued for sending.

`EthProofs` proves that the conversions are inverse to each other for every buffer, length and flag (`RoundTrip`), the types for every set of buffers (`Typed`), `FramesConserved`, `NoPopOnEmpty` and the action property `FramesIntact`. For the first three the invariant says what the FIFO still holds between the test and the read, and counts the buffers place by place, the one in the hands of the program at each step included (`Conserved`). `FramesIntact` needs that no buffer is in two places (`Apart`): a copy of `netif_output` or a frame that the XC unit receives then changes no buffer that somebody else has. On top of it `Receiving` says that the frames in IND_LO are newer than what lwIP was given and in the order of their arrival, with the one that `network_cyclic_process` works on before them, and `Sending` that REQ_LO holds the next frames to leave, without a gap. `Drained` is model-checked only.

## Sha384: the padding

Both finalize functions, with a message of bytes or words. The unit is external: it sets its ready flag when a block is full. `PaddedRight` says that what has been fed is the message, 0x80, the least number of zeros, and 16 bytes of length (of which the last eight are written as two words) ending at a block. `HashComes` says that the wait at the end is over at some time.

Run `sha`: all sizes from 0 to 257, so each residue of a block occurs at least twice for bytes and eight times for words. `AppProofs` proves the types (`ShaTypeOK`) and `PaddedRight` for every size; the invariant says what is still to come at each step.

## Wfp: writing an image

The state is the locals of `processWfp` (position in the image, last device, device description, result), the local of `flashDataFile` that survives a failed call (`isff`), and the cells of every flash device. Each library call is one action, since each can fail. A data byte of the image is represented by its position, so a cell of a device tells which image byte it holds, and "the image is on the device" is an equation.

The flasher library is external. A call may fail at any time. An erase may clear any part of its area, report success and leave dirt. A failing write may have written part of its range. Programming an SPI cell that is not erased gives junk.

Properties: `ProgramOnErased` (*proved*: only erased SPI cells are programmed), `OnlyNamedCells` (no cell changes unless a header that has been read names its device and its erase block), `PassedChunksOnDevice` (*proved*: with no two chunks in one erase block, a chunk that has been passed stays on its device) and `DisjointFlashedComplete` (for such an image 0 means that the whole of it is there), `Terminates`.

Run `wfp`: every image of two chunks over two SPI chip selects and the SD/MMC slot, some of three and some cut short; devices of four cells with blocks of two. That has chunks that share a block, touch, straddle a block and repeat a device with another one between them. Fairness is `WF(Next)`: each call returns.

`ImageProofs` proves all of the invariants for any devices, geometry and well-formed image. `WalkInv` says where the walk stands, `DeviceInv` that the cached description belongs to the chunk, `ErasedInv` what the last erase check established. `ImageAssumption` says that headers lie where the walk looks for them and that sizes do not wrap around the address space.

## TcpRecv: what the application gets of a TCP stream

The receiving half of an established connection: `tcp_input`, `tcp_receive` with the queue of out-of-sequence segments, `tcp_recved` and the announcement of the window, the delayed and immediate acknowledgements, the fast timer, the slow timer that drops the queue, and the close by the application. The application is `httpc_tcp_recv`: it reads nothing before the header is complete, and everything from then on. Sequence numbers are numbers modulo `Width`, compared as the code compares them.

The peer has a stream and then closes. It sends any piece of it (up to `Mss` bytes, with or without the FIN) at any time and as often as it likes, inside the window it has been told. Loss is a segment that never comes. An acknowledgement arrives, is lost, or cannot be sent for lack of memory (`Sent`), and the copy of a segment for the queue may fail.

Properties: `InOrder` (no byte missing, none twice, and the end only behind the last), `PcbSound` (types, and `QueueSound`: the queue is in order, apart, inside the window and holds the right bytes), `AnnouncedIsTaken` (a peer that respects the announced window never runs into an assertion or loses what it was allowed to send), `EdgeNeverBack` (a step never takes back a part of the announced window), `Delivered` (the response gets through and the connection then ends with a FIN, not with a reset).

Run `tcp`: 8 bytes with a header of 3, a window of 8, segments of up to 3, and sequence numbers that wrap between the third and the fourth byte. A segment can be before, at, across and behind everything that is queued. `TcpAssumption` asks that the header and one segment fit the window; with a longer header the window closes before the end of the header and the code would never read it. Fairness: the fast timer runs, and the peer repeats the first byte it has no acknowledgement for until a repetition and the answer to it get through (`Repeat`, weakly fair).

`TcpProofs` proves all but `Delivered`, for every stream, header, window and segment size, every initial sequence number, and every `Width` of more than twice the stream and the window (2^32 in the code), so that the comparisons of `TCP_SEQ_LT` are those of the places the numbers stand for (lemma `Compare`; a response of the station is far below 2 GB).

The inductive invariant `RcvInv` says of every number of the control block which place of the stream it stands for: `rcv_nxt` for the end of what the application has got, `rcv_wnd` for the window less an unread header (`Window`), the announced edge for a place `R` inside of the window that is at or behind what the peer has been told. The queue lies between `rcv_nxt` and `R` (`QueueInv`), in order and apart, and every segment of it holds the bytes of its place (`Piece`). That the queue ends at `R` and not only at the end of the window is what makes the invariant inductive: a queued segment came from a peer that had been told `R`, and the window never falls behind `R`, so a segment never has to be cut at the end of the window. There is a lemma per operation of the code: `TrimFacts` for the start of a segment, `OosInsertFacts` and `QueueFacts` for the queue, `RowFacts` for what becomes in sequence, `RecvedFacts` and `ReadFacts` for the window, `OutputFacts` and `HeardFacts` for an acknowledgement. The loop that puts the data of several segments one behind the other is a recursive function; `GatheredFacts` shows what it computes by giving the function and comparing the two at the least place where they differ.

## Mem and Pbuf: packets in memory

`Mem` is the heap of lwIP as a function from heap to heap per call (`mem_malloc`, `mem_free`, `mem_trim`, with the joining of free blocks and the `lfree` pointer), in numbers of the width of `mem_size_t`. `Pbuf` has the chains of packet buffers on top: allocation from the pool, from the heap and for constant data, `pbuf_free`, `pbuf_ref`, `pbuf_cat`, `pbuf_realloc`, the header functions, `pbuf_free_header`, the loop of `tcp_receive` that passes over old bytes, `pbuf_skip` and `pbuf_copy_partial`. Other parts of lwIP allocate and free beside them. Of the data only the places are kept: a byte is its pbuf and its offset there.

The callers are those of this build. A caller cuts and extends only the head of a chain, joins received packets with received ones, and puts headers only in front of packets it sends. `MaxPointers` and `MaxPbufs` bound the pointers to one pbuf and the pbufs for sending. Received packets and packets to be sent are not in use together (`NoneIn`, `NoneOut`), since no call of the code joins the one with the other; their memory is separate as well (pool and heap).

Properties of the heap: `HeapSound`, which is `HeapTypeOK`, `Sane` (what `mem_sanity` checks, after every call), `BlocksApart` and `NothingLeaks`; and `RefusesOnlyIfFull` (a request that some free block can hold is not refused: `lfree` is never too high). Properties of packets: `RefCount` (the counter is the number of pointers, and no pointer leads to a freed pbuf), `LengthsTrue` (`TotLen`: the totals of a chain are in step; `PayloadInside`: the bytes lie in the memory of the pbuf) and `ChainIsSequence` (`CutsExactly`: cutting at either end leaves exactly the right bytes, however the packet is divided; `ReadsThePacket`: so does reading, also over pbufs that have become empty).

Run `mem`: a heap of 108 bytes (up to four blocks), sizes that wrap `mem_size_t`, three pool buffers of four bytes, packets of one pbuf, of several and longer than a `u16_t` allows, and every cut in the middle and at the border of a buffer. Symmetry over the pool buffers is sound: they differ only in name, and the run checks invariants only.

`MemProofs` proves `HeapSound` and `RefusesOnlyIfFull` of `MemSpec`, the heap alone: one call of `mem_malloc`, `mem_free` or `mem_trim` per step, any size, by callers that free and trim what they hold. A step of `Pbuf` is none, one or several such calls on the same heap, so the invariant carries over to it by reading; the run `mem` checks it there. It holds for every `MemSize` and width of `mem_size_t` that `MemAssumption` allows (both multiples of the alignment, and the width beyond the heap, so that sums of offsets do not wrap; sizes asked for may).

The inductive invariant `HeapInv` has four parts. `ListInv` is the list: every struct but the end has its successor behind it, far enough and with nothing between, and the links back agree. `NoHoles` says that no two unused structs follow each other, `LfreeInv` that `lfree` is the lowest unused one, and `HeldInv` that the used structs are those of the blocks held, each with room for what was asked. The loops of `mem_malloc` (first fit from `lfree`, and the next unused struct) are written as the lowest offset with a property, because the list is in the order of the offsets; that the lowest exists is a lemma from the well-foundedness of the naturals. The calls are put together from four changes of the list, each with a lemma of its own: splitting a struct off, swallowing the next one, moving a free one down, and changing the used flag. The endless loop of the failed assertion in `mem_trim` is an end state (`stuck`) with the heap as it was before the call.

## Arp: packets that wait for an address

A packet for an unknown address waits in `atPacketQueue` until the cache entry of the address is answered or given up. Cache and queue are two arrays tied together by the IP address only. The actions are the sending of a packet with the routing of `ipv4.c` (an echo answer is such a packet), the processing of a reply and of a request, the timer for any set of requests whose time is over, and the driver that takes a frame back. Frame buffers have an owner.

Properties: `NoPacketStranded` (every waiting packet has a pending request), `FramesAccounted` (*proved*: a buffer has one owner), `SentToFirstHop` (a packet leaves for the MAC of its destination or of the gateway, also when an entry has been reused), `WaitsEnd`.

Run `arp`: two cache entries and two queue slots, three local addresses and one behind the gateway, three frame buffers. More addresses than entries makes the replacement run. Fairness: the time-out of each pending request elapses.

`ArpProofs` proves all but `WaitsEnd` for any sizes with `QueueMax <= CacheMax`. The code relies on that without a check: when every entry is pending, `arp_set_mac_request` overwrites entry 0. The inductive invariant adds that every pending request has a waiting packet and that no two entries have one address, so there are never more requests than queue slots.

## Udp, Tftp, Dhcp, Dns and NetBoot: the in-house clients

Each client is a module over the port table `Udp`, with its own servers and a network that loses, repeats, delays and reorders. `NetBoot` composes them: requests in any order, timers at any time, and datagrams handed to the first entry with the port. Packets that were sent stay in a set and may be answered any number of times; a TFTP packet is gone after `Lifetime` newer blocks, because block numbers are reused.

Properties: `FileIntact` (what is loaded is a prefix of the file asked for, no block twice and none of another transfer), `TftpIsTransfer`, `AnswersBelong` (`SettingsBelongTogether`: address, netmask and gateway are of one lease, the one requested in this transaction; `AnswerFitsName`: the address is that of the host asked for last), `PortsAccounted` (no client loses its port to another or leaves it behind, except an answered DNS request), `RequestsEnd`.

Run `boot`: a table of two entries, three requests, files of four blocks and of one, block numbers modulo 3, one retry. The block numbers wrap within a file, the table can be full, and answers to an earlier request meet a later one. Fairness: the timer functions of all clients are called again and again.

`BootProofs` proves `FileIntact`, `AnswersBelong` and `PortsAccounted` and the refinement `TftpIsTransfer` of the composition, for any files, servers, names, table size, number of retries and range of block numbers. Assumptions about the constants: the `Lifetime` of a TFTP packet is less than the range of the block numbers (65536 in the code), and there are at most as many requests as local ports (`PortsAssumption`, 64512 in the code), since the client has nothing but its port to tell a packet of an earlier transfer from one of this.

The inductive invariant `BootInv` is one part per module. `TableInv` has the types of the port table. For TFTP, `TftpPortInv` ties the client to its entry, `FreshInv` says that the next port has not been used by any packet or session, `ServerInv` that a session at the current port is for the current file and at most one block ahead, and `CountInv` that block numbers are indices modulo their range; an accepted block is then the next one because two indices less than the range apart with the same remainder are equal (`ModUnique`). For DHCP, `LeaseInv` says that all requests of a transaction are for one lease and none of an earlier one has its ID. For DNS the entries in use are not more than the requests made. A step of one client leaves the entries of the others alone (`KeepsOthers`), and that is all the others need to know of it: each client's invariant is shown to survive any step with `KeepsOthers`, so the composition is proved client by client.

## What the passing runs show

| Run | Distinct states | Question |
|---|---|---|
| `app` | 341,139 | do devices, messages and lamp agree, whatever fails or is lost |
| `info` | 174,963 | is every file accepted or refused rightly, inside the buffers |
| `http` | 3,831 | does a download mean what it returns, in every segmentation and ending |
| `send` | 388,519 | are pcbs accounted for, is success an acknowledgement, do calls return and pcbs come back |
| `eth` | 186,934 | are frame buffers conserved and intact beside the hardware |
| `sha` | 46,904 | is the padding right and does the wait end |
| `wfp` | 222,704 | is the image on the devices when 0 is returned |
| `tcp` | 4,793 | does the application get the stream, whatever is lost, repeated or reordered |
| `mem` | 73,932 | does every packet keep its own memory and bytes |
| `arp` | 127,428 | is every waiting packet sent to the right host or released |
| `boot` | 327,930 | do three clients with one port table get what they asked for |

Deadlock checking is off where the program ends (it returns, blinks a fixed sequence or hangs) or the bounds end it (`mem`, `arp`, `boot`, `tcp`, `send`), and on in `eth`, which runs forever.

## Disagreements between code and text

`http_assert` is a run of `PROJECT.json` that ends in a counterexample to `RefPositive`: a pbuf is freed twice when the buffer is full, and the program hangs in an assertion instead of exiting with an error.

Three more have a configuration that is not among the runs of `PROJECT.json`; each ends in a counterexample in seconds with `tlc -config <cfg> <module>`.

| Configuration | Module | Property | What |
|---|---|---|---|
| `MCHttpHash.cfg` | `MCHttpDownload` | `HashOfData` | a chunk of one byte feeds two to the hash unit |
| `MCSendHandle.cfg` | `MCSendMessage` | `HandleLives` | a pcb that the stack has freed is closed again |
| `MCSendBuffer.cfg` | `MCSendMessage` | `MessageLives` | the message on the stack is still referenced after the return |

The others are visible in the definitions that had to follow the code instead of the text:

- A chunk wipes an earlier one in the same erase block and `processWfp` still returns 0, reported as "Flashed the complete WFP." Hence the premise `Disjoint` in `Wfp`.
- A header has 11 bytes and the size test asks for 12 (`HeaderNeed`); a chunk without data is refused at the end of an image and accepted elsewhere.
- A file of exactly the buffer size is refused (`dl.cnt` stays below `BufferSize`, see `DlType`).
- `parseInfoFile` needs a character behind the 96 digits (`Accepted`), and refuses a name of the length its message allows (`NameFits`).
- The program can take the last pointer of the EMPTY FIFO when the XC unit takes one between test and read; the comment promises one for the XC unit. `NoPopOnEmpty` is what remains true.
- The mask of `BLINKI_M_DOWNLOAD_SWFP_FAILED` differs from its drawing in one lit entry.
- `mem_trim` fails its assertion "invalid next ptr" (`mem.c`) when the block it shortens is the last of the heap and what is cut off is large enough for a block, though nothing is wrong; the assertion is an endless loop (`TrimSplit`). `pbuf_realloc` of a packet from the heap gets there.
- `tcp_fasttmr` clears the flags of a delayed acknowledgement also when it could not be sent, while `tcp_send_empty_ack` sets them again with the comment "let tcp_fasttmr retry sending this ACK" (`FastTimer`). `Delivered` holds because the peer repeats.
- `arp_send_ipv4_packet` neither queues nor releases a frame when the packet queue is full. The buffer is then "lost" in `Arp` for good.
- An answered DNS request keeps its entry of the port table (`DnsRec`, and the last conjunct of `PortsAccounted`), and a DHCP client that has got an offer and no frame for its request waits with a closed port until its retries are over.

## Proved and only model-checked

Proved for every value of the constants, from the assumptions named in the modules:

| Module | Proved | Only model-checked |
|---|---|---|
| `FlashApp` | `TypeOK`, `VerifiedOnly`, `GreenIsFlashed`, `ReportsTrue`, refinement `IsStation` | `Settles` |
| `InfoFile` | `InfoTypeOK`, `InBounds`, `ParsesRight` | |
| `Sha384` | `ShaTypeOK`, `PaddedRight` | `HashComes` |
| `HttpDownload` | `HttpTypeOK`, `SuccessIsComplete`, `CompleteSucceeds`, `CallbacksFindFrame`, `TimeoutOnlyIfIdle`, refinement `IsTransfer` | `Returns` |
| `SendMessage` | `TypeOK`, `PcbsAccounted`, `SuccessIsAcked`, `ConnectFindsFrame`, action property `NoPcbOnlyIfAllBusy` | `CallsReturn`, `PcbsComeBack` |
| `EthDriver` | `TypeOK`, `FramesConserved`, `NoPopOnEmpty`, action property `FramesIntact`, `RoundTrip` | `Drained` |
| `Wfp` | `TypeOK`, `ProgramOnErased`, `OnlyNamedCells`, `PassedChunksOnDevice`, `DisjointFlashedComplete` | `Terminates` |
| `Arp` | `TypeOK`, `NoPacketStranded`, `FramesAccounted`, `SentToFirstHop` | `WaitsEnd` |
| `NetBoot` | `FileIntact`, `AnswersBelong`, `PortsAccounted` (with `TypeOK`), refinement `TftpIsTransfer` | `RequestsEnd` |
| `Mem` | `HeapSound`, `RefusesOnlyIfFull` | |
| `Pbuf` | | `RefCount`, `LengthsTrue`, `ChainIsSequence` |
| `TcpRecv` | `PcbSound`, `InOrder`, `AnnouncedIsTaken`, action property `EdgeNeverBack` | `Delivered` |

Each is shown from an inductive invariant with one lemma or step per action. What is only model-checked: all liveness, because the prover does not reason about fairness; and `Pbuf`, whose operations walk along chains with RECURSIVE operators: the prover has no SMT backend in a module with such operators, and what they compute for every chain would need induction over data.

## Not modelled

- `progress_bar.c` prints. Its call of `network_cyclic_process` during flashing is a poll like any other.
- `crc32.c`, `rng.c`, `options.c` and the malloc stub have no control; the CRC is an outcome of a test in `FlashApp`.
- `init.S` and the XC microcode: assembler and generated tables. The register definitions are tables as well; the FIFO element format is used in `EthDriver`.
- `setupNetwork` copies addresses from the ROM in a straight line; it is the initial state of `EthDriver` and an outcome in `FlashApp`.
- lwIP, sending: retransmission of own data, congestion control and options. A connection of the station sends one request or one short message, which `SendMessage` models up to the acknowledgement, with the retransmissions as time that passes.
- lwIP, packets: the searches of the HTTP parser (headers are abstract in `HttpDownload`), `pbuf_take`, which fills a new packet from a frame buffer, and `pbuf_chain`, `pbuf_dechain` and the copying between chains, which only ARP, ICMP and UDP use.
- lwIP, the rest: its ARP, IP and UDP, the timer list, and the protocols that the build configures out or that no code of the station reaches (IPv6, PPP, SNMP, MQTT, sockets and others). They are most of the lines of the tree.
- In-house stack: `buckets.c`, which nothing calls, and `checksum.c`; a packet with a wrong sum is a lost one. Names are atoms in `Dns`, so the packing of labels is left out.
- The flasher library is not in the repository's sources and appears in `Wfp` by what its callers rely on.
