# TLA+ models of libgloss-cpm68k

libgloss-cpm68k is the C run-time layer under newlib for CP/M-68K: the stdio
part of the CP/M C library (`src/cpmlib`), made to answer POSIX names, and the
tools (`src/tools`) that turn an ELF executable into a CP/M-68K command file.
This directory holds its specifications, the model-checking runs, and proofs.

`PROJECT.json` lists the components, the runs, the source lines every
definition stands for, the deviations found, the hazards and the theorems.

## 1. The system

CP/M-68K runs one program at a time. Nothing in `cpmlib` is concurrent: no
thread, no interrupt handler, no callback. Every call runs to its end before
the next one begins, so in the models **each call of the library is one step**.
What makes this code hard is not interleaving but *sequence*: a handful of
flags, an offset, a label and a high water mark are set in one function and
trusted in six others, and long runs of legal calls reach states no test
visits. The second source of difficulty is failure: BDOS may refuse a sector or
a directory entry in the middle of a call.

### Components

| component | sources | state | operations | modules |
|---|---|---|---|---|
| Channels | `channels.c` `open.c` `__open.c` `creat.c` `close.c` `unlink.c` `rename.c` `_main.c` | `_chvec` (bits of allocated channels), `_fds` (16 CCBs: flags, FCB), `errno`; the directory of the disk | `open` `opena/b` `creata/b` `close` `unlink` `rename`, start-up | `FdTable` `Channels` `ChannelsProofs` |
| BinFile | `readbin.c` `writebin.c` `blkio.c` `lseek.c` `filesz.c` `fstat.c` `read.c` `write.c` + open/creat/close | one CCB: flags, offset, `sector` (label of the buffer), `hiwater`, a 128-byte buffer; the sectors on disk | `read` `write` `lseek` `fstat` `open` `creat` `close` on a binary file | `ByteFile` `Ccb` `BinFile` `BinPrograms` `MCBinFile` `MCBinPrograms`; `BinProofs` |
| AscFile | `readasc.c` `writeasc.c`, the ^Z half of `filesz.c` and `close.c` | the same CCB | the same calls on a text file | `TextFile` `Ccb` `AscFile` `MCAscFile`; `AscFileProofs` |
| Console | `ttyin.c` `wrtchr.c` `ttyout.c` `lstout.c` `isatty.c` | ATEOF of each device channel; the keys typed ahead | `read` `write` `lseek` on CON: and LST: | `Console` `MCConsole`; `ConsoleProofs` |
| Relocation | `elf2cpm68k.c` `elf.py` `elf2cpm.py` `cpm.py` | the relocations kept, the relocation table being written | scan, check, write; load, save | `Relocation` `MCRelocation`; `RelocationProofs` |
| UserNumber | `chkuser.c`, its callers `__open.c` `unlink.c` `rename.c` `close.c` `blkio.c` `filesz.c`, and `bdos.c` | BDOS's user number, `fp->user`, the directory | every call that switches the user number and back | `UserArea` `ProgramProofs` |
| ParseFn | `parsefn.c` | none (a function of the name) | name to FCB | `ParseFn` `FileName` `ProgramProofs` |
| Heap | `sbrk.c` | `_brk` | `sbrk` `brk` | `Heap` `ProgramProofs` |
| Args | `_main.c` | the tail, `argv`; and all of the three above | tail to argv, calls of main, exit | `Args` `Program` `MCProgram`; `ProgramProofs` |
| TestProgram | `main.c` | two channels over one or two files | counts, seeks, copies | `Copy` `CopyProofs` |
| Sgtty | `sgtty.c` `ttyinraw.c` | the sgttyb in the FCB | `stty` `gtty`, raw input | not modelled: no code sets ISSPTTY |
| Startup, Build | `crt0.S` `abort.S`, headers; Makefiles, notes | none | | not modelled |

### How they interact

* `open`/`creat` take a channel (Channels), clear its CCB with `__chinit` --
  which leaves the *buffer* as it was -- parse the name, ask BDOS, and then use
  `lseek(fd,0,2); lseek(fd,0,0)` to learn the size of the file.
* `read` and `write` look at the flags and go to `_rdbin`/`_wrtbin`,
  `_rdasc`/`_wrtasc`, `_ttyin` or `_wrtchr`. The four disk routines share the
  buffer protocol (flush if dirty, load, label), each with its own variation.
* `lseek` changes the offset only; the buffer notices at the next transfer,
  when the label no longer matches. `lseek(…,2)` and `fstat` call `_filesz`,
  which believes the high water mark when the buffer is dirty and BDOS's
  FILSIZ when it is not.
* `close` on a text file calls `lseek` and `write` itself (^Z), then flushes,
  closes the FCB, clears the CCB and frees the channel, whatever failed.
* Every BDOS call on a file is made between `_chkuser` and `_uchkuser`, with
  the user number `__open` kept from the name, or 0 for "wherever the program
  is".
* `_main` turns the tail into `argv` with `realloc`, and so with `sbrk`, before
  `main` runs; `main` passes arguments to the calls, which parse them.
* Two channels share nothing but the disk. `exit` closes nothing.
* The converters run on the host; what they write is read by CP/M's loader and
  by `cpm.py`.

### What makes each component correct

* **Channels**: a descriptor in use is never handed out, disturbed or lost; an
  error path gives back what it took.
* **BinFile**: with the dirty buffer laid over the disk, a channel is a
  sequence of bytes with an offset; a dirty byte is never dropped; a channel
  opened for reading never writes.
* **AscFile**: a channel is a text: returns before newlines on the disk,
  none for the reader, the end where the writer left it.
* **Console**: no key is lost between reads; the output is the text with
  returns, whatever its length and its dollar signs.
* **Relocation**: the loader moves every pointer of the program and nothing
  else.
* **UserNumber**: the program is where it was after every call; a call touches
  the area its names say and no other; an open file stays in its own.
* **ParseFn**: a name means what the grammar says, in exactly one way.
* **Heap**: two pieces of memory never overlap each other, the program or the
  stack.
* **Args**: the program gets the words that were typed.
* **TestProgram**: its assertions hold, its copy is a copy, and it ends.

## 2. The modules

### FdTable, Channels, ChannelsProofs

`Channels` has `_chvec` as the set `chvec`, the CCBs as records of flags and
file, the directory as a set of names with `DirSize` places, and the answer and
`errno` of the last call. There is one action per call and outcome: `OpenFound`,
`OpenMissing`, `Created`, `CreateFailed`, `Close`, `BadChannel`, `Unlink`
(which borrows a channel), `Rename`, and for the POSIX `open` the five ways
through it (`PosixOpen…`). `_allocc` takes the lowest free bit: `FirstFree`.
`asked` is a history variable: was this channel opened to be written? When
`open` passes -1 to `close` (no channel left, `O_CREAT|O_EXCL`) the code reads
`_fds[-1]`; the model takes the outcome in which no channel changes.

`FdTable` is what the layer promises: an open binds a free descriptor, a close
unbinds the one it is given whatever it answers, everything else leaves the
table alone. `ImplementsFdTable` is the refinement; a closed CCB counts as
`Blank`, whatever a failed open left in it.

### Ccb, BinFile, ByteFile, and their proofs

`Ccb` has what both kinds of disk file share: the CCB (`fp`), the disk as a
function from the sectors written to their bytes, `io` (the last call, its
arguments and its answer), `Flush`, `Load`, `RaiseHiwater`, the arithmetic of
`lseek`, `__chinit`, and the properties of the buffer.

A C function becomes a chain of operators on a record, the *call in progress*
(`Begin`, then `Fail` or `Return`): its CCB, its disk, the bytes moved, the
count left and whether it has returned. So `RdBin` is
`ReadTail(ReadDirect(ReadHead(Begin(n))))`, the three parts of `_rdbin`, with
the early returns as `done`; `WrtBin` is `_wrtbin` from labelling the buffer to
its end. The action commits the record. `bad` is the set of sectors BDOS
refuses to write during this call. The byte counts and `xsector` of `_wrtbin`
are UWORDs (`U`).

`ByteFile` is a file of bytes: no sectors, no buffer, no label. Under
`ImplementsByteFile` its content is what the channel shows (`Shown`): the dirty
buffer over the disk. Outside the range of a write only bytes that did not
exist may come into being (the zeros of a new sector). The high water mark is
part of the file, because a program sees it: a write that meets a byte the file
does not have below the mark answers EIO although nothing failed (section 4),
and a seek to the end answers the mark or the end of the last sector. So
`ByteFile` says of each call where it leaves the mark. Everything else is as
`read.c`, `write.c` and `lseek.c` promise: on a channel that may be written and
with no such hole a write succeeds, and a seek lands where its sense and offset
say.

### AscFile, TextFile, AscFileProofs

`_rdasc` and `_wrtasc` go through the buffer a character at a time; `ReadSector`
and `WriteSector` are one round of their outer loop, which `RdAsc` and `WrtAsc`
iterate over enough rounds (`Rounds`) for the whole file. `Scan` stops at a ^Z, at the count, or at the sector's end;
`Stream` is what the writer puts out, with the inserted returns marked as not
the caller's; `Fill` returns the caller's count up to the current sector when
BDOS refuses it. `Filesz` looks for the ^Z in the last sector.

`TextFile` is a text with a position: `Lined` puts the returns in, `NoReturns`
takes them out, and the text ends where its last writer was. The mapping takes
the high water mark for the end while the file is open and the first ^Z once it
is closed.

### Console, ConsoleProofs

`Conbuf` and `WriteStr` are BDOS's line input and string output (external): a
line ends with Enter, which is taken but not given, or with a full buffer;
a string ends at a dollar sign. `TtyIn` is `_ttyin` without its ISSPTTY branch,
`WrtChr` the chunks of `_wrtchr`, with the count of what is left in a UWORD, and
`TtyOut` the dollar signs of `_ttyout`.
`seen`, `got` and `plugged` are histories: what BDOS took, what the program
got, and where `_ttyin` ended a line at its own limit of 255 characters with a
newline nobody typed.

### Relocation, RelocationProofs

An ELF file is the sequence of its relocations: where, of what kind, to what
address, weak or not, undefined or not, in a loaded section or not. The
converters cannot tell an undefined symbol from one that is defined at 0; the
properties can. The C converter scans them,
checks their order and writes the table word by word, padding with an unsigned
difference (`Gap`); the Python one collects them and encodes the table at once;
`Load` and `Save` are those of `cpm.py`. Relocation tables made elsewhere (with
16-bit pointers) enter at `Load`.

### BinPrograms, MCBinPrograms, BinProofs

The programs for which a binary channel is a file of bytes, as one
specification over `BinFile`: those that seek anywhere and move what goes
through the buffer (`Seeking`; `Bypasses` says which requests do not), and
those that move any number of bytes and never seek (`Straight`). `MCBinPrograms`
gives it values.

### Copy, CopyProofs

Two channels at once. `Copy` is the binary part of the repository's test
program, one action per call, with its assertions (`Assert` goes to `abort`,
closing nothing). It has three instances of `BinFile`: `Src` on the file that is
read, and for the channel that is written `New`, over a disk of its own, and
`Same`, over the disk of `Src` -- the same file open twice, two buffers and two
high water marks over the same sectors. The test program reads one byte at a
time and writes to README.TX2, which may be there already: then `open` gives a
channel to read it (`target = "there"`), and the first write fails. Here `chunk`
may be larger, and `target` may be the file itself, opened by `_open` to be
written, which no test does. `refused` is a history: what BDOS was to refuse in
the last write.

### UserArea

`Area(newu)` is the area BDOS works in between `_chkuser(newu)` and
`_uchkuser`, and `Uchkuser(newu)` the user number after both. Each action is a
call with the parsed names it got: `BadName`, `OpenFile`, `CreateFile`,
`UnlinkFile` (all through `__open`; `Chinit` clears the channel's user number,
`Named` sets it), `RenameFile`, `Transfer` (`_blkio`, `_filesz`), `CloseFile`,
and `SetUser`, the program's own BDOS call. The directory search is BDOS's
(`Found`, external), with question marks. `home` and `did` are histories:
where a channel's file is, and in which area the last call worked.

### ParseFn, FileName

`ParseFn` is `_parsefn` with `get_token`, `_strcpy` and `stuff_drive` on
sequences of character codes, with the widths of BYTE and WORD. `FileName` is the
reference: the *readings* of a name are the ways to place a colon, a dot and a
semicolon in it so that the pieces are what `#d:filename.typ;passwd`
(`parsefn.c:22`) wants: a semicolon begins the password, and is in no name and no
type. `NamesRead` says that a name with a reading is accepted, with the fields
that this one gives, and that a name which is accepted has one. The code keeps
neither for all names. `Seen` are the readings whose password it sees: those
where the semicolon stands behind a star or a token of full length. `Clear`
excludes three kinds of names which it accepts and the grammar does not: those
with a semicolon elsewhere than behind a star, with a user number of three
digits or more, and with a character below `A` for a drive.

### Heap

Addresses are numbers modulo `2 * Half`; `Sbrk` and `Brk` have the rounding, the
comparison with the stack and the answer of the code, for any request. `held` is
the set of addresses the program has been given and has not given back.
`astray` is a history of the requests that `brk` should not accept and has
accepted: for a break below `_end`, and for the top address, which it rounds
to 0.

### Args, Program, ProgramProofs

One step of `Args` is one round of the loop of `parse_args`: the tail is a
sequence in which a delimiter is overwritten with a NUL (`Erased`), an argument
is a place in it, and `AddArg` takes memory from the heap (`Realloc`,
external). `Written` is the line as a user types it, from words, quotes and
gaps. `Program` composes `Args`, `Heap`, `ParseFn` and `UserArea`: the tail is
parsed, then `MainCalls` gives any two arguments to any call, or
`MainAsksMemory`, until `Exit`.

## 3. The runs

| run | shows | size |
|---|---|---|
| `channels` | types; opened implies allocated; refinement of `FdTable`; a channel is lost only by a failed creation | 3 channels, 2 names, directory of 1 |
| `channels_writable` (violated) | `open(O_RDWR)` of a file that exists gives a read-only channel | same |
| `bin` | `BinFile` implements `ByteFile` for programs that seek anywhere with requests that go through the buffer, and for programs that move up to 5 bytes, whole sectors bypassing the buffer, without seeks (a write fails only at a hole below the mark or when opened to be read); for the first kind a clean buffer is what the disk has; the high water mark covers the file | sectors of 2 bytes, 3 of them, bytes 0 and 1 |
| `bin_faults` | with seeks, `fstat`, bypasses and sectors that refuse to be written: a dirty byte is not dropped unless `close` says so, a dirty buffer belongs to an open writable sector, a read-only channel changes nothing | 2 sectors may fail |
| `bin_stale_read` (violated) | a read of a whole sector misses the byte that was written last and is in the dirty buffer | 2 sectors, writes of single bytes |
| `asc_text` | `AscFile` implements `TextFile` for programs that write forward (append or overwrite from the start) or read | sectors of 2, texts up to 3 characters of return, newline and letters |
| `asc_faults` | with rewinds, reads in between and a sector that fails: what `write` counts is in the file; a dirty buffer is not dropped | 3 sectors |
| `asc_seek_end` (violated) | a seek to the end of a text being written goes behind it | 3 sectors |
| `console` | keys are not lost, output is what was written with returns, up to what a UWORD counts | chunk of 4, line limit 3, scripts up to 6 keys, UWORDs up to 6 |
| `relocation` | elf2cpm68k stays in its array; its table has the right length; both converters relocate the pointers and nothing else, but for two exceptions of elf2cpm68k and one of elf2cpm.py; `cpm.py` writes back what it reads | up to 3 relocations, all tables of 6 words over 5 codes |
| `copy` | the test program's assertions hold for chunks of every size but for a write that fails because README.TX2 was there or BDOS refused a sector, the copy is equal, the source is intact at every moment, and the program ends | file of 1 to 3 sectors of 2 bytes, chunks of 1, 2, 3, 5, each target, no sector or one of the first two refused |
| `program` | `argv` is what was typed; names parse as the grammar says, but for the kinds `Seen` and `Clear` name; memory does not overlap until `brk` has accepted what it should not; user areas are kept | all names of up to 4 of 9 characters; up to 3 words in any quotes; 32 addresses; 2 areas, 2 channels, 2 files |

**Bounds, and why they are enough.** The code treats a position only by its
sector and its place in the sector (first, middle, last), and a request by
whether it ends before, at or behind a boundary and how many whole sectors it
has. With sectors of two bytes a place is first or last and every request of 1
to 5 bytes has a head, 0 to 2 whole sectors and a tail in every combination;
three sectors are needed to have one before, in and behind the buffer. Two byte
values tell a byte from the zero fill and from another byte. `_fds` has 16
entries in the code and is never indexed but by the number allocated; three are
what stdio takes, so freeing and taking happens at the limit. A directory of
one entry fills at once. The console's 128 and 255 are only compared with a
count; 4 and 3 let a chunk and a line end at, before and behind every character
of the scripts. The relocations have targets at the beginning, inside and at
the end of each segment, in the padding and beyond.
In `program` fields and tokens are 2, 1, 1 and 3 long, so that a name of four
characters can be shorter than, as long as and longer than each of them; the
tail is cut at 8 characters, which the longest lines pass (nothing is said of
them); no line begins with a blank, and the blanks of a line are not tabs. 32
addresses leave room for five words between `_end` and the stack, so that
requests of -2 to 3 are refused, fit exactly and fit; `brk` is asked for
addresses below, at and above `_end` and for the top one. Two areas are "mine"
and "another". A copy of three sectors has a first, an inner and a last one.

A UWORD has 7 values in `console`, and a text may be of 7 characters or more.
The runs of the disk files stay far from 64 KB and 8 MB, where their 16-bit
counters wrap: see the deviations below.

**Guards that are the runs', not the code's.** `Rewinds`, `Fits`, `Stats`, and
the sets `Seeks`, `Data`, `ReadSizes`, `Faults`, `Chunks`, `Lines`, `Incrs`,
`Breaks`, `Stacks`, `Disks` say which programs and machines are looked at.
`BinPrograms` leaves out requests that cover a whole aligned sector in
programs that seek, and `Rewinds = FALSE` reading or going back in a text that
is being written: with them the refinements do *not* hold, and `bin_stale_read`
and `asc_seek_end` show why. `Worked` and `Hungry` say with which command lines
`main` makes calls and asks for memory: the parsing of the others is looked at,
their calls would be the same again. `Parsed` are the names those calls get; there is
none with a user number of three digits among them.

**Deadlock** is checked except in `relocation`, `copy` and `program`, where a
conversion or a program ends.

**Fairness** is stated in `Copy` alone: `WF_vars(Next)`. CP/M runs one program
and every call returns, so while the program has a call to make it makes it;
`Terminates` then says that its loops end, which depends on what `read` answers
at the end of a file. The other specifications are driven by a program that may
stop calling at any time, and claim no liveness; loops within a call are bounded
by its byte count. The only wait is the one for a key.

**What BDOS is taken to do** (external). A sector that was never written cannot
be read. A write may be refused, a read of a written sector not. FILSIZ is the
last sector written plus one. OPEN finds exactly the files in the directory,
DELETE removes, CREATE fails only when the directory is full, CLOSE may fail
(in `Channels`). In `UserArea` OPEN takes one of the files that fit the question
marks, DELETE removes all of them, and RENAME refuses them.

## 4. What the models show beyond what holds

Deviations with a run (`findings` in `PROJECT.json`):

* `open.c:86` -- a file that exists is opened read-only whatever the flags.
  When README.TX2 exists, the test program's own assertion at `main.c:82`
  fails: `AssertionsHold` of the run `copy` names this case.
* `readbin.c:83` -- direct reads do not see the dirty buffer: after a rewind, a
  write of one byte and another rewind, a read of the whole sector delivers the
  old byte.
* `filesz.c:72` -- the end of a text being written is looked for on the disk.

Deviations known from reading or from earlier runs, without a run of their own:

* `creat.c:57` -- a creation that BDOS refuses (directory full) keeps its
  channel for ever; after 13 of them every open answers EMFILE. `LeakThm` and
  `LeakOnlyByFailedCreate` say this is the only way to lose a channel.
* `channels.c:132` -- `_chkc` has no lower bound; `open` with
  `O_CREAT|O_EXCL` passes it -1 when `_open` failed for any reason but ENOENT.
* `writebin.c:60` -- a sector at or below the high water mark is read before
  bytes are put into it, and if the file does not have it the write answers
  EIO, although nothing failed. A program gets there with two writes: creat,
  lseek to 5, write 1 byte (a hole, and the mark behind it), lseek to 0, write 1
  byte. `write.c:7-9` says "Any arbitrary number of bytes are written ... No
  special alignment of file or buffer is required". `ByteFile!WriteFails` says
  that this is the only way a write fails while BDOS refuses no sector.
* `writebin.c:98` -- a direct write leaves old bytes in the buffer under the
  label of the sector it wrote; reading back gives the old bytes.
* `lseek.c:70` -- a seek before the beginning leaves the offset at -1, whose
  sector is the label of an empty buffer: a read then delivers what the buffer
  held.
* `readbin.c:91` -- a read that starts behind the end raises the high water
  mark without moving a byte.
* `filesz.c:39` -- a seek to the end answers the high water mark while the buffer
  is dirty, and the end of the last sector when it is not: the end of a file
  depends on where a program has read and on what has been flushed.
* `fstat.c:30` -- `fstat` restores the offset but leaves ATEOF set: the next
  read answers 0.
* `writebin.c:88` -- a write of a full buffer that BDOS refuses leaves its
  bytes in a buffer that is labelled and clean.
* `writebin.c:102` -- byte counts are UWORDs: `nsector*SECSIZ` of a request of
  65536 bytes is 0, and the rest is copied into the buffer past its end.
  `writebin.c:53` -- sector numbers too: beyond 8 MB writes wrap around.
* `wrtchr.c:59` -- what is left of a device write is counted in a UWORD: a text
  of a multiple of 65536 bytes is not put out at all, of a longer one only as
  much of its beginning as its length leaves modulo 65536, and write answers
  that all was written. `OutputLined` says what is put out.
* `ttyout.c:29` -- the `$` behind a chunk of 127 characters is one past
  `cp[SECSIZ]`.
* `ttyin.c:112` -- a request for more than 255 characters gets a newline after
  255 although the line goes on.
* `elf2cpm68k.c:325` -- a pointer to the end of the text, when there is padding
  behind it, or into this padding, is coded as one into the bss
  (`PastTheText`); and one to the beginning of the bss
  is data for `elf2cpm68k` and bss for `elf2cpm.py`. Contiguous loading hides
  both.
* `elf2cpm68k.c:305` -- a weak symbol that is *defined* at 0, the beginning of
  the text, passes for an undefined one, and pointers to it are not relocated
  (`WeakAtZero`).
* `elf2cpm68k.c:346` -- relocations that are closer than four bytes pass, and
  make the padding in front of the second a huge number. `RelocationAssumption`
  leaves them out: no linker makes fields overlap.
* `cpm.py:208`, `elf2cpm68k.c:484` -- a pointer at an odd address is coded
  astride two words.
* `elf.py:229` -- `elf2cpm.py`, which the Makefile uses, relocates an undefined
  weak reference, whose null pointer then points to the beginning of the text;
  `elf2cpm68k.c:304` passes over it. `PointersMoved` demands it of elf2cpm68k
  only.
* `sbrk.c:29` -- `brk(0xFFFFFFFF)` rounds to 0 and is accepted, and nothing keeps
  the break from going below `_end`: the next `sbrk` hands out memory that is
  held already, or the program itself. `GrantsApart` says what holds until then
  (`astray`); the run `program` makes both requests.
* `_main.c:124` -- `add_arg` does not look at what `realloc` answers (`wild` in
  `Args`).
* `parsefn.c:22` -- `;` is no delimiter (line 122), so `#d:filename.typ;passwd`
  puts the semicolon and the password into the type, or into the name (`A;b`),
  although lines 19 and 22 say that the password goes into bytes 16-23; a
  password is seen only behind a star or a full token (`Seen`).
* `parsefn.c:133` -- a token of 32 characters gets its terminator one past
  `tokbuf`.
* `parsefn.c:163` -- a user number of three digits wraps a signed byte: `255:X`
  passes as no user number at all. `parsefn.c:168` -- any character below `A`
  passes for a drive. `parsefn.c:173` -- drive P is refused. `Clear` in
  `FileName` leaves the first two out of `NamesRead`, and `OnlyThere` is about
  numbers that do not wrap.
* `rename.c:42` -- the drive of the new name is not compared with that of the
  old one.
* `close.c:53`, `blkio.c:48` -- a file that was opened by a name without a user
  number is read, written and closed in whatever area the program is in by
  then; `ServedAtHome` is about names with one.
* `sgtty.c:31` and `:46` -- `stty` and `gtty` copy the wrong way round
  (`blkmove` is to, from): stty gives, gtty sets. `ttyinraw.c:82` -- cases 0
  and 1 do the opposite of what the comment at lines 7-11 says. Nothing in
  `src/` calls any of them where it could show.

## 5. The proofs

`Arithmetic` has what several proofs need. Induction first, which the library states
with an operator for a parameter: a set of numbers has a least element, and a
greatest if it has a bound (`SmallestElement`, `GreatestElement`), induction up to a
bound (`UpTo`), and for a function that is defined by recursion up to a bound that
it exists and what its range is (`SomeSteps`, `StepsOf`). Then division: the lemmas on
quotients and remainders (`Quotient`, `Parts`, `Inside`, `InOrder`, `SameBlock`), for
sectors and for words, are nearly the only ones that multiply.

`ChannelsProofs` proves, for any number of channels from three up, any finite
set of names and any directory size (`ChannelsAssumption`):

* `ChannelTypeThm`, `OpenedAllocatedThm`: `Spec => [](TypeOK /\ OpenedAllocated)`,
  the types and that only allocated channels are open.
* `LeakThm`: `Spec => LeakOnlyByFailedCreate`.
* `RefinementThm`: `Spec => FD!Spec`, the refinement of `FdTable`.

The inductive invariant is `Inv == TypeOK /\ OpenedAllocated`. The type alone is
not enough: that `_allocc` hands out a channel nobody has open follows only if
every open channel has its bit set, and this is exactly what the refinement
needs for `FdTable!Open`. The argument goes in two layers. A lemma per call says
which of five effects it has on the channels -- nothing (`Kept`), a binding
(`Bound`), a channel borrowed and given back (`Borrowed`), one lost (`LostOne`),
one closed (`ClosedOne`) -- and that the other variables keep their types.
`StepEffect` joins them for `Next`; invariance, the leak property and the step
simulation are then case splits over five effects, not over fifteen actions.

The first part of `BinProofs` proves, for every sector size, UWORD size, file bound, set of
requests and set of faults (`CcbAssumption`, `BinFileAssumption`):

* `TypeThm`: `Spec => []TypeOK`.
* `DirtyOwnedThm`: `Spec => []DirtyOwned`.
* `ReadOnlyThm`: `Spec => ReadOnlyKept`.

The inductive invariant is `IInv == TypeOK /\ DirtyOwned /\ Bounded(disk)`. The
three need each other: a flush leaves a disk of the right type only if a dirty
buffer has a label (`DirtyOwned`), `_filesz` finds a last sector only if the
disk is bounded, and a read-only channel keeps its disk only because it is never
dirty, so that the flushes in `_rdbin` and `close` have nothing to write.
`Sound` says the same of a CCB and a disk in the middle of a call, plus that
the access stays what it was; `ReadCall` and `WriteCall` say it of the call in
progress. There is a lemma per primitive (`ReadFlushed`, `ReadLoaded`,
`WriteGiven`, ...), on these one per part of `_rdbin` and `_wrtbin`
(`ReadHeadSound`, ..., `WriteTailSound`), on these one per call, and `NextStep`
joins them. `SmallestElement` and `GreatestElement` (of `Arithmetic`) give the two
`CHOOSE`s of the model their values: the place where `_blkio` stops
(`TransferredStops`) and the last sector (`LastSectorType`).

The second part of `BinProofs` goes on from there to the bytes:

* `DirtyKeptThm`: `FitsUWord => (Spec => DirtyKept)`.

`FitsUWord` says that the file has fewer sectors, and a request fewer bytes,
than a UWORD counts. It is a hypothesis, not an assumption of the model, because
the code has no such guard: `_rdbin` and `_wrtbin` keep their counters in UWORDs,
and beyond them the property is false (`writebin.c:102`, `writebin.c:53` in
section 4). A byte is followed through the parts of a call. Of a read, `Same`
says that every byte shows as before. Of a write, `Labelled`, `Headed`,
`Directed` and `Written` say after each part how far it is and what is in the
buffer (the sector at hand, the sector just filled, or the dirty sector of
before), and `ByteOK` what has become of one byte: `Replaced` by the caller's if
the request reaches it, `Spared` otherwise. The difficulty is the dirty buffer
that a direct transfer passes by: it is safe because the sectors a request
covers as a whole lie behind the one its head begins in. `ByteResult` and
`Outcome` say the result of a whole write. The arithmetic of sectors
(`Place`, `SameSector`, `Within`, `UAdds`) is in lemmas of its own, on those of
`Arithmetic`.

The third part proves the file of bytes:

* `ByteFileThm`: `FitsUWord => (TwoSpec => ImplementsByteFile)`.
* `HiwaterThm`: `FitsUWord => (TwoSpec => []HiwaterCovers)`.
* `CoherentThm`: `FitsUWord => (TwoSpec => []SeeksCoherent)`.

They are about programs that seek and keep whole sectors out of their requests,
and programs that move whole sectors and do not seek, while BDOS refuses nothing
and nobody calls `fstat`. The inductive invariant is
`TwoInv == IInv /\ Calm(fp, disk) /\ Marked(fp, disk) /\ MarkEnds(fp, disk)`.
`InFile` keeps offset, label and disk within the file. `Fresh` is what the two
kinds of programs rely on: the sector in the buffer shows what is there --
unless a direct write has changed it on the disk, but then the program does not
seek, and has passed it for good. `Trails` says that what such a program left
dirty lies before its offset, so that a direct read does not miss it. `Marked`
says that nothing lies above the high water mark, without which starting a
sector with zeros would wipe out bytes. TLC has checked them on the values of the run `bin`. `MarkEnds` says that a mark in the middle of a sector
stands behind a byte the file has; with it a read that stops within a sector
raises the mark to its offset and no further. For the refinement a call is first shown to move
what it says (`Reading`, `Count`, `Ending` for a read, `ByteResult` for a write),
then to be a step of `ByteFile` (the lemmas `Byte...`); the lemmas `Two...` do
both for each call, and `TwoSteps` joins them. What a read does to the mark is
followed through its parts by `Ended` (`ReadHeadMark` to `RdBinMark`). That a
write fails only at a hole is `Gap`: a part of `_wrtbin` gives up only when the sector
at hand is not on the disk and lies at or below the mark, with bytes left for it
(`BelowMark`), and `TwoHole` makes of it the byte at which `ByteFile` fails.

The last part of `BinProofs` looks at a binary channel from the program's side, for the two
uses that a copy makes of it. A `Reader` goes through a file ("image") from its
beginning: `ReaderReads` says that a read delivers k bytes of the image, those
at the offset, that it moves on by k, and that k is 0 only at the end;
`ReaderSeeks`, `ReaderStats`, `ReaderOpens` and `ReaderCloses` say it of the other
calls. Its buffer holds the sector it is labelled with and is never dirty
(`Held`), so it never changes the disk. A `Writer` has written the image up to
its offset: what is before the offset shows the image, nothing else is there.
It is a straight program of `BinPrograms` (`Calm` and `Marked`), so that the
result of a write, byte by byte, is at hand. `WriterWrites` takes it one
excerpt further, unless BDOS refuses a sector; `WriterCloses` says that at the
end, when close does not fail, the disk is the image. `Onto` is the writer over
the image itself. That the disk then stays the image is not a fact about whole
calls, since a refused sector ends a write in the middle: `OntoLabel`, `OntoHead`,
`OntoDirect` and `TailDisk` say it after every part of `_wrtbin`.

`AscFileProofs` proves, for every sector size, file bound, set of requests, texts and
seeks (also to offsets before the first) and set of faults (`CcbAssumption`,
`AscFileAssumption`), with or without `Rewinds`:

* `AscTypeThm`: `Spec => []TypeOK`.
* `AscDirtyOwnedThm`: `Spec => []DirtyOwned`.
* `AscDirtyKeptThm`: `Spec => DirtyKept`.
* `AscCountedThm`: `Spec => CountedIsWritten`.

The inductive invariant is the `IInv` of a binary file. It says little because a
text file has little to rely on: after a seek the high water mark and a clean
buffer may be anything, and the theorems hold all the same. The work is in the
rounds. `ReadCall` says that after any number of rounds of `_rdasc` every byte shows
as it did when the call began. `WriteCall` says of `_wrtasc` that as many characters of
the stream as have been taken are in the file (`Counted`), and that what was dirty
before the place of the write is still there (`Ahead`); a call that goes on is at its
first sector or at the beginning of one (`Ongoing`), and if the first sector is the
dirty one it is in the buffer, dirty, until it is filled. A round flushes and loads
(`WriteFlushed`, `WriteLoaded`, which move no byte) and then fills: `Partial`,
`Rejected` and `Full` are the ways out of `Fill`, `MixedIs` what the buffer holds then,
`FillSound` what each byte shows, and `FillKeeps` puts them back into `WriteCall`. A
refused sector answers the count up to it, and since a character of the caller
counts one more than all before it (`ConsumedIs`), what is counted lies before that
sector. `WrtAscKeeps` is the induction over the rounds. For `close`, `AtEndSame` says
that its seek to the end goes no further back than the high water mark while the
buffer is dirty: its ^Z is written behind what was in the buffer.

`CopyProofs` proves, for every sector size, file, UWORD size, set of chunks and
set of faults (`CopyAssumption`), for each target:

* `CopyTypeThm`: `CopyFits => (Spec => []TypeOK)`.
* `AssertionsThm`: `CopyFits => (Spec => []AssertionsHold)`.
* `CopiedThm`: `CopyFits => (Spec => []Copied)`.
* `SourceKeptThm`: `CopyFits => (Spec => []SourceKept)`.

`CopyFits` is what `FitsUWord` is above: the file has fewer sectors, and a chunk
fewer bytes, than a UWORD counts. The test program's chunk is one byte, so it
satisfies it for every file of less than 8 MB. `CopyInv` is the inductive invariant, found
with TLC on the values of the run `copy`: the disk that is read is the file
(`Settings`); `Fd` says where the reader is at each `pc`; `Fd2` that the second
channel is a writer which is `count2` bytes into the file, or, of a README.TX2 that
was there, a reader which no byte ever leaves; `Between` that what
has been read and not yet written is the excerpt of the file at `count2`. The
assertions follow since both loops end only where a read answers 0, which is at
the end; a write fails only for one of the two reasons `AssertionsHold` names. `Copy` uses `BinFile` three times, so `BinProofs` is instantiated
three times (`SrcP`, `NewP`, `SameP`); the first part of the module says that
the calls of `Copy` are the calls of these instances, and `Instances` that what
their theorems assume of the constants follows from `CopyAssumption`. The
liveness of the program, `Terminates`, is model-checked.

The first part of `ProgramProofs` looks at a command line, for every line, `TailMax`, size and number of
words (`ArgsAssumption`). `Written` says what is in the tail by recursion over the
words; `Layout` says it without: `Ends` is where each word ends, with its blanks,
and `Laid` what lies where (induction over the words, with `UpTo` of `Arithmetic`). The inductive invariant is `ArgsInv`; its
heart is `ReadTo`: after k words `parse_args` stands among the blanks behind the
k-th, nothing from there on has been erased, and each of the k arguments
points to its letters, which end with a NUL that is not behind where it stands.
`QuotedWord` and `BareWord` say that the search for a delimiter ends behind the
letters of the word at hand; `GotNext` takes `ReadTo` from k to k + 1, and
`GotStays` is why an argument, a pointer into a tail that is still being cut up,
keeps its word. `ArgsGives` is what follows for main.

The second part reads file names. `ReadingTaken` and `TakenRead` say of every name (a sequence of
characters without NUL and ends of line, of any length) and all widths of the fields
that a reading of it whose password is seen gives what the code gives, and that a
name of none of the three kinds has a reading when the code accepts it. The code reads from left to right and never goes
back; a reading is a choice of places. `TokEndIff` says where `get_token` stops without
its loop, and `PartIs` where a name or a type ends, with or without a star (`Ending`).
`ReadingTaken` takes a reading and shows, place by place, that the code comes to the same
places; `TakenRead` builds a reading from the code's places. In front of a colon
`SpecIs` compares `stuff_drive` with "up to two digits and a letter", widths of WORD and
BYTE included (`NumberIs`, `DriveIs`); `PrefixTaken` and `PrefixRead` are the two
directions for the colon. They need a token of at least three characters
(`ParseFnAssumption`; `tokbuf` has 32), or a prefix would be cut in two. `NamesThm`,
`Spec => []NamesRead`, is then about what main is given: `NamesInv` says that no end of
line is in the tail -- CP/M ends a line there, so none of the words has one
(`ArgsAssumption`) -- and that every argument but the first points into the tail.

The third part proves the two other components that a program calls, and
composes all of them.

For every address width, `_end`, gap, set of stacks and of requests
(`HeapAssumption`), `HeapTypeThm` and `GrantsThm`. The requests are any; what
`brk` should refuse and accepts is in the history `astray`. The inductive
invariant `HeapInv` says that until the top address was accepted everything held
lies below the break, so that a grant, which begins there, overlaps nothing, and
that until a break below `_end` was accepted too, the break is behind the program.
`RoundedUp` has the arithmetic: but for the top one, an address is rounded up, or
wraps from below 0 to one far too high. `AcceptedStep` is what both calls share.

For every number of user areas, channels and names (`UserAreaAssumption`),
`AreaTypeThm`, `UserKeptThm`, `OnlyThereThm` and `ServedAtHomeThm`. The
inductive invariant adds to the types that an open channel whose name had a
user number still has it in its CCB, one more than the area its file is in.
`ThereAndBack` is `_chkuser` and `_uchkuser` together; there is a lemma per call,
and `CallStep` joins them.

`ProgramUsesHeap` and `ProgramUsesAreas` show that a whole program, from its tail
to its end, implements the specifications of the heap and of the user areas
(every step is one of theirs or leaves their variables alone), and
`ProgramGrants` and `ProgramAreas` carry their theorems over. `ProgramArgv` is
`Spec => []ArgvAsTyped`, and `ProgramTypeThm` joins the types of the three.

`RelocationProofs` proves, for every set of ELF files whose relocations are at even
places four bytes apart, every set of relocation tables, every image of even size
and every size of the converter's array (`RelocationAssumption`; the image is
smaller than the range of the unsigned differences, as any image in the memory of
a 68000 is):

* `RelocationTypeThm`: `Spec => []TypeOK`.
* `InArrayThm`: `Spec => []InArray`, the bound of `elf2cpm68k.c:312`.
* `TableFillsThm`: `Spec => []TableFills`.
* `PointersMovedThm`: `Spec => []PointersMoved`. The exceptions are in the
  property by name: `WeakAtZero` and `PastTheText` for elf2cpm68k, and undefined
  weak symbols for elf2cpm.py.
* `SavedAsLoadedThm`: `Spec => []SavedAsLoaded`.

The inductive invariant is `RelocInv`. `Kept` says that what a converter has
collected is, up to where it is in the ELF file, the pointers of that file, each
with the segment it belongs to and any two of them four bytes apart. `Holds` is
what a table says independently of who made it: it has these relocations at their
words, and nothing else. `Writing` says that elf2cpm68k, going from gap to gap, has
a table that holds the first `at` relocations and ends behind the last of them;
here the order of the relocations, which `sorted` checks, and the bound on the
image are needed, so that an unsigned difference is a difference. Encode puts the
relocations into an empty table one by one and comes to hold them all. Then the
way back: `Decoding` gives, word by word, what has been read of a table, and a table
that holds relocations that do not overlap is decoded to these, in the order of
their places. For `SavedAsLoaded` the table is any table, its relocations of 16 or of
32 bits: `UPPER` in front of a word that is no relocation is forgotten, and is not
written again.

`ConsoleProofs` proves, for every script of keys, all requests and texts and both
sizes of buffers (`ConsoleAssumption`; the newline is none of the two characters
that end a line and a file):

* `ConsoleTypeThm`: `Spec => []TypeOK`.
* `InputKeptThm`: `Spec => []InputKept`.
* `OutputLinedThm`: `Spec => []OutputLined`.

The inductive invariant is `ConsoleInv == TypeOK /\ InputKept`. Of input, `LineIs` and
`UpToEofIs` say how BDOS ends a line and how `_ttyin` cuts it, `KeptMore` what remains
of what the program got when the newlines that were made up are taken out again,
and `Delivers` that a read adds exactly the line to it. Output is followed through
the rounds of both loops. `PrintedTo` says of `_ttyout` that what is printed, with the
rest from `from` on, is the chunk, and that there is no dollar sign in between;
`Printed` is the result, that a chunk comes out as it is. `CodedTo` says of `_wrtchr`
that what is out and what is still in its buffer are together the characters so
far, with a return in front of every newline (the characters being those a UWORD
counts, `CountedIs`), and `PutIs` that the buffer, of
`SECSIZ - 1` characters, never takes more than it has room for.

Only model-checked: `ImplementsTextFile`, which asks for the text as a whole (that the
high water mark, the first ^Z and the end of the disk agree across close and open),
and for what a read delivers, in programs that do not go back in a file they write;
and `Terminates`, which is liveness.

## 6. Plan

Done, in this order: `FdTable`, `Channels`, `ChannelsProofs`; `Ccb`, `BinFile`,
`ByteFile`, `BinProofs`; `AscFile`, `TextFile`; `Console`; `Relocation`;
`Copy`; `Heap`, `ParseFn`, `FileName`, `Args`, `UserArea`, `Program` with the
proofs of the heap, the user areas and the program; the proofs that no dirty
byte is lost, of a file of bytes (`BinPrograms`, `BinProofs`), that a copy is a copy (`CopyProofs`) and of the words that were
typed (`ProgramProofs`) and of the names among them; `RelocationProofs`; `ConsoleProofs`; `AscFileProofs`.

Left:

1. A file deleted while it is open (`__open.c:66`), once BDOS's treatment of the
   freed blocks is written down.

## 7. Not modelled

* `Sgtty`, `ttyinraw.c` and the ISSPTTY branches of `ttyin.c` and `wrtchr.c`: no
  code sets the flag.
* `crt0.S`, `abort.S`: a few instructions of entry, trap and abort without state
  of their own.
* ELF headers and segments, the header of a command file: layout without
  control.
* The build, the notes and the headers.
