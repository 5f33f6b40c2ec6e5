------------------------------ MODULE Channels ------------------------------
(***************************************************************************)
(* The channel layer of cpmlib: allocation of channels (channels.c), and   *)
(* the calls that take and give them back: open, opena/openb, creata/      *)
(* creatb, close, unlink and rename.  CP/M runs one program at a time, so  *)
(* each call is one step.                                                  *)
(*                                                                         *)
(* The contents of the files are not here (module BinFile has them), nor   *)
(* the file types, ASCII or binary, which matter to the contents only; a   *)
(* file is in the directory or it is not.  BDOS is external: OPEN finds a  *)
(* file that is in the directory, CREATE fails when the directory is full. *)
(***************************************************************************)
EXTENDS Integers, FiniteSets

CONSTANTS MAXCCBS,   \* number of CCBs
          File,      \* the legal file names programs use
          BadName,   \* a name _parsefn refuses
          CON, LST,  \* the names of the console and of the list device
          NoFile,    \* the FCB of a CCB that was never opened
          DirSize    \* entries the directory of the disk has room for

Channel == 0 .. MAXCCBS - 1
Device  == {CON, LST}
Name    == File \cup Device \cup {BadName}

Failure == -1
Success == 0

READ  == 0           \* osif.h: the mode argument of _open
WRITE == 1

Flag  == {"OPENED", "ISTTY", "ISLPT", "ISREAD"}
OFlag == {"O_RDWR", "O_CREAT", "O_EXCL"}
Errno == {"OK", "EBADF", "EIO", "EMFILE", "ENOENT", "ENOSPC", "EINVAL", "EEXIST"}

(* Three channels for stdio, as _init takes; the names are all distinct.   *)
ASSUME ChannelsAssumption ==
  /\ MAXCCBS \in Nat /\ MAXCCBS >= 3
  /\ DirSize \in Nat
  /\ IsFiniteSet(File)
  /\ CON # LST /\ BadName \notin File \cup Device /\ CON \notin File /\ LST \notin File
  /\ NoFile \notin Name

VARIABLES chvec,   \* _chvec: the channels allocated
          ccb,     \* _fds: the flags of each CCB, and the file in its FCB
          dir,     \* the files that exist on the disk
          errno,   \* the errno the last call set, OK if it set none
          ret,     \* what the last call answered
          asked    \* history: was each open channel opened to be written?

vars == <<chvec, ccb, dir, errno, ret, asked>>

CCB == [flags : SUBSET Flag, file : File \cup Device \cup {NoFile}]

-----------------------------------------------------------------------------
(* Channel allocation and the CCBs. *)

Free   == Channel \ chvec
Opened == {c \in Channel : "OPENED" \in ccb[c].flags}

(* Mutant: the search forgets to test the bit. *)
FirstFree_NoTest(c) == \A d \in Free : c <= d

(* _allocc answers the lowest channel whose bit is clear. *)
FirstFree(c) == c \in Free /\ \A d \in Free : c <= d

(* The CCB after __chinit.  A CCB that is not open counts as blank: what a *)
(* failed open leaves in it is cleared before it is used again.            *)
Blank == [flags |-> {}, file |-> NoFile]

(* _chkc *)
IsOpen(fd) == fd \in Opened

ModeFlags(mode) == IF mode = READ THEN {"ISREAD"} ELSE {}
DeviceFlag(dev) == IF dev = CON THEN "ISTTY" ELSE "ISLPT"

Fail(e) == ret' = Failure /\ errno' = e
Answer(r) == ret' = r /\ errno' = "OK"

(* The history of a call that opened c. *)
Asked(c, towrite) == asked' = [asked EXCEPT ![c] = towrite]

-----------------------------------------------------------------------------
(* _open and _creat, one operator per way they end. *)

(* Mutant: the bit set is one too far. *)
Bind_NextBit(c, name, flags) ==
  /\ FirstFree(c)
  /\ chvec' = chvec \cup {c + 1}
  /\ ccb' = [ccb EXCEPT ![c] = [flags |-> flags \cup {"OPENED"}, file |-> name]]
  /\ ret' = c

(* The channel c is allocated and its CCB marked open. *)
Bind(c, name, flags) ==
  /\ FirstFree(c)
  /\ chvec' = chvec \cup {c}
  /\ ccb' = [ccb EXCEPT ![c] = [flags |-> flags \cup {"OPENED"}, file |-> name]]
  /\ ret' = c

(* CON: and LST: are opened without BDOS. *)
BindDevice(c, name, flags) ==
  /\ name \in Device
  /\ Bind(c, name, flags \cup {DeviceFlag(name)})
  /\ UNCHANGED dir

NoChannel == /\ Free = {}
             /\ Fail("EMFILE")
             /\ UNCHANGED <<chvec, ccb, dir>>

(* _open finds the file.  The two lseek calls touch only the offset and    *)
(* the high water mark.                                                    *)
OpenFound(c, name, mode) ==
  \/ BindDevice(c, name, ModeFlags(mode))
  \/ /\ name \in dir
     /\ Bind(c, name, ModeFlags(mode))
     /\ UNCHANGED dir

(* A name that is not in the directory and one that does not parse look    *)
(* the same to _open, which gives the channel back.                        *)
Missing(name) == name \in (File \ dir) \cup {BadName}

(* Mutant: _open does not give the channel back. *)
OpenMissing_NoFree(c, name, mode, e) ==
  /\ Missing(name)
  /\ FirstFree(c)
  /\ chvec' = chvec \cup {c}
  /\ ccb' = [ccb EXCEPT ![c] = Blank]
  /\ Fail(e)
  /\ UNCHANGED dir

OpenMissing(c, name, mode, e) ==
  /\ Missing(name)
  /\ FirstFree(c)
  /\ ccb' = [ccb EXCEPT ![c] = Blank]
  /\ Fail(e)
  /\ UNCHANGED <<chvec, dir>>

(* BDOS CREATE, after the DELETE __open issues: is there an entry left?    *)
RoomFor(name) == Cardinality(dir \ {name}) < DirSize

Created(c, name) ==
  \/ BindDevice(c, name, ModeFlags(WRITE))
  \/ /\ name \in File /\ RoomFor(name)
     /\ Bind(c, name, ModeFlags(WRITE))
     /\ dir' = dir \cup {name}

(* When CREATE fails _creat returns with the channel still allocated.      *)
CreateFailed(c, name) ==
  /\ \/ name = BadName
     \/ name \in File /\ ~RoomFor(name)
  /\ FirstFree(c)
  /\ chvec' = chvec \cup {c}
  /\ ccb' = [ccb EXCEPT ![c] = Blank]
  /\ dir' = dir \ {name}
  /\ Fail("ENOSPC")

-----------------------------------------------------------------------------
(* The calls. *)

(* opena, openb *)
OpenAB == \E name \in Name, mode \in {READ, WRITE} :
  \/ NoChannel /\ UNCHANGED asked
  \/ \E c \in Channel :
       \/ /\ OpenFound(c, name, mode)
          /\ Asked(c, mode # READ)
          /\ errno' = "OK"
       \/ /\ OpenMissing(c, name, mode, "ENOENT")
          /\ UNCHANGED asked

(* creata, creatb *)
CreatAB == \E name \in Name :
  \/ NoChannel /\ UNCHANGED asked
  \/ \E c \in Channel :
       \/ /\ Created(c, name)
          /\ Asked(c, TRUE)
          /\ errno' = "OK"
       \/ CreateFailed(c, name) /\ UNCHANGED asked

RdOnly(oflags) == "O_RDWR" \notin oflags
OpenMode(oflags) == IF RdOnly(oflags) THEN READ ELSE 0
Exclusive(oflags) == {"O_CREAT", "O_EXCL"} \subseteq oflags

(* open, when _open found a channel and the file. *)
PosixOpenFound(c, name, oflags) ==
  /\ ~Exclusive(oflags)
  /\ OpenFound(c, name, OpenMode(oflags))
  /\ Asked(c, ~RdOnly(oflags))
  /\ errno' = "OK"

(* With O_CREAT and O_EXCL a file that was found is closed again.  It was  *)
(* opened read only, so close writes nothing.                              *)
PosixOpenExclusive(c, name, oflags) ==
  /\ Exclusive(oflags)
  /\ FirstFree(c)
  /\ name \in dir \cup Device
  /\ ccb' = [ccb EXCEPT ![c] = Blank]
  /\ Fail("EEXIST")
  /\ UNCHANGED <<chvec, dir, asked>>

PosixOpenMissing(c, name, oflags) ==
  /\ "O_CREAT" \notin oflags \/ RdOnly(oflags)
  /\ OpenMissing(c, name, OpenMode(oflags),
                 IF "O_CREAT" \in oflags THEN "EINVAL" ELSE "ENOENT")
  /\ UNCHANGED asked

(* _open failed with ENOENT and gave its channel back: _creat takes it.    *)
(* A creation that succeeds leaves the ENOENT of _open behind.             *)
PosixOpenCreate(c, name, oflags) ==
  /\ "O_CREAT" \in oflags /\ ~RdOnly(oflags) /\ Missing(name)
  /\ \/ /\ Created(c, name)
        /\ Asked(c, TRUE)
        /\ errno' = "ENOENT"
     \/ CreateFailed(c, name) /\ UNCHANGED asked

(* No channel: with O_CREAT and O_EXCL open passes the -1 of _open to      *)
(* close, and _chkc, which has no lower bound, looks at _fds[-1].  Whatever*)
(* the memory there holds, the channels of the program stay as they were.  *)
PosixOpenNoChannel(oflags) ==
  /\ Free = {}
  /\ Fail(IF Exclusive(oflags) THEN "EEXIST" ELSE "EMFILE")
  /\ UNCHANGED <<chvec, ccb, dir, asked>>

PosixOpen == \E c \in Channel, name \in Name, oflags \in SUBSET OFlag :
  \/ PosixOpenFound(c, name, oflags)
  \/ PosixOpenExclusive(c, name, oflags)
  \/ PosixOpenMissing(c, name, oflags)
  \/ PosixOpenCreate(c, name, oflags)

(* Mutant: the channel is freed before the CCB is cleared, and close       *)
(* returns in between when there was an error.                             *)
Close_EarlyReturn(fd) ==
  /\ IsOpen(fd)
  /\ chvec' = chvec \ {fd}
  /\ \/ ccb' = [ccb EXCEPT ![fd] = Blank] /\ Answer(Success)
     \/ UNCHANGED ccb /\ Fail("EIO")
  /\ asked' = [asked EXCEPT ![fd] = FALSE]
  /\ UNCHANGED dir

(* close, of an open channel.  For a file the last write or BDOS CLOSE may *)
(* fail; the channel is freed all the same.                                *)
Close(fd) ==
  /\ IsOpen(fd)
  /\ chvec' = chvec \ {fd}
  /\ ccb' = [ccb EXCEPT ![fd] = Blank]
  /\ \/ Answer(Success)
     \/ /\ ccb[fd].flags \cap {"ISTTY", "ISLPT"} = {}
        /\ Fail("EIO")
  /\ asked' = [asked EXCEPT ![fd] = FALSE]
  /\ UNCHANGED dir

(* close, or any other call on a channel, when _chkc refuses it. *)
BadChannel(fd) ==
  /\ ~IsOpen(fd)
  /\ Fail("EBADF")
  /\ UNCHANGED <<chvec, ccb, dir, asked>>

(* unlink borrows a channel for its FCB.  errno is set only for a name     *)
(* that does not parse, which those of the devices do not.                 *)
Unlink == \E name \in Name :
  /\ \/ /\ Free = {}
        /\ Fail("EMFILE")
        /\ UNCHANGED <<ccb, dir>>
     \/ \E c \in Channel :
          /\ FirstFree(c)
          /\ ccb' = [ccb EXCEPT ![c] = Blank]
          /\ dir' = dir \ {name}
          /\ \/ name \in dir /\ Answer(Success)
             \/ name \in File \ dir /\ Answer(Failure)
             \/ name \notin File /\ Fail("EINVAL")
  /\ UNCHANGED <<chvec, asked>>

(* rename needs no channel.  BDOS refuses a source that does not exist and *)
(* a target that does.                                                     *)
Rename == \E from, to \in Name :
  /\ \/ /\ from \in dir /\ to \in File \ dir
        /\ dir' = (dir \ {from}) \cup {to}
        /\ Answer(Success)
     \/ /\ {from, to} \subseteq File
        /\ from \notin dir \/ to \in dir
        /\ Fail("ENOENT")
        /\ UNCHANGED dir
     \/ /\ ~({from, to} \subseteq File)
        /\ Fail("EINVAL")
        /\ UNCHANGED dir
  /\ UNCHANGED <<chvec, ccb, asked>>

-----------------------------------------------------------------------------
(* _init: stdin, stdout and stderr are the console.                        *)
StdFlags(c) == {"OPENED", "ISTTY"} \cup (IF c = 0 THEN {"ISREAD"} ELSE {})

Init ==
  /\ chvec = 0 .. 2
  /\ ccb = [c \in Channel |-> IF c <= 2 THEN [flags |-> StdFlags(c), file |-> CON] ELSE Blank]
  /\ dir \in {d \in SUBSET File : Cardinality(d) <= DirSize}
  /\ errno = "OK"
  /\ ret = 2
  /\ asked = [c \in Channel |-> c \in {1, 2}]

Call == \/ OpenAB
        \/ CreatAB
        \/ PosixOpen
        \/ \E fd \in Channel : Close(fd) \/ BadChannel(fd)
        \/ Unlink
        \/ Rename

Next == \/ Call
        \/ \E oflags \in SUBSET OFlag : PosixOpenNoChannel(oflags)

Spec == Init /\ [][Next]_vars

-----------------------------------------------------------------------------
(* Properties. *)

(* Every variable keeps its type (channels.c, osif.h: struct ccb). *)
TypeOK ==
  /\ chvec \in SUBSET Channel
  /\ ccb \in [Channel -> CCB]
  /\ dir \in SUBSET File
  /\ errno \in Errno
  /\ ret \in {Failure, Success} \cup Channel
  /\ asked \in [Channel -> BOOLEAN]

(* A channel a caller can use is a channel _allocc will not hand out: the  *)
(* OPENED bits of the CCBs and the bits of _chvec, set and cleared at      *)
(* different places of open, creat, close and unlink, never disagree.      *)
OpenedAllocated == Opened \subseteq chvec

(* The channel layer is a table of file descriptors: no call disturbs a    *)
(* descriptor it was not given, and open never hands out one in use.  The  *)
(* CCB of a closed channel does not matter.                                *)
Table == [c \in Channel |-> IF c \in Opened THEN ccb[c] ELSE Blank]
Bindings == {b \in CCB : "OPENED" \in b.flags}
FD == INSTANCE FdTable WITH Fd <- Channel, Binding <- Bindings, Closed <- Blank,
                            table <- Table, ret <- ret
ImplementsFdTable == FD!Spec

(* A channel is lost, allocated and open to nobody, only in a creation     *)
(* that fails: every other error path gives back what it took.             *)
Lost == chvec \ Opened
LeakOnlyByFailedCreate ==
  [][\A c \in Channel : c \in Lost' /\ c \notin Lost => errno' = "ENOSPC"]_vars

(* open.c:17 and main.c:82: a file opened with O_RDWR can be written.      *)
(* open passes _open the mode of a read-only open in both cases.           *)
WritableAsAsked == \A c \in Opened : asked[c] => "ISREAD" \notin ccb[c].flags
=============================================================================
