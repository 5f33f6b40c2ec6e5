--------------------------- MODULE ChannelsProofs ---------------------------
(***************************************************************************)
(* Proofs about the channel layer, for any number of channels and names.   *)
(* The invariant is the type of the state with OpenedAllocated: the type   *)
(* alone does not say that an open channel is never allocated again, which *)
(* is what the refinement of FdTable rests on.                             *)
(***************************************************************************)
EXTENDS Channels, TLAPS

Inv == TypeOK /\ OpenedAllocated

(* The flags a call can give a CCB are flags. *)
LEMMA FlagsAreFlags ==
  ASSUME NEW mode
  PROVE  /\ ModeFlags(mode) \in SUBSET Flag
         /\ \A dev : DeviceFlag(dev) \in Flag
         /\ "OPENED" \in Flag
BY DEF ModeFlags, DeviceFlag, Flag

(* A CCB cleared by __chinit is a CCB, and is not open. *)
LEMMA BlankIsClosed == Blank \in CCB /\ "OPENED" \notin Blank.flags
BY DEF Blank, CCB

(* The effect of a call that opens the channel c. *)
LEMMA BindStep ==
  ASSUME TypeOK, OpenedAllocated,
         NEW c \in Channel, NEW name \in File \cup Device, NEW flags \in SUBSET Flag,
         Bind(c, name, flags)
  PROVE  /\ chvec' \in SUBSET Channel
         /\ ccb' \in [Channel -> CCB]
         /\ ret' = c
         /\ c \notin Opened
         /\ c \in chvec'
         /\ Opened' = Opened \cup {c}
         /\ Opened' \subseteq chvec'
         /\ \A d \in Channel : d # c => ccb'[d] = ccb[d]
         /\ "OPENED" \in ccb'[c].flags
         /\ ccb'[c] \in CCB
<1> DEFINE b == [flags |-> flags \cup {"OPENED"}, file |-> name]
<1>1. b \in CCB /\ "OPENED" \in b.flags
  BY FlagsAreFlags DEF CCB
<1>2. c \in Channel \ chvec /\ chvec' = chvec \cup {c}
      /\ ccb' = [ccb EXCEPT ![c] = b] /\ ret' = c
  BY DEF Bind, FirstFree, Free
<1>3. ccb \in [Channel -> CCB] /\ chvec \subseteq Channel
  BY DEF TypeOK
<1> HIDE DEF b
<1>4. /\ ccb' \in [Channel -> CCB]
      /\ ccb'[c] = b
      /\ \A d \in Channel : d # c => ccb'[d] = ccb[d]
  BY <1>2, <1>3, <1>1
<1>5. Opened' = Opened \cup {c}
  BY <1>4, <1>1 DEF Opened
<1> QED
  BY <1>1, <1>2, <1>3, <1>4, <1>5 DEF OpenedAllocated

(* The effect of a call that leaves the CCB of c blank. *)
LEMMA ClearStep ==
  ASSUME TypeOK, NEW c \in Channel, ccb' = [ccb EXCEPT ![c] = Blank]
  PROVE  /\ ccb' \in [Channel -> CCB]
         /\ ccb'[c] = Blank
         /\ Opened' = Opened \ {c}
         /\ \A d \in Channel : d # c => ccb'[d] = ccb[d]
<1>1. ccb \in [Channel -> CCB]
  BY DEF TypeOK
<1>2. /\ ccb' \in [Channel -> CCB]
      /\ ccb'[c] = Blank
      /\ \A d \in Channel : d # c => ccb'[d] = ccb[d]
  BY <1>1, BlankIsClosed
<1>3. Opened' = Opened \ {c}
  BY <1>2, BlankIsClosed DEF Opened
<1> QED
  BY <1>2, <1>3

-----------------------------------------------------------------------------
(* Whatever the call and its outcome, it does one of five things to the    *)
(* channels; the proofs below look at these and no longer at the calls.    *)

Kept == UNCHANGED <<chvec, ccb>> /\ ret' \in {Success, Failure}

Bound == \E c \in Channel, name \in File \cup Device, flags \in SUBSET Flag :
           Bind(c, name, flags)

Borrowed == /\ \E c \in Channel : FirstFree(c) /\ ccb' = [ccb EXCEPT ![c] = Blank]
            /\ UNCHANGED chvec
            /\ ret' \in {Success, Failure}

LostOne == /\ \E c \in Channel : /\ FirstFree(c)
                                 /\ ccb' = [ccb EXCEPT ![c] = Blank]
                                 /\ chvec' = chvec \cup {c}
           /\ Fail("ENOSPC")

ClosedOne == \E fd \in Channel : /\ fd \in Opened
                                 /\ ccb' = [ccb EXCEPT ![fd] = Blank]
                                 /\ chvec' = chvec \ {fd}
                                 /\ ret' \in {Success, Failure}

Effect == Kept \/ Bound \/ Borrowed \/ LostOne \/ ClosedOne

(* The variables that are not channels. *)
OthersTyped == /\ dir' \in SUBSET File
               /\ errno' \in Errno
               /\ asked' \in [Channel -> BOOLEAN]

LEMMA NoChannelEffect ==
  ASSUME TypeOK, NoChannel
  PROVE  Kept /\ dir' \in SUBSET File /\ errno' \in Errno
BY DEF NoChannel, Kept, Fail, TypeOK, Errno

LEMMA BindDeviceEffect ==
  ASSUME TypeOK, NEW c \in Channel, NEW name, NEW flags \in SUBSET Flag,
         BindDevice(c, name, flags)
  PROVE  Bound /\ dir' \in SUBSET File
<1>1. flags \cup {DeviceFlag(name)} \in SUBSET Flag
  BY FlagsAreFlags
<1> QED
  BY <1>1 DEF BindDevice, Bound, TypeOK

LEMMA OpenFoundEffect ==
  ASSUME TypeOK, NEW c \in Channel, NEW name, NEW mode, OpenFound(c, name, mode)
  PROVE  Bound /\ dir' \in SUBSET File
<1>1. ModeFlags(mode) \in SUBSET Flag
  BY FlagsAreFlags
<1>2. CASE BindDevice(c, name, ModeFlags(mode))
  BY <1>1, <1>2, BindDeviceEffect
<1>3. CASE name \in dir /\ Bind(c, name, ModeFlags(mode)) /\ UNCHANGED dir
  BY <1>1, <1>3 DEF Bound, TypeOK
<1> QED
  BY <1>2, <1>3 DEF OpenFound

LEMMA OpenMissingEffect ==
  ASSUME TypeOK, NEW c \in Channel, NEW name, NEW mode, NEW e \in Errno,
         OpenMissing(c, name, mode, e)
  PROVE  Borrowed /\ dir' \in SUBSET File /\ errno' \in Errno
BY DEF OpenMissing, Borrowed, Fail, TypeOK

LEMMA CreatedEffect ==
  ASSUME TypeOK, NEW c \in Channel, NEW name, Created(c, name)
  PROVE  Bound /\ dir' \in SUBSET File
<1>1. ModeFlags(WRITE) \in SUBSET Flag
  BY FlagsAreFlags
<1>2. CASE BindDevice(c, name, ModeFlags(WRITE))
  BY <1>1, <1>2, BindDeviceEffect
<1>3. CASE name \in File /\ Bind(c, name, ModeFlags(WRITE)) /\ dir' = dir \cup {name}
  BY <1>1, <1>3 DEF Bound, TypeOK
<1> QED
  BY <1>2, <1>3 DEF Created

LEMMA CreateFailedEffect ==
  ASSUME TypeOK, NEW c \in Channel, NEW name, CreateFailed(c, name)
  PROVE  LostOne /\ dir' \in SUBSET File /\ errno' \in Errno
BY DEF CreateFailed, LostOne, Fail, TypeOK, Errno

LEMMA OpenABEffect == TypeOK /\ OpenAB => Effect /\ dir' \in SUBSET File /\ errno' \in Errno
                                         /\ asked' \in [Channel -> BOOLEAN]
<1> SUFFICES ASSUME TypeOK, NEW name \in Name, NEW mode \in {READ, WRITE},
                    \/ NoChannel /\ UNCHANGED asked
                    \/ \E c \in Channel :
                         \/ /\ OpenFound(c, name, mode)
                            /\ Asked(c, mode # READ)
                            /\ errno' = "OK"
                         \/ /\ OpenMissing(c, name, mode, "ENOENT")
                            /\ UNCHANGED asked
             PROVE  /\ Effect /\ dir' \in SUBSET File /\ errno' \in Errno
                    /\ asked' \in [Channel -> BOOLEAN]
  BY DEF OpenAB
<1>0. asked \in [Channel -> BOOLEAN]
  BY DEF TypeOK
<1>1. CASE NoChannel /\ UNCHANGED asked
  BY <1>0, <1>1, NoChannelEffect DEF Effect
<1>2. ASSUME NEW c \in Channel, OpenFound(c, name, mode), Asked(c, mode # READ), errno' = "OK"
      PROVE  /\ Effect /\ dir' \in SUBSET File /\ errno' \in Errno
             /\ asked' \in [Channel -> BOOLEAN]
  <2>1. Bound /\ dir' \in SUBSET File
    BY <1>2, OpenFoundEffect
  <2> QED
    BY <1>0, <1>2, <2>1 DEF Effect, Errno, Asked
<1>3. ASSUME NEW c \in Channel, OpenMissing(c, name, mode, "ENOENT"), UNCHANGED asked
      PROVE  /\ Effect /\ dir' \in SUBSET File /\ errno' \in Errno
             /\ asked' \in [Channel -> BOOLEAN]
  <2>1. "ENOENT" \in Errno
    BY DEF Errno
  <2>2. Borrowed /\ dir' \in SUBSET File /\ errno' \in Errno
    BY <1>3, <2>1, OpenMissingEffect
  <2> QED
    BY <1>0, <1>3, <2>2 DEF Effect
<1> QED
  BY <1>1, <1>2, <1>3

LEMMA CreatABEffect == TypeOK /\ CreatAB => Effect /\ dir' \in SUBSET File /\ errno' \in Errno
                                           /\ asked' \in [Channel -> BOOLEAN]
<1> SUFFICES ASSUME TypeOK, NEW name \in Name,
                    \/ NoChannel /\ UNCHANGED asked
                    \/ \E c \in Channel :
                         \/ Created(c, name) /\ Asked(c, TRUE) /\ errno' = "OK"
                         \/ CreateFailed(c, name) /\ UNCHANGED asked
             PROVE  /\ Effect /\ dir' \in SUBSET File /\ errno' \in Errno
                    /\ asked' \in [Channel -> BOOLEAN]
  BY DEF CreatAB
<1>0. asked \in [Channel -> BOOLEAN]
  BY DEF TypeOK
<1>1. CASE NoChannel /\ UNCHANGED asked
  BY <1>0, <1>1, NoChannelEffect DEF Effect
<1>2. ASSUME NEW c \in Channel, Created(c, name), Asked(c, TRUE), errno' = "OK"
      PROVE  /\ Effect /\ dir' \in SUBSET File /\ errno' \in Errno
             /\ asked' \in [Channel -> BOOLEAN]
  <2>1. Bound /\ dir' \in SUBSET File
    BY <1>2, CreatedEffect
  <2> QED
    BY <1>0, <1>2, <2>1 DEF Effect, Errno, Asked
<1>3. ASSUME NEW c \in Channel, CreateFailed(c, name), UNCHANGED asked
      PROVE  /\ Effect /\ dir' \in SUBSET File /\ errno' \in Errno
             /\ asked' \in [Channel -> BOOLEAN]
  <2>1. LostOne /\ dir' \in SUBSET File /\ errno' \in Errno
    BY <1>3, CreateFailedEffect
  <2> QED
    BY <1>0, <1>3, <2>1 DEF Effect
<1> QED
  BY <1>1, <1>2, <1>3

LEMMA PosixOpenEffect == TypeOK /\ PosixOpen => Effect /\ dir' \in SUBSET File /\ errno' \in Errno
                                               /\ asked' \in [Channel -> BOOLEAN]
<1> SUFFICES ASSUME TypeOK, NEW c \in Channel, NEW name \in Name, NEW oflags \in SUBSET OFlag,
                    \/ PosixOpenFound(c, name, oflags)
                    \/ PosixOpenExclusive(c, name, oflags)
                    \/ PosixOpenMissing(c, name, oflags)
                    \/ PosixOpenCreate(c, name, oflags)
             PROVE  /\ Effect /\ dir' \in SUBSET File /\ errno' \in Errno
                    /\ asked' \in [Channel -> BOOLEAN]
  BY DEF PosixOpen
<1>0. asked \in [Channel -> BOOLEAN] /\ dir \in SUBSET File
      /\ {"OK", "ENOENT", "EINVAL", "EEXIST"} \subseteq Errno
  BY DEF TypeOK, Errno
<1>1. CASE PosixOpenFound(c, name, oflags)
  <2>1. Bound /\ dir' \in SUBSET File
    BY <1>1, OpenFoundEffect DEF PosixOpenFound
  <2>2. asked' = [asked EXCEPT ![c] = ~RdOnly(oflags)] /\ errno' = "OK"
    BY <1>1 DEF PosixOpenFound, Asked
  <2>3. RdOnly(oflags) \in BOOLEAN
    BY DEF RdOnly
  <2> QED
    BY <1>0, <2>1, <2>2, <2>3 DEF Effect
<1>2. CASE PosixOpenExclusive(c, name, oflags)
  BY <1>0, <1>2 DEF PosixOpenExclusive, Fail, Effect, Borrowed
<1>3. CASE PosixOpenMissing(c, name, oflags)
  <2>1. PICK e \in Errno : OpenMissing(c, name, OpenMode(oflags), e)
    BY <1>0, <1>3 DEF PosixOpenMissing
  <2>2. Borrowed /\ dir' \in SUBSET File /\ errno' \in Errno
    BY <2>1, OpenMissingEffect
  <2> QED
    BY <1>0, <1>3, <2>2 DEF PosixOpenMissing, Effect
<1>4. CASE PosixOpenCreate(c, name, oflags)
  <2>1. CASE Created(c, name) /\ Asked(c, TRUE) /\ errno' = "ENOENT"
    <3>1. Bound /\ dir' \in SUBSET File
      BY <2>1, CreatedEffect
    <3> QED
      BY <1>0, <2>1, <3>1 DEF Effect, Asked
  <2>2. CASE CreateFailed(c, name) /\ UNCHANGED asked
    <3>1. LostOne /\ dir' \in SUBSET File /\ errno' \in Errno
      BY <2>2, CreateFailedEffect
    <3> QED
      BY <1>0, <2>2, <3>1 DEF Effect
  <2> QED
    BY <1>4, <2>1, <2>2 DEF PosixOpenCreate
<1> QED
  BY <1>1, <1>2, <1>3, <1>4

LEMMA UnlinkEffect == TypeOK /\ Unlink => Effect /\ dir' \in SUBSET File /\ errno' \in Errno
                                         /\ asked' \in [Channel -> BOOLEAN]
<1> SUFFICES ASSUME TypeOK, Unlink
             PROVE  /\ Effect /\ dir' \in SUBSET File /\ errno' \in Errno
                    /\ asked' \in [Channel -> BOOLEAN]
  OBVIOUS
<1>1. dir' \in SUBSET File /\ errno' \in Errno /\ asked' \in [Channel -> BOOLEAN]
  BY DEF Unlink, Fail, Answer, TypeOK, Errno
<1>2. Kept \/ Borrowed
  BY DEF Unlink, Fail, Answer, Kept, Borrowed
<1> QED
  BY <1>1, <1>2 DEF Effect

LEMMA RenameEffect == TypeOK /\ Rename => Effect /\ dir' \in SUBSET File /\ errno' \in Errno
                                         /\ asked' \in [Channel -> BOOLEAN]
<1> SUFFICES ASSUME TypeOK, Rename
             PROVE  /\ Effect /\ dir' \in SUBSET File /\ errno' \in Errno
                    /\ asked' \in [Channel -> BOOLEAN]
  OBVIOUS
<1>1. dir' \in SUBSET File /\ errno' \in Errno /\ asked' \in [Channel -> BOOLEAN]
  BY DEF Rename, Fail, Answer, TypeOK, Errno
<1>2. Kept
  BY DEF Rename, Fail, Answer, Kept
<1> QED
  BY <1>1, <1>2 DEF Effect

LEMMA CloseEffect ==
  ASSUME TypeOK, NEW fd \in Channel, Close(fd) \/ BadChannel(fd)
  PROVE  /\ Effect /\ dir' \in SUBSET File /\ errno' \in Errno
         /\ asked' \in [Channel -> BOOLEAN]
<1>1. dir' \in SUBSET File /\ errno' \in Errno /\ asked' \in [Channel -> BOOLEAN]
  BY DEF Close, BadChannel, Fail, Answer, TypeOK, Errno
<1>2. ClosedOne \/ Kept
  BY DEF Close, BadChannel, Fail, Answer, ClosedOne, Kept, IsOpen
<1> QED
  BY <1>1, <1>2 DEF Effect

(* What every step does. *)
LEMMA StepEffect == TypeOK /\ Next => Effect /\ OthersTyped
<1> SUFFICES ASSUME TypeOK, Next PROVE Effect /\ OthersTyped
  OBVIOUS
<1>1. CASE Call
  BY <1>1, OpenABEffect, CreatABEffect, PosixOpenEffect, UnlinkEffect, RenameEffect,
     CloseEffect DEF Call, OthersTyped
<1>2. ASSUME NEW oflags \in SUBSET OFlag, PosixOpenNoChannel(oflags)
      PROVE  Effect /\ OthersTyped
  <2>1. Kept
    BY <1>2 DEF PosixOpenNoChannel, Fail, Kept
  <2>3. dir' \in SUBSET File /\ errno' \in Errno /\ asked' \in [Channel -> BOOLEAN]
    BY <1>2 DEF PosixOpenNoChannel, Fail, TypeOK, Errno
  <2> QED
    BY <2>1, <2>3 DEF Effect, OthersTyped
<1> QED
  BY <1>1, <1>2 DEF Next

-----------------------------------------------------------------------------
LEMMA InvInit == Init => Inv
<1> SUFFICES ASSUME Init PROVE Inv
  OBVIOUS
<1>1. 0 .. 2 \subseteq Channel /\ 2 \in Channel
  BY ChannelsAssumption DEF Channel
<1>2. \A c \in Channel : [flags |-> StdFlags(c), file |-> CON] \in CCB
  BY DEF StdFlags, CCB, Flag, Device
<1>3. ccb \in [Channel -> CCB]
  BY <1>2, BlankIsClosed DEF Init
<1>a. asked \in [Channel -> BOOLEAN]
  BY DEF Init
<1>b. chvec \in SUBSET Channel /\ ret \in Channel /\ dir \in SUBSET File
  BY <1>1 DEF Init
<1>4. TypeOK
  BY <1>a, <1>b, <1>3 DEF Init, TypeOK, Errno
<1>5. Opened \subseteq 0 .. 2
  <2> SUFFICES ASSUME NEW c \in Channel, "OPENED" \in ccb[c].flags
               PROVE  c \in 0 .. 2
    BY DEF Opened
  <2>1. c <= 2
    BY BlankIsClosed DEF Init
  <2> QED
    BY <2>1, ChannelsAssumption DEF Channel
<1> QED
  BY <1>4, <1>5 DEF Inv, OpenedAllocated, Init

(* Each effect keeps the channels typed and the open ones allocated. *)
LEMMA InvEffect == Inv /\ Effect /\ OthersTyped => Inv'
<1> SUFFICES ASSUME Inv, Effect, OthersTyped
             PROVE  Inv'
  OBVIOUS
<1>0. TypeOK /\ OpenedAllocated
  BY DEF Inv
<1>1. chvec \subseteq Channel /\ ccb \in [Channel -> CCB]
  BY <1>0 DEF TypeOK
<1> SUFFICES /\ chvec' \in SUBSET Channel /\ ccb' \in [Channel -> CCB]
             /\ ret' \in {Failure, Success} \cup Channel
             /\ Opened' \subseteq chvec'
  BY DEF Inv, TypeOK, OpenedAllocated, OthersTyped
<1>2. CASE Kept
  BY <1>0, <1>1, <1>2 DEF Kept, Opened, OpenedAllocated
<1>3. CASE Bound
  BY <1>0, <1>3, BindStep DEF Bound
<1>4. CASE Borrowed
  <2>1. PICK c \in Channel : FirstFree(c) /\ ccb' = [ccb EXCEPT ![c] = Blank]
    BY <1>4 DEF Borrowed
  <2>2. ccb' \in [Channel -> CCB] /\ Opened' = Opened \ {c}
    BY <1>0, <2>1, ClearStep
  <2> QED
    BY <1>0, <1>1, <1>4, <2>2 DEF Borrowed, OpenedAllocated
<1>5. CASE LostOne
  <2>1. PICK c \in Channel : /\ ccb' = [ccb EXCEPT ![c] = Blank]
                             /\ chvec' = chvec \cup {c}
    BY <1>5 DEF LostOne
  <2>2. ccb' \in [Channel -> CCB] /\ Opened' = Opened \ {c}
    BY <1>0, <2>1, ClearStep
  <2> QED
    BY <1>0, <1>1, <1>5, <2>1, <2>2 DEF LostOne, Fail, OpenedAllocated
<1>6. CASE ClosedOne
  <2>1. PICK c \in Channel : /\ ccb' = [ccb EXCEPT ![c] = Blank]
                             /\ chvec' = chvec \ {c}
                             /\ ret' \in {Success, Failure}
    BY <1>6 DEF ClosedOne
  <2>2. ccb' \in [Channel -> CCB] /\ Opened' = Opened \ {c}
    BY <1>0, <2>1, ClearStep
  <2> QED
    BY <1>0, <1>1, <2>1, <2>2 DEF OpenedAllocated
<1> QED
  BY <1>2, <1>3, <1>4, <1>5, <1>6 DEF Effect

LEMMA InvNext == Inv /\ [Next]_vars => Inv'
<1> SUFFICES ASSUME Inv, [Next]_vars PROVE Inv'
  OBVIOUS
<1>1. CASE Next
  BY <1>1, StepEffect, InvEffect DEF Inv
<1>2. CASE UNCHANGED vars
  BY <1>2 DEF vars, Inv, TypeOK, OpenedAllocated, Opened
<1> QED
  BY <1>1, <1>2

(* The state of the channel layer is typed and an open channel is always   *)
(* allocated: _allocc, which looks only at _chvec, never hands out a       *)
(* channel whose CCB is in use.                                            *)
THEOREM OpenedAllocatedThm == Spec => [](TypeOK /\ OpenedAllocated)
<1>1. Inv => TypeOK /\ OpenedAllocated
  BY DEF Inv
<1> QED
  BY InvInit, InvNext, <1>1, PTL DEF Spec

(* The bit vector, the CCBs, the directory and errno keep their types      *)
(* (channels.c:52, osif.h:70).                                             *)
THEOREM ChannelTypeThm == Spec => []TypeOK
BY OpenedAllocatedThm, PTL

(* A channel that is allocated and not open is the leavings of a creation  *)
(* that failed: the error paths of open, unlink and close lose none.       *)
THEOREM LeakThm == Spec => LeakOnlyByFailedCreate
<1>1. ASSUME Inv, Next
      PROVE  \A c \in Channel : c \in Lost' /\ c \notin Lost => errno' = "ENOSPC"
  <2>0. TypeOK /\ OpenedAllocated /\ Effect
    BY <1>1, StepEffect DEF Inv
  <2> SUFFICES ASSUME NEW d \in Channel, d \in Lost', d \notin Lost
               PROVE  errno' = "ENOSPC"
    OBVIOUS
  <2>1. d \in chvec' /\ d \notin Opened' /\ (d \in chvec => d \in Opened)
    BY DEF Lost
  <2>2. CASE Kept
    BY <2>1, <2>2 DEF Kept, Opened
  <2>3. CASE Bound
    <3>1. PICK c \in Channel, name \in File \cup Device, flags \in SUBSET Flag :
               Bind(c, name, flags)
      BY <2>3 DEF Bound
    <3>2. Opened' = Opened \cup {c} /\ chvec' = chvec \cup {c}
      BY <2>0, <3>1, BindStep DEF Bind
    <3> QED
      BY <2>1, <3>2
  <2>4. CASE Borrowed
    <3>1. PICK c \in Channel : FirstFree(c) /\ ccb' = [ccb EXCEPT ![c] = Blank]
      BY <2>4 DEF Borrowed
    <3>2. Opened' = Opened \ {c} /\ chvec' = chvec /\ c \notin chvec
      BY <2>0, <2>4, <3>1, ClearStep DEF Borrowed, FirstFree, Free
    <3> QED
      BY <2>1, <3>2
  <2>5. CASE LostOne
    BY <2>5 DEF LostOne, Fail
  <2>6. CASE ClosedOne
    <3>1. PICK c \in Channel : ccb' = [ccb EXCEPT ![c] = Blank] /\ chvec' = chvec \ {c}
      BY <2>6 DEF ClosedOne
    <3>2. Opened' = Opened \ {c}
      BY <2>0, <3>1, ClearStep
    <3> QED
      BY <2>1, <3>1, <3>2
  <2> QED
    BY <2>0, <2>2, <2>3, <2>4, <2>5, <2>6 DEF Effect
<1>2. Inv /\ [Next]_vars
        => [\A c \in Channel : c \in Lost' /\ c \notin Lost => errno' = "ENOSPC"]_vars
  BY <1>1
<1> QED
  BY InvInit, InvNext, <1>2, PTL DEF Spec, LeakOnlyByFailedCreate

-----------------------------------------------------------------------------
(* The refinement, one effect after the other. *)

LEMMA TableInit == Init => FD!Init
<1> SUFFICES ASSUME Init PROVE FD!Init
  OBVIOUS
<1>1. TypeOK
  BY InvInit DEF Inv
<1>2. Table \in [Channel -> Bindings \cup {Blank}]
  BY <1>1 DEF Table, Bindings, Opened, TypeOK
<1>3. ret \in {FD!Success, FD!Failure} \cup Channel
  BY <1>1 DEF TypeOK, FD!Success, FD!Failure, Success, Failure
<1> QED
  BY <1>2, <1>3 DEF FD!Init

LEMMA TableNext == Inv /\ [Next]_vars => [FD!Next]_(FD!vars)
<1> SUFFICES ASSUME Inv, [Next]_vars PROVE [FD!Next]_(FD!vars)
  OBVIOUS
<1>0. TypeOK /\ OpenedAllocated
  BY DEF Inv
<1>1. CASE UNCHANGED vars
  BY <1>1 DEF vars, FD!vars, Table, Opened
<1>2. CASE Next
  <2>0. Effect
    BY <1>0, <1>2, StepEffect
  <2>1. Table \in [Channel -> Bindings \cup {Blank}]
    BY <1>0 DEF Table, Bindings, Opened, TypeOK
  <2>r. FD!Success = Success /\ FD!Failure = Failure
    BY DEF FD!Success, FD!Failure, Success, Failure
  <2>2. CASE Kept
    <3>1. Table' = Table
      BY <2>2 DEF Kept, Table, Opened
    <3> QED
      BY <2>2, <2>r, <3>1 DEF Kept, FD!Next, FD!Other
  <2>3. CASE Bound
    <3>1. PICK c \in Channel, name \in File \cup Device, flags \in SUBSET Flag :
               Bind(c, name, flags)
      BY <2>3 DEF Bound
    <3>2. /\ c \notin Opened /\ Opened' = Opened \cup {c} /\ ret' = c
          /\ \A d \in Channel : d # c => ccb'[d] = ccb[d]
          /\ ccb'[c] \in Bindings
      BY <1>0, <3>1, BindStep DEF Bindings
    <3>3. Table[c] = Blank /\ Table'[c] = ccb'[c]
      BY <3>2 DEF Table
    <3>4. Table' = [Table EXCEPT ![c] = Table'[c]]
      BY <3>2 DEF Table
    <3>5. FD!Open(c)
      BY <3>2, <3>3, <3>4 DEF FD!Open
    <3> QED
      BY <3>5 DEF FD!Next
  <2>4. ASSUME NEW c \in Channel, c \notin Opened, ccb' = [ccb EXCEPT ![c] = Blank],
               ret' \in {Success, Failure}
        PROVE  FD!Next
    <3>0. Opened' = Opened \ {c} /\ \A d \in Channel : d # c => ccb'[d] = ccb[d]
      BY <1>0, <2>4, ClearStep
    <3>1. Opened' = Opened
      BY <2>4, <3>0
    <3>2. Table' = Table
      BY <2>4, <3>0, <3>1 DEF Table
    <3> QED
      BY <2>4, <2>r, <3>2 DEF FD!Next, FD!Other
  <2>5. CASE Borrowed
    BY <1>0, <2>4, <2>5 DEF Borrowed, FirstFree, Free, OpenedAllocated
  <2>6. CASE LostOne
    BY <1>0, <2>4, <2>6 DEF LostOne, FirstFree, Free, OpenedAllocated, Fail
  <2>7. CASE ClosedOne
    <3>1. PICK c \in Channel : /\ c \in Opened
                               /\ ccb' = [ccb EXCEPT ![c] = Blank]
                               /\ ret' \in {Success, Failure}
      BY <2>7 DEF ClosedOne
    <3>2. Opened' = Opened \ {c} /\ \A d \in Channel : d # c => ccb'[d] = ccb[d]
      BY <1>0, <3>1, ClearStep
    <3>3. Table' = [Table EXCEPT ![c] = Blank]
      BY <3>1, <3>2 DEF Table
    <3>4. Table[c] # Blank
      BY <3>1, BlankIsClosed DEF Table, Opened
    <3>5. FD!Close(c)
      BY <3>1, <3>3, <3>4, <2>r DEF FD!Close
    <3> QED
      BY <3>5 DEF FD!Next
  <2> QED
    BY <2>0, <2>2, <2>3, <2>5, <2>6, <2>7 DEF Effect
<1> QED
  BY <1>1, <1>2

(* The channel layer implements the table of descriptors: no call disturbs *)
(* a descriptor it was not given, no open answers one in use, whichever of *)
(* the error paths of open, creat, close, unlink and rename it takes.      *)
THEOREM RefinementThm == Spec => ImplementsFdTable
<1> QED
  BY InvInit, InvNext, TableInit, TableNext, PTL DEF Spec, ImplementsFdTable, FD!Spec
=============================================================================
