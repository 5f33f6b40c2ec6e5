------------------------------ MODULE UserArea ------------------------------
(***************************************************************************)
(* User areas: the calls that name a file, and those on the channel it was *)
(* opened on.  Each switches BDOS to the user number it needs and back     *)
(* (_chkuser, _uchkuser in __open, rename, close, _blkio and _filesz).     *)
(*                                                                         *)
(* The directory is a set of files, each in the area of a user number.     *)
(* BDOS (external) works in the current area; a name with question marks   *)
(* fits many files: OPEN takes one of them, DELETE all, RENAME refuses it. *)
(* Which channel is free is module Channels; a closed one has in its CCB   *)
(* what the last call left there.  Names come parsed (module ParseFn).     *)
(***************************************************************************)
EXTENDS Integers, FiniteSets

CONSTANTS
  MaxUser,   \* the largest user number (15)
  Channel,   \* the channels for files
  Parsed,    \* bound: what the names parse into
  Plain,     \* the names files have in the directory
  DirSize,   \* how many entries the directory has
  Disks      \* bound: what the directory is at the start

User   == 0 .. MaxUser
NoFile == <<>>
Nowhere == [area |-> 0, asked |-> FALSE]

(* A question mark in the name. *)
Wild(p) == \E i \in DOMAIN p.name : p.name[i] = 63

ASSUME UserAreaAssumption ==
  /\ MaxUser \in Nat
  /\ \A p \in Parsed : p.ok => p.fuser \in 0 .. MaxUser + 1 /\ (Wild(p) \/ p.name \in Plain)
  /\ \A d \in Disks : d \subseteq User \X Plain

VARIABLES user,   \* BDOS's user number
          files,  \* the directory
          fds,    \* the CCBs: open, user (one more than the number, 0 for none) and file
          home,   \* history: where a channel's file is, and was it asked for there?
          did     \* history: the last call, the user its names said, the area it was in

areaVars == <<user, files, fds, home, did>>

-----------------------------------------------------------------------------
(* Mutant: without the one that the user number is more. *)
Area_Plain(newu) == IF newu = 0 THEN user ELSE newu

(* _chkuser: the area in which BDOS is called for the user number newu.    *)
Area(newu) == IF newu = 0 THEN user ELSE newu - 1

(* Mutant: what _chkuser answered is taken for the number itself. *)
Uchkuser_Off(newu) == IF newu = 0 \/ newu = user + 1 THEN user ELSE user + 1

(* _uchkuser: the user number after it. *)
Uchkuser(newu) ==
  LET prevu == user + 1
  IN  IF newu = 0 THEN user ELSE IF newu # prevu THEN prevu - 1 ELSE Area(newu)

(* Mutant: the user number stays from the last file on the channel. *)
Chinit_KeepsUser(c) == [fds[c] EXCEPT !.open = FALSE, !.file = NoFile]

Chinit(c) == [open |-> FALSE, user |-> 0, file |-> NoFile]

(* Mutant: the user number of the name is not kept. *)
Named_Lost(c, p) == Chinit(c)

(* __open: the channel when the name is parsed. *)
Named(c, p) == [Chinit(c) EXCEPT !.user = IF p.fuser # 0 THEN p.fuser ELSE @]

Fit(p, n)   == \A i \in DOMAIN p.name : p.name[i] \in {63, n[i]}
Found(a, p) == {n \in Plain : <<a, n>> \in files /\ Fit(p, n)}

Did(op, c, fuser, area) == did' = [op |-> op, chan |-> c, fuser |-> fuser, area |-> area]
Refuses(op, c) == Did(op, c, 0, user) /\ UNCHANGED <<user, files, home>>

-----------------------------------------------------------------------------
(* The calls through __open, on a channel that is free. *)

BadName(op, c, p) ==
  /\ ~fds[c].open
  /\ \/ ~p.ok
     \/ op = "creat" /\ Wild(p)
  /\ fds' = [fds EXCEPT ![c] = IF p.ok THEN Named(c, p) ELSE Chinit(c)]
  /\ Refuses(op, c)

OpenFile(c, p) ==
  LET f == Named(c, p)
      a == Area(f.user)
  IN  /\ ~fds[c].open /\ p.ok
      /\ user' = Uchkuser(f.user)
      /\ \/ \E n \in Found(a, p) :
              /\ fds' = [fds EXCEPT ![c] = [f EXCEPT !.open = TRUE, !.file = n]]
              /\ home' = [home EXCEPT ![c] = [area |-> a, asked |-> p.fuser # 0]]
         \/ /\ Found(a, p) = {}
            /\ fds' = [fds EXCEPT ![c] = f]
            /\ UNCHANGED home
      /\ Did("open", c, p.fuser, a)
      /\ UNCHANGED files

(* DELETE, then CREATE, which fails when the directory is full. *)
CreateFile(c, p) ==
  LET f    == Named(c, p)
      a    == Area(f.user)
      rest == files \ {<<a, p.name>>}
  IN  /\ ~fds[c].open /\ p.ok /\ ~Wild(p)
      /\ user' = Uchkuser(f.user)
      /\ \/ /\ Cardinality(rest) < DirSize
            /\ files' = rest \cup {<<a, p.name>>}
            /\ fds' = [fds EXCEPT ![c] = [f EXCEPT !.open = TRUE, !.file = p.name]]
            /\ home' = [home EXCEPT ![c] = [area |-> a, asked |-> p.fuser # 0]]
         \/ /\ Cardinality(rest) >= DirSize
            /\ fds' = [fds EXCEPT ![c] = f]
            /\ UNCHANGED <<files, home>>
      /\ Did("creat", c, p.fuser, a)

UnlinkFile(c, p) ==
  LET f == Named(c, p)
      a == Area(f.user)
  IN  /\ ~fds[c].open /\ p.ok
      /\ user' = Uchkuser(f.user)
      /\ files' = files \ ({a} \X Found(a, p))
      /\ fds' = [fds EXCEPT ![c] = f]
      /\ Did("unlink", c, p.fuser, a)
      /\ UNCHANGED home

-----------------------------------------------------------------------------
(* rename has an FCB of its own for both names, whose user numbers must    *)
(* agree; c is no channel of it.                                           *)
NUser(p, q) == IF q.fuser # 0 THEN q.fuser ELSE p.fuser
Differ(p, q) == p.fuser # 0 /\ q.fuser # 0 /\ p.fuser # q.fuser

RenameFile(c, p, q) ==
  LET a == Area(NUser(p, q))
  IN  /\ UNCHANGED <<fds, home>>
      /\ \/ /\ ~p.ok \/ ~q.ok \/ Differ(p, q)
            /\ Refuses("rename", c)
         \/ /\ p.ok /\ q.ok /\ ~Differ(p, q)
            /\ user' = Uchkuser(NUser(p, q))
            /\ Did("rename", c, NUser(p, q), a)
            /\ IF ~Wild(p) /\ ~Wild(q) /\ <<a, p.name>> \in files /\ <<a, q.name>> \notin files
               THEN files' = (files \ {<<a, p.name>>}) \cup {<<a, q.name>>}
               ELSE UNCHANGED files

(* _blkio and _filesz on an open channel. *)
Transfer(c) ==
  /\ fds[c].open
  /\ user' = Uchkuser(fds[c].user)
  /\ Did("transfer", c, 0, Area(fds[c].user))
  /\ UNCHANGED <<files, fds, home>>

CloseFile(c) ==
  /\ fds[c].open
  /\ user' = Uchkuser(fds[c].user)
  /\ fds' = [fds EXCEPT ![c] = Chinit(c)]
  /\ home' = [home EXCEPT ![c] = Nowhere]
  /\ Did("close", c, 0, Area(fds[c].user))
  /\ UNCHANGED files

(* The program itself may ask BDOS for another user number (bdos.c). *)
SetUser(c, u) ==
  /\ user' = u
  /\ Did("user", c, 0, u)
  /\ UNCHANGED <<files, fds, home>>

Call(c, p, q) ==
  \/ \E op \in {"open", "creat", "unlink"} : BadName(op, c, p)
  \/ OpenFile(c, p)
  \/ CreateFile(c, p)
  \/ UnlinkFile(c, p)
  \/ RenameFile(c, p, q)
  \/ Transfer(c)
  \/ CloseFile(c)
  \/ \E u \in User : SetUser(c, u)

AreaInit ==
  /\ user \in User
  /\ files \in Disks
  /\ fds = [c \in Channel |-> [open |-> FALSE, user |-> 0, file |-> NoFile]]
  /\ home = [c \in Channel |-> Nowhere]
  /\ did = [op |-> "none", chan |-> CHOOSE c \in Channel : TRUE, fuser |-> 0, area |-> 0]

AreaSpec == AreaInit /\ [][\E c \in Channel, p, q \in Parsed : Call(c, p, q)]_areaVars

-----------------------------------------------------------------------------
(* Properties. *)

AreaTypeOK ==
  /\ user \in User
  /\ fds \in [Channel -> [open : BOOLEAN, user : 0 .. MaxUser + 1, file : Plain \cup {NoFile}]]
  /\ home \in [Channel -> [area : User, asked : BOOLEAN]]

(* chkuser.c:12, "sets the user number back to its previous value": after  *)
(* every call, failed or not, the program is where it was.                 *)
UserKept == [][did'.op # "user" => user' = user]_areaVars

(* Files come and go only in the area that the names of the call say, or   *)
(* in the program's own when they say none: a channel's next file must not *)
(* inherit the area of its last.                                           *)
OnlyThere ==
  [][\A f \in User \X Plain :
       (f \in files) # (f \in files')
         => f[1] = IF did'.fuser # 0 THEN did'.fuser - 1 ELSE user]_areaVars

(* A file that was opened by a name with a user number is read, written    *)
(* and closed in that area, wherever the program has gone in between.      *)
ServedAtHome ==
  [][\A c \in Channel :
       did'.op \in {"transfer", "close"} /\ did'.chan = c /\ home[c].asked
         => did'.area = home[c].area]_areaVars
=============================================================================
