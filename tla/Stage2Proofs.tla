---------------------------- MODULE Stage2Proofs ----------------------------
(***************************************************************************)
(* Whatever the guest is like, and whichever system call fails: stage2     *)
(* shows the guest no mount of its own, removes what it needed for a while *)
(* if its helper can, and runs the command only when everything it gives   *)
(* up is given up. The four invariants say, step by step, what the ones    *)
(* before have set up; they hold separately.                               *)
(***************************************************************************)
EXTENDS Stage2, TLAPS

(* Steps with a MountNamespace, by what has been done when they come next. *)
InChroot == {"bindmounts", "groups", "others", "credentials", "caps", "label", "spawn"}
AfterPrivate == {"bind", "device", "move", "chroot"} \cup InChroot

(* Before its first mount that is not a pseudo filesystem stage2 has made  *)
(* its mounts private.                                                     *)
MountInv ==
    /\ mounts \subseteq guest.missing
    /\ pc \in AfterPrivate => private

(* Which steps may find a directory or the device file. *)
FileInv ==
    /\ dirs \subseteq Dirs /\ cleaned \in {"no", "ok", "failed"}
    /\ dirs # {} => pc \in {"dirs", "unshare", "private", "drop", "wait", "exit"} \cup AfterPrivate
    /\ node # {} => pc \in {"device", "move", "chroot", "drop", "wait", "exit"} \cup InChroot
    /\ cleaned # "no" => pc \in {"drop", "wait", "exit"} /\ helper = "none"
    /\ helper # "none" => pc = "drop"
    /\ helper = "rmtemp" => dirs \subseteq {"temp_mountpoint"} /\ node = {}
    /\ helper = "forth" => dirs = {} /\ node = {}
    /\ cleaned = "ok" => dirs = {} /\ node = {}
    /\ pc = "wait" => cleaned # "no"
    /\ pc = "exit" => cleaned = "failed" \/ (dirs = {} /\ node = {})

(* Which directories mkdir_p() has seen to. *)
AfterTmp == {"dirs", "unshare", "private"} \cup AfterPrivate
AfterDev == {"blockdev", "idmap", "profile", "context", "namespaces", "enter", "tmp"} \cup AfterTmp

MadeInv ==
    /\ guest \in Guests /\ made \subseteq guest.lacks
    /\ child # "none" => pc \in {"drop", "wait", "exit"} /\ made = guest.lacks
    /\ pc \in {"sys", "dev"} \cup AfterDev => {"proc"} \cap guest.lacks \subseteq made
    /\ pc \in {"dev"} \cup AfterDev => {"sys"} \cap guest.lacks \subseteq made
    /\ pc \in AfterDev => {"dev"} \cap guest.lacks \subseteq made
    /\ pc \in AfterTmp => {"tmp"} \cap guest.lacks \subseteq made

(* Steps between the console and the end. *)
Working == {"exe", "proc", "sys", "dev", "blockdev", "idmap", "profile", "context", "namespaces",
            "enter", "tmp", "dirs", "unshare", "private"} \cup AfterPrivate

ConsoleTaken == \A c \in guest.consoles : Highest(c) /\ c.opens = "ok" => console = c.num

Credentials == HasUser => groups = "dropped" /\ uid = TargetUid

CapsDropped ==
    ExecCaps = IF uid = 0 THEN (0 .. LastCap) \cap (guest.caps \cup KeptCaps \cup {LastCap}) ELSE {}

Labelled ==
    /\ guest.lsm = "apparmor" => label = guest.label
    /\ guest.lsm = "selinux" => label = IF guest.exec = "" THEN "own" ELSE guest.exec

(* What stage2 has given up when a step comes next, and the command has.   *)
ChildInv ==
    /\ guest \in Guests
    /\ pc \in ({"console"} \cup Working) \ {"label", "spawn"} => bounding = 0 .. LastCap
    /\ pc \in ({"console"} \cup Working) \ {"spawn"} => label = "own"
    /\ child # "none" => pc \in {"drop", "wait", "exit"} /\ ChildConfined
    /\ pc \in Working => ConsoleTaken
    /\ pc \in {"private"} \cup AfterPrivate => ns = "new"
    /\ pc \in InChroot => root = "image"
    /\ pc \in {"credentials", "caps", "label", "spawn"} => joined = Others
    /\ pc \in {"caps", "label", "spawn"} => Credentials
    /\ pc \in {"label", "spawn"} => CapsDropped
    /\ pc = "spawn" => Labelled

-----------------------------------------------------------------------------
(* Mounts stay inside on every step: those after MS_PRIVATE add nothing to *)
(* what the guest sees.                                                    *)
LEMMA MountStep == MountInv /\ [Next]_vars => MountInv'
  <1> SUFFICES ASSUME MountInv, [Next]_vars
               PROVE  MountInv'
    OBVIOUS
  <1> USE DEF MountInv, AfterPrivate, InChroot
  <1>1. CASE Setup
    <2>1. CASE SetupConsole \/ CleanupVmshExe
      BY <2>1 DEF SetupConsole, CleanupVmshExe, Read, Fail
    <2>2. CASE Ensure("proc", "sys")
      BY <2>2 DEF Ensure
    <2>3. CASE Ensure("sys", "dev")
      BY <2>3 DEF Ensure
    <2>4. CASE Ensure("dev", "blockdev")
      BY <2>4 DEF Ensure
    <2>5. CASE FindVmshBlockdev \/ ReadIds \/ ReadProfile
      BY <2>5 DEF FindVmshBlockdev, ReadIds, ReadProfile, Read, Fail
    <2>6. CASE MountLabel \/ OpenNamespaces \/ EnterMountNamespace
      BY <2>6 DEF MountLabel, OpenNamespaces, EnterMountNamespace, Read, Fail
    <2> QED
      BY <1>1, <2>1, <2>2, <2>3, <2>4, <2>5, <2>6 DEF Setup
  <1>2. CASE MountSetup
    <2>1. CASE MakeTmp \/ \E d \in Dirs : MakeDir(d)
      BY <2>1 DEF MakeTmp, MakeDir, Fail
    <2>2. CASE Unshare \/ DropTempDirs \/ MakePrivate
      BY <2>2 DEF Unshare, DropTempDirs, MakePrivate, FailInside
    <2>3. CASE BindRoot \/ MoveMounts
      BY <2>3 DEF BindRoot, MoveMounts, Mounted, FailInside
    <2>4. CASE MakeDeviceFile \/ Chroot
      BY <2>4 DEF MakeDeviceFile, Chroot, FailInside
    <2>5. CASE MountDevice \/ SetupBindmounts
      BY <2>5 DEF MountDevice, SetupBindmounts, Mounted, FailInside
    <2> QED
      BY <1>2, <2>1, <2>2, <2>3, <2>4, <2>5 DEF MountSetup
  <1>3. CASE GiveUp \/ Spawn
    BY <1>3 DEF GiveUp, DropGroups, JoinNamespaces, SetCredentials, DropCapabilities,
                InheritProfile, Spawn, Read, FailInside
  <1>4. CASE Fork \/ ForkFails \/ HelperFails \/ Dropped \/ ChildExits \/ Wait
    BY <1>4 DEF Fork, ForkFails, HelperFails, Dropped, ChildExits, Wait, Read
  <1>5. CASE Cleanup
    BY <1>5 DEF Cleanup, HelperStep
  <1>6. CASE UNCHANGED vars
    BY <1>6 DEF vars
  <1> QED
    BY <1>1, <1>2, <1>3, <1>4, <1>5, <1>6 DEF Next

(* The guest never sees a mount of stage2's but the missing pseudo         *)
(* filesystems, for every guest and every failure.                         *)
THEOREM GuestMountsStay == Spec => []GuestMountsKept
  <1>1. Init => MountInv
    BY DEF Init, MountInv, AfterPrivate, InChroot
  <1>2. MountInv => GuestMountsKept
    BY DEF MountInv, GuestMountsKept
  <1> QED
    BY <1>1, <1>2, MountStep, PTL DEF Spec

-----------------------------------------------------------------------------
(* Every step keeps account of the directories and the device file.        *)
LEMMA FileStep == FileInv /\ [Next]_vars => FileInv'
  <1> SUFFICES ASSUME FileInv, [Next]_vars
               PROVE  FileInv'
    OBVIOUS
  <1> USE DEF FileInv, AfterPrivate, InChroot, Dirs
  <1>1. CASE Setup
    <2>1. CASE SetupConsole \/ CleanupVmshExe
      BY <2>1 DEF SetupConsole, CleanupVmshExe, Read, Fail, fileVars
    <2>2. CASE Ensure("proc", "sys") \/ Ensure("sys", "dev") \/ Ensure("dev", "blockdev")
      BY <2>2 DEF Ensure
    <2>3. CASE FindVmshBlockdev \/ ReadIds \/ ReadProfile
      BY <2>3 DEF FindVmshBlockdev, ReadIds, ReadProfile, Read, Fail, fileVars
    <2>4. CASE MountLabel \/ OpenNamespaces \/ EnterMountNamespace
      BY <2>4 DEF MountLabel, OpenNamespaces, EnterMountNamespace, Read, Fail, fileVars
    <2> QED
      BY <1>1, <2>1, <2>2, <2>3, <2>4 DEF Setup
  <1>2. CASE MountSetup
    <2>1. CASE MakeTmp \/ \E d \in Dirs : MakeDir(d)
      BY <2>1 DEF MakeTmp, MakeDir, Fail, fileVars
    <2>2. CASE Unshare \/ DropTempDirs \/ MakePrivate
      BY <2>2 DEF Unshare, DropTempDirs, MakePrivate, FailInside, fileVars
    <2>3. CASE BindRoot \/ MoveMounts \/ Chroot
      BY <2>3 DEF BindRoot, MoveMounts, Chroot, FailInside, fileVars
    <2>4. CASE MakeDeviceFile
      BY <2>4 DEF MakeDeviceFile, FailInside, fileVars
    <2>5. CASE MountDevice \/ SetupBindmounts
      BY <2>5 DEF MountDevice, SetupBindmounts, FailInside, fileVars
    <2> QED
      BY <1>2, <2>1, <2>2, <2>3, <2>4, <2>5 DEF MountSetup
  <1>3. CASE GiveUp \/ Spawn
    <2>1. CASE DropGroups \/ JoinNamespaces \/ SetCredentials
      BY <2>1 DEF DropGroups, JoinNamespaces, SetCredentials, Read, FailInside, fileVars
    <2>2. CASE DropCapabilities \/ InheritProfile \/ Spawn
      BY <2>2 DEF DropCapabilities, InheritProfile, Spawn, Read, FailInside, fileVars
    <2> QED
      BY <1>3, <2>1, <2>2 DEF GiveUp
  <1>4. CASE Fork \/ ForkFails \/ HelperFails
    BY <1>4 DEF Fork, ForkFails, HelperFails, fileVars
  <1>5. CASE Dropped \/ ChildExits \/ Wait
    BY <1>5 DEF Dropped, ChildExits, Wait, Read, fileVars
  <1>6. CASE Cleanup
    BY <1>6 DEF Cleanup, HelperStep
  <1>7. CASE UNCHANGED vars
    BY <1>7 DEF vars, fileVars
  <1> QED
    BY <1>1, <1>2, <1>3, <1>4, <1>5, <1>6, <1>7 DEF Next

(* A step that neither makes a directory of the guest nor starts a command *)
(* and goes on to a step that expects no more directories.                 *)
LEMMA MadeKept ==
    ASSUME MadeInv, UNCHANGED <<guest, made>>,
           child' # "none" => child # "none" /\ pc' \in {"drop", "wait", "exit"},
           \/ pc' = pc \/ pc' \in {"exe", "proc", "drop", "wait", "exit"}
           \/ pc \in AfterDev /\ pc' \in AfterDev \ AfterTmp
           \/ pc \in AfterTmp /\ pc' \in AfterTmp
    PROVE  MadeInv'
  BY DEF MadeInv, AfterDev, AfterTmp, AfterPrivate, InChroot

(* Every step keeps account of the directories that the guest lacked. *)
LEMMA MadeStep == MadeInv /\ [Next]_vars => MadeInv'
  <1> SUFFICES ASSUME MadeInv, [Next]_vars
               PROVE  MadeInv'
    OBVIOUS
  <1>0. pc \notin {"drop", "wait", "exit"} => child = "none"
    BY DEF MadeInv
  <1> USE DEF AfterDev, AfterTmp, AfterPrivate, InChroot
  <1>1. CASE Setup
    <2>1. CASE SetupConsole \/ CleanupVmshExe
      BY <2>1, <1>0, MadeKept DEF SetupConsole, CleanupVmshExe, Read, Fail, fileVars
    <2>2. ASSUME Ensure("proc", "sys") \/ Ensure("sys", "dev") \/ Ensure("dev", "blockdev")
          PROVE  MadeInv'
      BY <2>2 DEF Ensure, MkdirP, MadeInv
    <2>3. CASE FindVmshBlockdev \/ ReadIds \/ ReadProfile
      BY <2>3, <1>0, MadeKept DEF FindVmshBlockdev, ReadIds, ReadProfile, Read, Fail, fileVars
    <2>4. CASE MountLabel \/ OpenNamespaces \/ EnterMountNamespace
      BY <2>4, <1>0, MadeKept DEF MountLabel, OpenNamespaces, EnterMountNamespace, Read, Fail, fileVars
    <2> QED
      BY <1>1, <2>1, <2>2, <2>3, <2>4 DEF Setup
  <1>2. CASE MountSetup
    <2>1. CASE MakeTmp
      <3>1. CASE Fail("tmp")
        BY <3>1, <1>0, MadeKept DEF Fail, fileVars
      <3>2. CASE ~Fail("tmp")
        BY <2>1, <3>2 DEF MakeTmp, MkdirP, MadeInv
      <3> QED
        BY <3>1, <3>2
    <2>2. CASE (\E d \in Dirs : MakeDir(d)) \/ Unshare \/ DropTempDirs
      BY <2>2, <1>0, MadeKept DEF MakeDir, Unshare, DropTempDirs, fileVars
    <2>3. CASE MakePrivate \/ BindRoot \/ MakeDeviceFile \/ MountDevice
      BY <2>3, <1>0, MadeKept DEF MakePrivate, BindRoot, MakeDeviceFile, MountDevice, FailInside, fileVars
    <2>4. CASE MoveMounts \/ Chroot \/ SetupBindmounts
      BY <2>4, <1>0, MadeKept DEF MoveMounts, Chroot, SetupBindmounts, FailInside, fileVars
    <2> QED
      BY <1>2, <2>1, <2>2, <2>3, <2>4 DEF MountSetup
  <1>3. CASE GiveUp
    <2>1. CASE DropGroups \/ JoinNamespaces \/ SetCredentials
      BY <2>1, <1>0, MadeKept DEF DropGroups, JoinNamespaces, SetCredentials, Read, FailInside, fileVars
    <2>2. CASE DropCapabilities \/ InheritProfile
      BY <2>2, <1>0, MadeKept DEF DropCapabilities, InheritProfile, Read, FailInside, fileVars
    <2> QED
      BY <1>3, <2>1, <2>2 DEF GiveUp
  <1>4. CASE Spawn
    <2>1. CASE FailInside("spawn")
      BY <2>1, <1>0, MadeKept DEF FailInside, fileVars
    <2>2. CASE ~FailInside("spawn")
      <3>1. pc = "spawn" /\ pc' = "drop" /\ guest' = guest /\ made' = made
        BY <1>4, <2>2 DEF Spawn, fileVars
      <3>2. guest.lacks \subseteq {"proc", "sys", "dev", "tmp"}
        BY GuestsAssumption DEF MadeInv, Pseudo
      <3>3. made = guest.lacks
        BY <3>1, <3>2 DEF MadeInv
      <3> QED
        BY <3>1, <3>3 DEF MadeInv
    <2> QED
      BY <2>1, <2>2
  <1>5. CASE Fork \/ ForkFails \/ HelperFails
    BY <1>5, <1>0, MadeKept DEF Fork, ForkFails, HelperFails, fileVars
  <1>6. CASE Dropped \/ ChildExits \/ Wait
    BY <1>6, <1>0, MadeKept DEF Dropped, ChildExits, Wait, Read, fileVars
  <1>7. CASE Cleanup
    BY <1>7, <1>0, MadeKept DEF Cleanup, HelperStep
  <1>8. CASE UNCHANGED vars
    BY <1>8, <1>0, MadeKept DEF vars, fileVars
  <1> QED
    BY <1>1, <1>2, <1>3, <1>4, <1>5, <1>6, <1>7, <1>8 DEF Next

(* When stage2 has ended, its temporary directories and its device file    *)
(* are gone, or what was to remove them failed; the directories that it    *)
(* made for good are ones that the guest lacked, and if a command was      *)
(* started they are all of these.                                          *)
THEOREM TemporariesAreRemoved == Spec => []TemporariesRemoved
  <1>1. Init => FileInv /\ MadeInv
    BY DEF Init, FileInv, MadeInv, AfterDev, AfterTmp, AfterPrivate, InChroot, Dirs
  <1>2. FileInv /\ MadeInv => TemporariesRemoved
    BY DEF FileInv, MadeInv, TemporariesRemoved
  <1> QED
    BY <1>1, <1>2, FileStep, MadeStep, PTL DEF Spec

-----------------------------------------------------------------------------
(* A step that changes only pc, and the state of a command that runs, to   *)
(* a pc that promises no more keeps what was given up.                     *)
LEMMA ChildKept ==
    ASSUME ChildInv, UNCHANGED <<guest, console, ns, joined, root, idVars>>,
           child' # "none" => child # "none" /\ pc' \in {"drop", "wait", "exit"},
           pc' = pc \/ pc' \in {"drop", "wait", "exit"}
    PROVE  ChildInv'
  <1> USE DEF idVars
  <1>1. UNCHANGED <<guest, console, ns, joined, root, groups, uid, bounding, label>>
    OBVIOUS
  <1>2. /\ ConsoleTaken' = ConsoleTaken /\ Credentials' = Credentials
        /\ CapsDropped' = CapsDropped /\ Labelled' = Labelled
    BY <1>1 DEF ConsoleTaken, Highest, Credentials, HasUser, TargetUid, CapsDropped, ExecCaps, Labelled
  <1>3. Others' = Others /\ HasUser' = HasUser /\ TargetUid' = TargetUid
    BY <1>1 DEF Others, HasUser, TargetUid
  <1>4. ExecCaps' = ExecCaps
    BY <1>1 DEF ExecCaps
  <1>5. (child # "none" => ChildConfined) => (child' # "none" => ChildConfined')
    BY <1>1, <1>3, <1>4 DEF ChildConfined, Highest
  <1> QED
    BY <1>1, <1>2, <1>3, <1>5 DEF ChildInv, Working, AfterPrivate, InChroot

(* A step on the way that changes none of the promises of the steps before *)
(* it.                                                                     *)
LEMMA EarlyStep ==
    ASSUME ChildInv, UNCHANGED <<guest, console, joined, root, idVars, child>>,
           pc \in Working \ AfterPrivate, pc' \in Working \ AfterPrivate,
           pc' = "private" => ns' = "new"
    PROVE  ChildInv'
  <1>1. UNCHANGED <<guest, console, joined, root, groups, uid, bounding, label>>
    BY DEF idVars
  <1>2. child = "none"
    BY DEF ChildInv, Working, AfterPrivate, InChroot
  <1>3. ConsoleTaken'
    BY <1>1 DEF ChildInv, ConsoleTaken, Highest
  <1>4. pc' \notin {"private"} \cup AfterPrivate \/ pc' = "private"
    OBVIOUS
  <1>5. pc \notin {"label", "spawn"} => bounding = 0 .. LastCap /\ label = "own"
    BY DEF ChildInv
  <1>6. guest' \in Guests /\ child' = "none"
    BY <1>1, <1>2 DEF ChildInv
  <1> QED
    BY <1>1, <1>3, <1>4, <1>5, <1>6 DEF ChildInv, AfterPrivate, InChroot

(* A step of setting up mounts, after the new namespace was made. *)
LEMMA InsideStep ==
    ASSUME ChildInv, UNCHANGED <<guest, console, ns, joined, idVars, child>>,
           pc \in {"private"} \cup (AfterPrivate \ {"credentials", "caps", "label", "spawn"}),
           pc' \in AfterPrivate \ {"credentials", "caps", "label", "spawn"},
           pc' \in InChroot => root' = "image"
    PROVE  ChildInv'
  <1>1. UNCHANGED <<guest, console, ns, joined, groups, uid, bounding, label>>
    BY DEF idVars
  <1>2. child = "none"
    BY DEF ChildInv, AfterPrivate, InChroot
  <1>3. ConsoleTaken'
    BY <1>1 DEF ChildInv, ConsoleTaken, Highest, Working
  <1> QED
    BY <1>1, <1>2, <1>3 DEF ChildInv, Working, AfterPrivate, InChroot

(* The steps that give something up, one by one. *)
LEMMA GiveUpStep == ChildInv /\ (GiveUp \/ Spawn) => ChildInv'
  <1> SUFFICES ASSUME ChildInv, GiveUp \/ Spawn
               PROVE  ChildInv'
    OBVIOUS
  <1> DEFINE Here == {"groups", "others", "credentials", "caps", "label", "spawn"}
  <1>1. ASSUME NEW here \in Here, FailInside(here)
        PROVE  ChildInv'
    <2>1. child = "none"
      BY <1>1 DEF ChildInv, FailInside
    <2> QED
      BY <1>1, <2>1, ChildKept DEF FailInside
  <1>2. pc \in Here => /\ guest \in Guests /\ child = "none" /\ ConsoleTaken /\ ns = "new" /\ root = "image"
                       /\ pc \notin {"label", "spawn"} => bounding = 0 .. LastCap
                       /\ pc # "spawn" => label = "own"
    BY DEF ChildInv, Working, AfterPrivate, InChroot
  <1>3. ASSUME pc \in Here, UNCHANGED <<guest, console>>
        PROVE  ConsoleTaken'
    BY <1>2, <1>3 DEF ConsoleTaken, Highest
  <1>4. CASE DropGroups
    <2>1. /\ pc = "groups" /\ pc' = "others"
          /\ UNCHANGED <<guest, console, ns, joined, root, uid, bounding, label, child>>
      BY <1>4 DEF DropGroups
    <2> QED
      BY <2>1, <1>2, <1>3 DEF ChildInv, Working, AfterPrivate, InChroot
  <1>5. CASE JoinNamespaces
    <2>1. CASE pc' = "credentials"
      <3>1. /\ pc = "others" /\ joined' = Others
            /\ UNCHANGED <<guest, console, ns, root, groups, uid, bounding, label, child>>
        BY <1>5, <2>1 DEF JoinNamespaces, idVars
      <3>2. Others' = Others
        BY <3>1 DEF Others
      <3> QED
        BY <3>1, <3>2, <2>1, <1>2, <1>3 DEF ChildInv, Working, AfterPrivate, InChroot
    <2>2. CASE pc' = "drop"
      <3>1. /\ pc = "others"
            /\ UNCHANGED <<guest, console, ns, root, groups, uid, bounding, label, child>>
        BY <1>5, <2>2 DEF JoinNamespaces, idVars
      <3> QED
        BY <3>1, <2>2, <1>2 DEF ChildInv, Working, AfterPrivate, InChroot
    <2> QED
      BY <1>5, <2>1, <2>2 DEF JoinNamespaces
  <1>6. CASE SetCredentials
    <2>1. CASE FailInside("credentials")
      BY <2>1, <1>1
    <2>2. CASE ~FailInside("credentials")
      <3>1. /\ pc = "credentials" /\ pc' = "caps"
            /\ UNCHANGED <<guest, console, ns, joined, root, bounding, label, child>>
        BY <1>6, <2>2 DEF SetCredentials, Read, idVars
      <3>2. HasUser => groups' = "dropped" /\ uid' = TargetUid
        BY <1>6, <2>2 DEF SetCredentials
      <3>3. Others' = Others /\ HasUser' = HasUser /\ TargetUid' = TargetUid
        BY <3>1 DEF Others, HasUser, TargetUid
      <3>4. Credentials'
        BY <3>2, <3>3 DEF Credentials
      <3> QED
        BY <3>1, <3>3, <3>4, <1>2, <1>3 DEF ChildInv, Working, AfterPrivate, InChroot
    <2> QED
      BY <2>1, <2>2
  <1>7. CASE DropCapabilities
    <2>1. CASE FailInside("caps")
      BY <2>1, <1>1
    <2>2. CASE ~FailInside("caps")
      <3>1. /\ pc = "caps" /\ pc' = "label"
            /\ UNCHANGED <<guest, console, ns, joined, root, groups, uid, label, child>>
            /\ bounding' = IF uid = 0 THEN bounding \ ((0 .. LastCap - 1) \ (guest.caps \cup KeptCaps))
                           ELSE bounding
        BY <1>7, <2>2 DEF DropCapabilities
      <3>2. Others' = Others /\ HasUser' = HasUser /\ TargetUid' = TargetUid
        BY <3>1 DEF Others, HasUser, TargetUid
      <3>3. Credentials'
        BY <3>1, <3>2 DEF ChildInv, Credentials
      <3>4. ASSUME uid = 0
            PROVE  CapsDropped'
        <4>1. \A c \in 0 .. LastCap : c \in 0 .. LastCap - 1 <=> c # LastCap
          BY CapsAssumption
        <4>2. ExecCaps' = (0 .. LastCap) \ ((0 .. LastCap - 1) \ (guest.caps \cup KeptCaps))
          BY <3>4, <3>1, <1>2 DEF ExecCaps
        <4>3. ExecCaps' = (0 .. LastCap) \cap (guest.caps \cup KeptCaps \cup {LastCap})
          BY <4>1, <4>2
        <4> QED
          BY <4>3, <3>4, <3>1 DEF CapsDropped
      <3>5. ASSUME uid # 0
            PROVE  CapsDropped'
        BY <3>5, <3>1 DEF CapsDropped, ExecCaps
      <3>6. CapsDropped'
        BY <3>4, <3>5
      <3> QED
        BY <3>1, <3>2, <3>3, <3>6, <1>2, <1>3 DEF ChildInv, Working, AfterPrivate, InChroot
    <2> QED
      BY <2>1, <2>2
  <1>8. CASE InheritProfile
    <2>1. CASE FailInside("label")
      BY <2>1, <1>1
    <2>2. CASE ~FailInside("label")
      <3>1. /\ pc = "label" /\ pc' = "spawn"
            /\ UNCHANGED <<guest, console, ns, joined, root, groups, uid, bounding, child>>
            /\ label' = IF HasProfile THEN TargetLabel ELSE label
        BY <1>8, <2>2 DEF InheritProfile, Read, idVars
      <3>2. Others' = Others /\ Credentials' = Credentials /\ CapsDropped' = CapsDropped
        BY <3>1 DEF Others, Credentials, HasUser, TargetUid, CapsDropped, ExecCaps
      <3>3. Labelled'
        BY <3>1, <1>2 DEF Labelled, HasProfile, TargetLabel, OwnLabel
      <3> QED
        BY <3>1, <3>2, <3>3, <1>2, <1>3 DEF ChildInv, Working, AfterPrivate, InChroot
    <2> QED
      BY <2>1, <2>2
  <1>9. CASE Spawn
    <2>1. CASE FailInside("spawn")
      BY <2>1, <1>1
    <2>2. CASE ~FailInside("spawn")
      <3>1. /\ pc = "spawn" /\ pc' = "drop"
            /\ UNCHANGED <<guest, console, ns, joined, root, groups, uid, bounding, label>>
        BY <1>9, <2>2 DEF Spawn, idVars
      <3>2. joined = Others /\ Credentials /\ CapsDropped /\ Labelled
        BY <3>1 DEF ChildInv
      <3>3. \A k \in Kinds \cap guest.kinds : k \in joined \cup guest.same
        BY <3>2 DEF Others
      <3>4. \A c \in guest.consoles : Highest(c) /\ c.opens = "ok" => console = c.num
        BY <3>1, <1>2 DEF ConsoleTaken
      <3>5. root = "image" /\ ns = "new"
        BY <3>1, <1>2
      <3>6. /\ HasUser' = HasUser /\ Credentials' /\ CapsDropped' /\ Labelled'
        BY <3>1, <3>2 DEF HasUser, TargetUid, ExecCaps, Credentials, CapsDropped, Labelled
      <3>7. ChildConfined'
        BY <3>1, <3>3, <3>4, <3>5, <3>6 DEF ChildConfined, Highest, Credentials, CapsDropped, Labelled
      <3> QED
        BY <3>1, <3>7, <1>2 DEF ChildInv, Working, AfterPrivate, InChroot
    <2> QED
      BY <2>1, <2>2
  <1> QED
    BY <1>4, <1>5, <1>6, <1>7, <1>8, <1>9 DEF GiveUp

(* Every step keeps what has been given up. *)
LEMMA ChildStep == ChildInv /\ [Next]_vars => ChildInv'
  <1> SUFFICES ASSUME ChildInv, [Next]_vars
               PROVE  ChildInv'
    OBVIOUS
  <1>1. CASE Setup
    <2>1. pc \in {"console"} \cup Working => child = "none"
      BY DEF ChildInv, Working, AfterPrivate, InChroot
    <2>2. ASSUME NEW here \in {"console"} \cup Working, Fail(here)
          PROVE  ChildInv'
      BY <2>1, <2>2, ChildKept DEF Fail
    <2>3. ASSUME NEW here \in Working \ AfterPrivate, NEW after \in Working \ AfterPrivate, after # "private",
                 Read(here, after)
          PROVE  ChildInv'
      BY <2>3, EarlyStep DEF Read
    <2>4. CASE SetupConsole
      <3>1. CASE Fail("console")
        BY <3>1, <2>2
      <3>2. CASE ~Fail("console")
        <4>1. PICK c \in guest.consoles :
                  /\ c.opens = "ok"
                  /\ Highest(c) \/ \E d \in guest.consoles : Highest(d) /\ d.opens = "ENODEV"
                  /\ pc = "console" /\ pc' = "exe" /\ console' = c.num
                  /\ UNCHANGED <<guest, mounts, private, ns, joined, fileVars, root, idVars, child, helper, cleaned>>
          BY <2>4, <3>2 DEF SetupConsole
        <4>2. /\ guest' = guest /\ child' = "none"
              /\ bounding' = 0 .. LastCap /\ label' = "own"
          BY <4>1, <2>1 DEF idVars, ChildInv
        <4>3. ASSUME NEW d \in guest.consoles, Highest(d), d.opens = "ok"
              PROVE  d.num = c.num
          <5>1. \A e \in guest.consoles : Highest(e) => e = d
            BY <4>3, GuestsAssumption DEF Highest, ChildInv
          <5> QED
            BY <4>1, <4>3, <5>1
        <4>4. ConsoleTaken'
          BY <4>1, <4>3 DEF ConsoleTaken, Highest
        <4> QED
          BY <4>1, <4>2, <4>4 DEF ChildInv, AfterPrivate, InChroot
      <3> QED
        BY <3>1, <3>2
    <2>5. CASE CleanupVmshExe
      BY <2>5, <2>3 DEF CleanupVmshExe, Working, AfterPrivate, InChroot
    <2>6. ASSUME NEW fs \in Pseudo, NEW after \in Working \ AfterPrivate, after # "private", Ensure(fs, after)
          PROVE  ChildInv'
      <3>1. fs \in Working \ AfterPrivate
        BY DEF Pseudo, Working, AfterPrivate, InChroot
      <3>2. CASE pc' = "exit"
        BY <3>1, <3>2, <2>6, <2>1, ChildKept DEF Ensure
      <3>3. CASE pc' = after
        BY <3>1, <3>3, <2>6, EarlyStep DEF Ensure
      <3> QED
        BY <3>2, <3>3, <2>6 DEF Ensure
    <2>7. CASE Ensure("proc", "sys") \/ Ensure("sys", "dev") \/ Ensure("dev", "blockdev")
      BY <2>7, <2>6 DEF Pseudo, Working, AfterPrivate, InChroot
    <2>8. CASE FindVmshBlockdev \/ ReadIds
      BY <2>8, <2>2, <2>3 DEF FindVmshBlockdev, ReadIds, Working, AfterPrivate, InChroot
    <2>9. CASE ReadProfile
      BY <2>9, <2>2, <2>3 DEF ReadProfile, Working, AfterPrivate, InChroot
    <2>10. CASE MountLabel \/ OpenNamespaces
      BY <2>10, <2>2, <2>3 DEF MountLabel, OpenNamespaces, Working, AfterPrivate, InChroot
    <2>11. CASE EnterMountNamespace
      <3>1. CASE Fail("enter")
        BY <3>1, <2>2 DEF Working
      <3>2. CASE ~Fail("enter")
        BY <3>2, <2>11, EarlyStep DEF EnterMountNamespace, Working, AfterPrivate, InChroot
      <3> QED
        BY <3>1, <3>2
    <2> QED
      BY <1>1, <2>4, <2>5, <2>7, <2>8, <2>9, <2>10, <2>11 DEF Setup
  <1>2. CASE MountSetup
    <2>1. pc \in Working => child = "none"
      BY DEF ChildInv, Working, AfterPrivate, InChroot
    <2>2. ASSUME NEW here \in Working, FailInside(here)
          PROVE  ChildInv'
      BY <2>1, <2>2, ChildKept DEF FailInside
    <2>3. CASE MakeTmp \/ \E d \in Dirs : MakeDir(d)
      <3>1. CASE Fail("tmp")
        BY <3>1, <2>1, ChildKept DEF Fail, Working
      <3>2. CASE ~Fail("tmp")
        BY <2>3, <3>2, EarlyStep DEF MakeTmp, MakeDir, Working, AfterPrivate, InChroot
      <3> QED
        BY <3>1, <3>2
    <2>4. CASE Unshare
      BY <2>4, EarlyStep DEF Unshare, Working, AfterPrivate, InChroot
    <2>5. CASE DropTempDirs
      <3>1. pc' = "exit" /\ child' = "none" /\ guest' = guest /\ bounding' = bounding
        BY <2>5, <2>1 DEF DropTempDirs, Working, idVars
      <3> QED
        BY <3>1 DEF ChildInv, Working, AfterPrivate, InChroot
    <2>6. CASE MakePrivate
      <3>1. CASE FailInside("private")
        BY <3>1, <2>2 DEF Working
      <3>2. CASE ~FailInside("private")
        BY <3>2, <2>6, InsideStep DEF MakePrivate, AfterPrivate, InChroot
      <3> QED
        BY <3>1, <3>2
    <2>7. CASE BindRoot
      <3>1. CASE FailInside("bind")
        BY <3>1, <2>2 DEF Working, AfterPrivate
      <3>2. CASE ~FailInside("bind")
        BY <3>2, <2>7, InsideStep DEF BindRoot, AfterPrivate, InChroot
      <3> QED
        BY <3>1, <3>2
    <2>8. CASE MakeDeviceFile
      <3>1. CASE FailInside("device")
        BY <3>1, <2>2 DEF Working, AfterPrivate
      <3>2. CASE ~FailInside("device")
        BY <3>2, <2>8, InsideStep DEF MakeDeviceFile, AfterPrivate, InChroot
      <3> QED
        BY <3>1, <3>2
    <2>9. CASE MountDevice
      <3>1. CASE pc' = "drop"
        BY <3>1, <2>9, <2>1, ChildKept DEF MountDevice, Working, AfterPrivate
      <3>2. CASE pc' = "move"
        BY <3>2, <2>9, InsideStep DEF MountDevice, AfterPrivate, InChroot
      <3> QED
        BY <3>1, <3>2, <2>9 DEF MountDevice
    <2>10. CASE MoveMounts
      <3>1. CASE FailInside("move")
        BY <3>1, <2>2 DEF Working, AfterPrivate
      <3>2. CASE ~FailInside("move")
        BY <3>2, <2>10, InsideStep DEF MoveMounts, AfterPrivate, InChroot
      <3> QED
        BY <3>1, <3>2
    <2>11. CASE Chroot
      <3>1. CASE FailInside("chroot")
        BY <3>1, <2>2 DEF Working, AfterPrivate
      <3>2. CASE ~FailInside("chroot")
        BY <3>2, <2>11, InsideStep DEF Chroot, AfterPrivate, InChroot
      <3> QED
        BY <3>1, <3>2
    <2>12. CASE SetupBindmounts
      <3>1. CASE FailInside("bindmounts")
        BY <3>1, <2>2 DEF Working, AfterPrivate, InChroot
      <3>2. CASE ~FailInside("bindmounts")
        <4>1. /\ pc = "bindmounts" /\ pc' = "groups"
              /\ UNCHANGED <<guest, console, ns, joined, root, idVars, child>>
          BY <3>2, <2>12 DEF SetupBindmounts
        <4>2. root = "image"
          BY <4>1 DEF ChildInv, InChroot
        <4> QED
          BY <4>1, <4>2, InsideStep DEF AfterPrivate, InChroot
      <3> QED
        BY <3>1, <3>2
    <2> QED
      BY <1>2, <2>3, <2>4, <2>5, <2>6, <2>7, <2>8, <2>9, <2>10, <2>11, <2>12 DEF MountSetup
  <1>3. CASE GiveUp \/ Spawn
    BY <1>3, GiveUpStep
  <1>4. child # "none" => pc \in {"drop", "wait", "exit"}
    BY DEF ChildInv
  <1>5. CASE Fork \/ ForkFails \/ HelperFails
    BY <1>5, <1>4, ChildKept DEF Fork, ForkFails, HelperFails
  <1>6. CASE Dropped \/ ChildExits \/ Wait
    BY <1>6, <1>4, ChildKept DEF Dropped, ChildExits, Wait, Read
  <1>7. CASE Cleanup
    BY <1>7, <1>4, ChildKept DEF Cleanup, HelperStep
  <1>8. CASE UNCHANGED vars
    BY <1>8, <1>4, ChildKept DEF vars
  <1> QED
    BY <1>1, <1>2, <1>3, <1>5, <1>6, <1>7, <1>8 DEF Next

(* The command never runs before stage2 has given up what it gives up, for *)
(* every guest, whatever failed and was passed over before; and it has the *)
(* very label and capabilities that ChildConfined says it has, the last    *)
(* capability and SELinux's own label included.                            *)
THEOREM CommandConfined == Spec => []ChildConfined
  <1>1. Init => ChildInv
    BY DEF Init, ChildInv, Working, AfterPrivate, InChroot
  <1>2. ChildInv => ChildConfined
    BY DEF ChildInv, ChildConfined
  <1> QED
    BY <1>1, <1>2, ChildStep, PTL DEF Spec

=============================================================================
