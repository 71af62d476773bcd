------------------------------- MODULE Stage2 -------------------------------
(***************************************************************************)
(* stage2, the program that stage1 starts in the guest (stage2/src). It    *)
(* takes over vmsh's console, finds vmsh's block device, moves into the    *)
(* namespaces of a process of the guest, builds a mount namespace whose    *)
(* root is the image on the device, gives up its privileges and runs the   *)
(* command. What it needs for a while, two directories and a device file,  *)
(* it removes itself, on every path out. Directories that it expects every *)
(* system to have it makes if they are missing, and these stay.            *)
(*                                                                         *)
(* Any step that calls the system may fail; the errors that the code       *)
(* ignores are kept apart from those that end it.                          *)
(***************************************************************************)
EXTENDS Integers, Sequences, FiniteSets

CONSTANTS
    Guests,    \* guests: see GuestsAssumption
    Kinds,     \* other_kinds: kinds of namespaces, without that of mounts
    LastCap,   \* /proc/sys/kernel/cap_last_cap
    KeptCaps   \* CAP_SYS_CHROOT and CAP_SYS_PTRACE

Pseudo == {"proc", "sys", "dev"}

(* consoles: nodes /dev/hvc<num>, and how open() ends for them             *)
(* missing: pseudo filesystems that nobody mounted                         *)
(* lacks:   directories (their mount points, /tmp) that do not exist       *)
(* serials: the serial numbers of the block devices, in order              *)
(* fs:      how mount() ends for the file systems the kernel has, in order *)
(* kinds:   the kinds of namespaces the kernel has                         *)
(* same:    those where stage2 is in the namespace of the target           *)
(* ids:     the target's id map: extents [inside, outside, count]          *)
(* owner:   the owner of the target, outside                               *)
(* caps:    the target's effective capabilities                            *)
(* lsm:     the security module: "apparmor", "selinux" or "none"           *)
(* label:   the target's attr/current, its label; stage2's own is "own"    *)
(* exec:    the target's attr/exec, the label that it asked for its next   *)
(*          exec(); "" is none, as for stage2                              *)
(* context: the target's / is mounted with a context= option               *)
(* binds:   files and directories to bind: what the guest has (source), the*)
(*          image has (target), and whether the image can be written       *)
ASSUME GuestsAssumption ==
    \A g \in Guests :
        /\ g.missing \subseteq Pseudo
        /\ g.lacks \subseteq g.missing \cup {"tmp"}
        /\ g.kinds \subseteq Kinds \cup {"mnt"}
        /\ g.owner \in Nat
        /\ \A c, d \in g.consoles : c.num \in Nat /\ (c.num = d.num => c = d)
        /\ \A i \in 1 .. Len(g.ids) : g.ids[i].inside \in Nat /\ g.ids[i].outside \in Nat
ASSUME CapsAssumption == LastCap \in Nat /\ KeptCaps \subseteq 0 .. LastCap

Dirs == {"mountpoint", "temp_mountpoint"}

VARIABLES
    pc,       \* the next step of stage2
    console,  \* the number of the console taken over, -1 for none
    guest,    \* the guest it runs in
    mounts,   \* what stage2 mounted that processes of the guest see
    private,  \* mounts in stage2's namespace do not spread to the guest's
    ns,       \* the mount namespace stage2 is in: "own", "target" or "new"
    joined,   \* other namespaces of the target that stage2 joined
    dirs,     \* temporary directories that exist
    node,     \* device files that exist
    made,     \* directories of the guest that stage2 made, by mkdir_p()
    root,     \* what / is: "guest" or "image"
    groups,   \* "own" until setgroups() succeeded
    uid,      \* the user stage2 runs as
    bounding, \* the capability bounding set
    label,    \* the security label taken over
    child,    \* the command: "none", "running" or "exited"
    helper,   \* the process that cleans up: its next step, or "none"
    cleaned   \* how cleaning up ended: "no", "ok" or "failed"

idVars == <<groups, uid, bounding, label>>
fileVars == <<dirs, node, made>>
vars == <<pc, guest, console, mounts, private, ns, joined, fileVars, root, idVars, child, helper, cleaned>>

Steps == {"console", "exe", "proc", "sys", "dev", "blockdev", "idmap", "profile", "context",
          "namespaces", "enter", "tmp", "dirs", "unshare", "private", "bind", "device", "move", "chroot",
          "bindmounts", "groups", "others", "credentials", "caps", "label", "spawn", "drop", "wait", "exit"}

TypeOK ==
    /\ pc \in Steps /\ guest \in Guests /\ console \in Int
    /\ mounts \subseteq Pseudo \cup {"temp", "image", "moved", "bound"}
    /\ private \in BOOLEAN /\ node \subseteq {"vmsh-blk"}
    /\ ns \in {"own", "target", "new"} /\ root \in {"guest", "image"}
    /\ joined \subseteq Kinds /\ dirs \subseteq Dirs /\ made \subseteq Pseudo \cup {"tmp"}
    /\ groups \in {"own", "dropped"} /\ uid \in Nat /\ bounding \subseteq 0 .. LastCap
    /\ child \in {"none", "running", "exited"}
    /\ helper \in {"none", "back", "rmdir", "rmtemp", "forth"}
    /\ cleaned \in {"no", "ok", "failed"}

Init ==
    /\ pc = "console" /\ guest \in Guests /\ console = -1
    /\ mounts = {} /\ private = FALSE /\ ns = "own" /\ joined = {}
    /\ dirs = {} /\ node = {} /\ made = {} /\ root = "guest"
    /\ groups = "own" /\ uid = 0 /\ bounding = 0 .. LastCap /\ label = "own"
    /\ child = "none" /\ helper = "none" /\ cleaned = "no"

-----------------------------------------------------------------------------
(* An error before there is a MountNamespace ends stage2. *)
Fail(here) ==
    /\ pc = here /\ pc' = "exit"
    /\ UNCHANGED <<guest, console, mounts, private, ns, joined, fileVars, root, idVars, child, helper, cleaned>>

(* A step that only reads, or changes nothing that is modelled. *)
Read(here, after) ==
    /\ pc = here /\ pc' = after
    /\ UNCHANGED <<guest, console, mounts, private, ns, joined, fileVars, root, idVars, child, helper, cleaned>>

(* find_vmsh_consoles(): a heap of the numbers, taken apart in the order   *)
(* of its array, where only the first is known to be the largest. A node   *)
(* without a device (ENODEV) is passed over, another error is the end.     *)
Highest(c) == \A d \in guest.consoles : d.num <= c.num

SetupConsole ==
    \/ \E c \in guest.consoles :
          /\ c.opens = "ok"
          /\ Highest(c) \/ \E d \in guest.consoles : Highest(d) /\ d.opens = "ENODEV"
          /\ pc = "console" /\ pc' = "exe" /\ console' = c.num
          /\ UNCHANGED <<guest, mounts, private, ns, joined, fileVars, root, idVars, child, helper, cleaned>>
    \/ Fail("console")

(* cleanup_vmsh_exe() ignores errors. *)
CleanupVmshExe == Read("exe", "proc")

(* mkdir_p() makes the directory if there is none. *)
MkdirP(d) == made' = made \cup ({d} \cap guest.lacks)

(* ensure_procfs(), ensure_sysfs(), ensure_devtmpfs(): mounted if missing. *)
(* The directory is there first, whether or not the mount succeeds.        *)
Ensure(fs, after) ==
    /\ pc = fs
    /\ \/ pc' = after /\ MkdirP(fs) /\ mounts' = mounts \cup ({fs} \cap guest.missing)
       \/ pc' = "exit" /\ (MkdirP(fs) \/ UNCHANGED made) /\ UNCHANGED mounts
    /\ UNCHANGED <<guest, console, private, ns, joined, dirs, node, root, idVars, child, helper, cleaned>>

(* find_vmsh_blockdev(): the first device with vmsh's serial number. *)
FindVmshBlockdev ==
    \/ (\E i \in 1 .. Len(guest.serials) : guest.serials[i] = "vmsh0") /\ Read("blockdev", "idmap")
    \/ Fail("blockdev")

(* IdMap::new_from_pid(), which has room for five extents, then            *)
(* procfs::status() and the owner of the target.                           *)
ReadIds == (Len(guest.ids) <= 5 /\ Read("idmap", "profile")) \/ Fail("idmap")

(* profile_path(): what is read as a label is what a process runs with for *)
(* AppArmor, and what it asked for its next exec() for SELinux.            *)
TargetLabel == IF guest.lsm = "selinux" THEN guest.exec ELSE guest.label
OwnLabel == IF guest.lsm = "selinux" THEN "" ELSE "own"

(* lsm::read_profile(): a profile if the target's label is another. *)
HasProfile == guest.lsm # "none" /\ TargetLabel # OwnLabel

ReadProfile == Read("profile", IF HasProfile THEN "context" ELSE "namespaces") \/ Fail("profile")

(* mount_label(): SELinux needs the context= option of the target's /.     *)
MountLabel ==
    \/ (guest.lsm = "selinux" => guest.context) /\ Read("context", "namespaces")
    \/ guest.lsm = "selinux" /\ Fail("context")

(* supported_namespaces(), and opening those that are to be joined. *)
OpenNamespaces ==
    \/ "mnt" \in guest.kinds /\ Read("namespaces", "enter")
    \/ Fail("namespaces")

EnterMountNamespace ==
    \/ /\ pc = "enter" /\ pc' = "tmp" /\ ns' = "target"
       /\ UNCHANGED <<guest, console, mounts, private, joined, fileVars, root, idVars, child, helper, cleaned>>
    \/ Fail("enter")

-----------------------------------------------------------------------------
(* MountNamespace::new() makes /tmp, in the namespace of the target. *)
MakeTmp ==
    \/ /\ pc = "tmp" /\ pc' = "dirs" /\ MkdirP("tmp")
       /\ UNCHANGED <<guest, console, mounts, private, ns, joined, dirs, node, root, idVars, child, helper, cleaned>>
    \/ Fail("tmp")

(* MountNamespace::new(): the directories, then unshare(). Until it        *)
(* returns they are TempDirs, which an error drops (one after unshare()    *)
(* too, as the new namespace is opened); the destructor removes them if it *)
(* can and ignores it if not.                                              *)
MakeDir(d) ==
    /\ pc = "dirs" /\ d \notin dirs
    /\ d = "temp_mountpoint" => "mountpoint" \in dirs
    /\ dirs' = dirs \cup {d}
    /\ pc' = IF dirs' = Dirs THEN "unshare" ELSE "dirs"
    /\ UNCHANGED <<guest, console, mounts, private, ns, joined, node, made, root, idVars, child, helper, cleaned>>

Unshare ==
    /\ pc = "unshare" /\ pc' = "private" /\ ns' = "new"
    /\ UNCHANGED <<guest, console, mounts, private, joined, fileVars, root, idVars, child, helper, cleaned>>

DropTempDirs ==
    /\ pc \in {"dirs", "unshare"} /\ pc' = "exit"
    /\ dirs' \in SUBSET dirs
    /\ cleaned' = IF dirs' = {} THEN cleaned ELSE "failed"
    /\ ns' = ns \/ (pc = "unshare" /\ ns' = "new")
    /\ UNCHANGED <<guest, console, mounts, private, joined, node, made, root, idVars, child, helper>>

(* Mutant: the destructor is not run. *)
FailInsideForgets(here) ==
    /\ pc = here /\ pc' = "exit"
    /\ UNCHANGED <<guest, console, mounts, private, ns, joined, fileVars, root, idVars, child, helper, cleaned>>

(* From here on an error drops the MountNamespace, which cleans up. *)
FailInside(here) ==
    /\ pc = here /\ pc' = "drop"
    /\ UNCHANGED <<guest, console, mounts, private, ns, joined, fileVars, root, idVars, child, helper, cleaned>>

(* A mount is seen in the guest's namespaces unless mounts are private. *)
Mounted(what) == mounts' = IF private THEN mounts ELSE mounts \cup {what}

(* Mutant: mounts stay shared. *)
MakePrivateNot ==
    /\ pc = "private" /\ pc' = "bind" /\ UNCHANGED private
    /\ UNCHANGED <<guest, console, mounts, ns, joined, fileVars, root, idVars, child, helper, cleaned>>

MakePrivate ==
    \/ /\ pc = "private" /\ pc' = "bind" /\ private' = TRUE
       /\ UNCHANGED <<guest, console, mounts, ns, joined, fileVars, root, idVars, child, helper, cleaned>>
    \/ FailInside("private")

(* Bind mount of / to temp_mountpoint. *)
BindRoot ==
    \/ /\ pc = "bind" /\ pc' = "device" /\ Mounted("temp")
       /\ UNCHANGED <<guest, console, private, ns, joined, fileVars, root, idVars, child, helper, cleaned>>
    \/ FailInside("bind")

(* BlockDevice::mount() tries the file systems until one does not answer   *)
(* EINVAL.                                                                 *)
Mountable(fs) == \E i \in 1 .. Len(fs) : fs[i] = "ok" /\ \A k \in 1 .. i - 1 : fs[k] = "EINVAL"

(* DeviceFile::new() makes a device file in the mount point. *)
MakeDeviceFile ==
    \/ /\ pc = "device" /\ node = {} /\ node' = {"vmsh-blk"}
       /\ UNCHANGED <<pc, guest, console, mounts, private, ns, joined, dirs, made, root, idVars, child, helper, cleaned>>
    \/ node = {} /\ FailInside("device")

(* The destructor of DeviceFile removes it when mount() returns, with or   *)
(* without success; a failing unlinkat() is only reported.                 *)
MountDevice ==
    /\ pc = "device" /\ node # {} /\ node' \in {{}, node}
    /\ \/ Mountable(guest.fs) /\ pc' = "move" /\ Mounted("image")
       \/ pc' = "drop" /\ UNCHANGED mounts
    /\ UNCHANGED <<guest, console, private, ns, joined, dirs, made, root, idVars, child, helper, cleaned>>

(* The guest's mounts go below the image. *)
MoveMounts ==
    \/ /\ pc = "move" /\ pc' = "chroot" /\ Mounted("moved")
       /\ UNCHANGED <<guest, console, private, ns, joined, fileVars, root, idVars, child, helper, cleaned>>
    \/ FailInside("move")

(* chdir() and chroot(). *)
Chroot ==
    \/ /\ pc = "chroot" /\ pc' = "bindmounts" /\ root' = "image"
       /\ UNCHANGED <<guest, console, mounts, private, ns, joined, fileVars, idVars, child, helper, cleaned>>
    \/ FailInside("chroot")

(* setup_bindmounts(): what the guest does not have is left out, what the  *)
(* image does not have is made if it can be, and only like is bound over   *)
(* like. A bind mount that fails is left out too.                          *)
Bindable(b) ==
    /\ b.source \in {"file", "dir"}
    /\ \/ b.target = b.source
       \/ b.target = "none" /\ b.writable

SetupBindmounts ==
    \/ /\ pc = "bindmounts" /\ pc' = "groups"
       /\ \A b \in guest.binds : b.source # "error"
       /\ \/ (\E b \in guest.binds : Bindable(b)) /\ Mounted("bound")
          \/ UNCHANGED mounts
       /\ UNCHANGED <<guest, console, private, ns, joined, fileVars, root, idVars, child, helper, cleaned>>
    \/ FailInside("bindmounts")

-----------------------------------------------------------------------------
HasUser == "user" \in guest.kinds

(* The first setgroups(), before the namespaces are joined, may fail. *)
DropGroups ==
    /\ pc = "groups" /\ pc' = "others"
    /\ \/ HasUser /\ groups' = "dropped"
       \/ UNCHANGED groups
    /\ UNCHANGED <<guest, console, mounts, private, ns, joined, fileVars, root, uid, bounding, label, child, helper, cleaned>>

(* Namespaces the kernel has, and that are not stage2's already. *)
Others == (Kinds \cap guest.kinds) \ guest.same

JoinNamespaces ==
    \/ /\ pc = "others" /\ pc' = "credentials" /\ joined' = Others
       /\ UNCHANGED <<guest, console, mounts, private, ns, fileVars, root, idVars, child, helper, cleaned>>
    \/ /\ pc = "others" /\ pc' = "drop" /\ joined' \in SUBSET Others
       /\ UNCHANGED <<guest, console, mounts, private, ns, fileVars, root, idVars, child, helper, cleaned>>

(* An extent that has the id, outside. *)
Holds(e, id) == e.outside <= id /\ id <= e.outside + e.count - 1

(* IdMap::map_id_up(): the id inside, by the first extent with the id      *)
(* outside.                                                                *)
MapIdUp(ids, id) ==
    LET hits == {i \in 1 .. Len(ids) : Holds(ids[i], id)}
    IN  IF hits = {} THEN 65534
        ELSE LET e == ids[CHOOSE i \in hits : \A k \in hits : i <= k]
             IN  id - e.outside + e.inside

TargetUid == MapIdUp(guest.ids, guest.owner)

(* Mutant: a setgroups() that failed twice is let pass. *)
SetCredentialsAnyGroups ==
    \/ /\ pc = "credentials" /\ pc' = "caps"
       /\ HasUser
       /\ uid' = TargetUid
       /\ UNCHANGED <<guest, console, mounts, private, ns, joined, fileVars, root, groups, bounding, label, child, helper, cleaned>>
    \/ ~HasUser /\ Read("credentials", "caps")

(* The second setgroups(), which must succeed if the first did not, then   *)
(* setgid() and setuid().                                                  *)
SetCredentials ==
    \/ /\ pc = "credentials" /\ pc' = "caps"
       /\ HasUser
       /\ groups' = "dropped" /\ uid' = TargetUid
       /\ UNCHANGED <<guest, console, mounts, private, ns, joined, fileVars, root, bounding, label, child, helper, cleaned>>
    \/ ~HasUser /\ Read("credentials", "caps")
    \/ HasUser /\ FailInside("credentials")

(* capabilities::drop(): every capability below LastCap, not LastCap       *)
(* itself. prctl() fails, unnoticed, for a user other than root.           *)
DropCapabilities ==
    \/ /\ pc = "caps" /\ pc' = "label"
       /\ bounding' = IF uid = 0 THEN bounding \ ((0 .. LastCap - 1) \ (guest.caps \cup KeptCaps))
                      ELSE bounding
       /\ UNCHANGED <<guest, console, mounts, private, ns, joined, fileVars, root, groups, uid, label, child, helper, cleaned>>
    \/ FailInside("caps")

(* inherit_profile(): from now on, or from the next exec() on. *)
InheritProfile ==
    \/ ~HasProfile /\ Read("label", "spawn")
    \/ /\ HasProfile /\ pc = "label" /\ pc' = "spawn" /\ label' = TargetLabel
       /\ UNCHANGED <<guest, console, mounts, private, ns, joined, fileVars, root, groups, uid, bounding, child, helper, cleaned>>
    \/ HasProfile /\ FailInside("label")

(* Cmd::new() and spawn(). *)
Spawn ==
    \/ /\ pc = "spawn" /\ pc' = "drop" /\ child' = "running"
       /\ UNCHANGED <<guest, console, mounts, private, ns, joined, fileVars, root, idVars, helper, cleaned>>
    \/ FailInside("spawn")

-----------------------------------------------------------------------------
(* The destructor of MountNamespace forks a helper and waits for it.       *)
Fork ==
    /\ pc = "drop" /\ helper = "none" /\ cleaned = "no"
    /\ helper' = "back"
    /\ UNCHANGED <<pc, guest, console, mounts, private, ns, joined, fileVars, root, idVars, child, cleaned>>

(* fork() that fails is a panic; a command that runs is left alone. *)
ForkFails ==
    /\ pc = "drop" /\ helper = "none" /\ cleaned = "no"
    /\ cleaned' = "failed" /\ pc' = "exit"
    /\ UNCHANGED <<guest, console, mounts, private, ns, joined, fileVars, root, idVars, child, helper>>

(* The helper's setns() to the guest's namespace needs root. *)
HelperStep(here, after) ==
    /\ helper = here /\ helper' = after
    /\ UNCHANGED <<pc, guest, console, mounts, private, ns, joined, node, made, root, idVars, child>>

HelperFails ==
    /\ helper # "none" /\ helper' = "none" /\ cleaned' = "failed"
    /\ UNCHANGED <<pc, guest, console, mounts, private, ns, joined, fileVars, root, idVars, child>>

(* Mutant: one directory is removed twice, the other never. *)
CleanupOne ==
    \/ uid = 0 /\ HelperStep("back", "rmdir") /\ UNCHANGED <<dirs, cleaned>>
    \/ HelperStep("rmdir", "rmtemp") /\ dirs' = dirs \ {"mountpoint"} /\ UNCHANGED cleaned
    \/ HelperStep("rmtemp", "forth") /\ UNCHANGED <<dirs, cleaned>>
    \/ HelperStep("forth", "none") /\ UNCHANGED dirs /\ cleaned' = "ok"

(* _cleanup(), in the helper: to the old namespace, both directories, and  *)
(* back. A directory is removed only if the device file is gone from it.   *)
Cleanup ==
    \/ uid = 0 /\ HelperStep("back", "rmdir") /\ UNCHANGED <<dirs, cleaned>>
    \/ node = {} /\ HelperStep("rmdir", "rmtemp") /\ dirs' = dirs \ {"mountpoint"} /\ UNCHANGED cleaned
    \/ HelperStep("rmtemp", "forth") /\ dirs' = dirs \ {"temp_mountpoint"} /\ UNCHANGED cleaned
    \/ HelperStep("forth", "none") /\ UNCHANGED dirs /\ cleaned' = "ok"

(* waitpid() in the destructor; then stage2 waits for its child, if any.   *)
Dropped ==
    /\ pc = "drop" /\ helper = "none" /\ cleaned # "no"
    /\ pc' = IF child = "none" THEN "exit" ELSE "wait"
    /\ UNCHANGED <<guest, console, mounts, private, ns, joined, fileVars, root, idVars, child, helper, cleaned>>

ChildExits ==
    /\ child = "running" /\ child' = "exited"
    /\ UNCHANGED <<pc, guest, console, mounts, private, ns, joined, fileVars, root, idVars, helper, cleaned>>

Wait == child = "exited" /\ Read("wait", "exit")

Setup ==
    \/ SetupConsole \/ CleanupVmshExe
    \/ Ensure("proc", "sys") \/ Ensure("sys", "dev") \/ Ensure("dev", "blockdev")
    \/ FindVmshBlockdev \/ ReadIds \/ ReadProfile \/ MountLabel \/ OpenNamespaces \/ EnterMountNamespace

MountSetup ==
    \/ MakeTmp \/ (\E d \in Dirs : MakeDir(d)) \/ Unshare \/ DropTempDirs
    \/ MakePrivate \/ BindRoot \/ MakeDeviceFile \/ MountDevice \/ MoveMounts \/ Chroot
    \/ SetupBindmounts

GiveUp == DropGroups \/ JoinNamespaces \/ SetCredentials \/ DropCapabilities \/ InheritProfile

Next ==
    \/ Setup \/ MountSetup \/ GiveUp \/ Spawn
    \/ Fork \/ ForkFails \/ Cleanup \/ HelperFails \/ Dropped \/ ChildExits \/ Wait

Spec == Init /\ [][Next]_vars

(* Every step returns, except that the command may run forever. *)
Fairness == WF_vars(Setup \/ MountSetup \/ GiveUp \/ Spawn \/ Fork \/ ForkFails \/ Dropped \/ Wait)
            /\ WF_vars(Cleanup \/ HelperFails)

FairSpec == Spec /\ Fairness

-----------------------------------------------------------------------------
(* The processes of the guest never see a mount of stage2 other than the   *)
(* pseudo filesystems that were missing: the tree that stage2 builds stays *)
(* in its own namespace, on every path.                                    *)
GuestMountsKept == mounts \subseteq guest.missing

(* When stage2 has ended, its two temporary directories and its device     *)
(* file are gone, unless the helper that cleans up failed (it does if      *)
(* stage2 is no longer root by then, or the device file could not be       *)
(* removed) or a TempDir could not be removed. What stays on every path    *)
(* are directories that the guest lacked: none that it had is touched, and *)
(* all that it lacked are there once a command was started.                *)
TemporariesRemoved ==
    pc = "exit" =>
        /\ cleaned # "failed" => dirs = {} /\ node = {}
        /\ made \subseteq guest.lacks
        /\ child # "none" => made = guest.lacks

(* The capabilities that exec() leaves to a command. *)
ExecCaps == IF uid = 0 THEN bounding ELSE {}

(* A running command has the image as its root, in a mount namespace of    *)
(* its own; is in every namespace of the target that the kernel has; and,  *)
(* if the kernel has user namespaces, runs as the target's user and in no  *)
(* group of stage2. Its console is the last one of the guest, if that one  *)
(* could be opened. Two parts are weaker than the target's confinement:    *)
(*  - under AppArmor the command has the target's label; under SELinux it  *)
(*    has the one the target set for its next exec(), and stage2's own if  *)
(*    there is none, whatever label the target runs with;                  *)
(*  - as root it has the target's capabilities, chroot, ptrace and also    *)
(*    the one with the highest number, which the loop of                   *)
(*    capabilities::drop() never reaches; as another user it has none.     *)
ChildConfined ==
    child # "none" =>
        /\ root = "image" /\ ns = "new"
        /\ \A k \in Kinds \cap guest.kinds : k \in joined \cup guest.same
        /\ \A c \in guest.consoles : Highest(c) /\ c.opens = "ok" => console = c.num
        /\ HasUser => groups = "dropped" /\ uid = TargetUid
        /\ guest.lsm = "apparmor" => label = guest.label
        /\ guest.lsm = "selinux" => label = IF guest.exec = "" THEN "own" ELSE guest.exec
        /\ ExecCaps = IF uid = 0 THEN (0 .. LastCap) \cap (guest.caps \cup KeptCaps \cup {LastCap}) ELSE {}

(* The directories do not outlive the destructor: once the command runs,   *)
(* or a step failed, stage2 tries to remove them whether or not the        *)
(* command ever ends.                                                      *)
EventuallyCleaned == (dirs # {}) ~> (dirs = {} \/ cleaned = "failed")

=============================================================================
