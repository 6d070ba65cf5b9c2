----------------------------- MODULE VmDefinition -----------------------------
(***************************************************************************)
(* The definition of a VM (wvm-host vm.rs): what makes it valid, where its *)
(* runtime files lie, what is prepared for them (supervisor.rs), and the   *)
(* QEMU command line built from it.  A path is the sequence of its names   *)
(* and separators.  An argument of the command line is abstracted to       *)
(* what QEMU resolves when it starts: the nodes, drives and buses it       *)
(* declares, those it uses, the files it opens, and its place in the boot  *)
(* order.  An optional setting is a set of at most one value.              *)
(***************************************************************************)
EXTENDS Naturals, Sequences, FiniteSets, SequencesExt

CONSTANTS
    StateHome,  \* where the user's state lives, a path
    RuntimeDir  \* the user's runtime directory, a path

(* load and validate; `files' are the files that exist.                    *)
Valid(config, files) ==
    /\ config.name # <<>>
    /\ config.cpus >= 1
    /\ config.memory_mib >= 1024
    /\ config.disk_gib >= 1
    /\ config.install_iso \cup config.driver_iso \subseteq files
    /\ config.state_dir = {} => \A i \in DOMAIN config.name : config.name[i] # "/"

StateDir(config) ==
    IF config.state_dir # {} THEN CHOOSE dir \in config.state_dir : TRUE
    ELSE StateHome \o <<"/", "wvm", "/">> \o config.name

InStateDir(config, file) == StateDir(config) \o <<"/", file>>

SpiceSocket(config) ==
    RuntimeDir \o <<"/", "wvm", "/">> \o config.name \o <<".spice.sock">>

(* What the boot structures of the disk say: {} when it cannot be read or  *)
(* carries no partition table.                                             *)
DetectInstalledFirmware(disk) ==
    IF ~disk.readable \/ ~disk.boot_signature THEN {}
    ELSE IF disk.efi_partition THEN {"uefi"} ELSE {"bios"}

Directory(path) ==
    SubSeq(path, 1, Max({i \in DOMAIN path : path[i] = "/"} \cup {1}) - 1)

(* prepare: the directories it makes, or its refusal.  A disk that is not  *)
(* there is created, in a directory made for it.                           *)
Prepare(config, disk) ==
    LET installed == IF disk.exists THEN DetectInstalledFirmware(disk) ELSE {}
    IN  [ok   |-> installed \subseteq {config.firmware},
         dirs |-> {StateDir(config), RuntimeDir \o <<"/", "wvm">>,
                   Directory(config.disk)}]

-----------------------------------------------------------------------------
(* The command line.                                                       *)

Argument == [declares |-> {}, uses |-> {}, opens |-> {}, boot |-> {}]

Declares(ids) == [Argument EXCEPT !.declares = ids]

Opens(ids, file) == [Argument EXCEPT !.declares = ids, !.opens = {file}]

Uses(ids) == [Argument EXCEPT !.uses = ids]

(* -name, -machine (q35 brings its two AHCI ports), -cpu, -smp, -m.        *)
MachineArgs == <<Declares({"ide.0", "ide.1"})>>

(* The firmware, installed with QEMU, and the file of its variables.       *)
OVMF_CODE == <<"OVMF_CODE_4M.fd">>

OVMF_VARS == "OVMF_VARS.fd"

FirmwareArgs(config) ==
    IF config.firmware # "uefi" THEN <<>>
    ELSE << Opens({}, OVMF_CODE),
            Opens({}, InStateDir(config, OVMF_VARS)) >>

DiskArgs(config) ==
    << Opens({"disk0.file"}, config.disk),
       [Declares({"disk0"}) EXCEPT !.uses = {"disk0.file"}],
       [Uses({"disk0"}) EXCEPT !.boot = {1}] >>

CdArgs(iso, id, bus, boot) ==
    IF iso = {} THEN <<>>
    ELSE << [Declares({id}) EXCEPT !.opens = iso],
            [Uses({id, bus}) EXCEPT !.boot = boot] >>

NetworkArgs(config) == << Declares({"net0"}), Uses({"net0"}) >>

(* The tablet needs a USB bus and q35 has none of its own.                 *)
PointerArgsWithoutBus == << Uses({"xhci0.0"}) >>

PointerArgs == << Declares({"xhci0.0"}), Uses({"xhci0.0"}) >>

(* The viewer's server, and the sound that must stay beside it.            *)
ViewerArgs(config) ==
    << Opens({"spice"}, SpiceSocket(config)),
       [Declares({"snd0"}) EXCEPT !.uses = {"spice"}],
       Declares({"hda"}),
       Uses({"snd0", "hda"}) >>

ControlArgs(config) ==
    << Opens({"serial0"}, InStateDir(config, "serial.log")),
       Opens({"qmp"}, InStateDir(config, "qmp.sock")) >>

QemuArgs(config) ==
    MachineArgs \o FirmwareArgs(config) \o DiskArgs(config)
        \o CdArgs(config.install_iso, "cd0", "ide.0", {2})
        \o CdArgs(config.driver_iso, "cd1", "ide.1", {})
        \o NetworkArgs(config) \o PointerArgs
        \o ViewerArgs(config) \o ControlArgs(config)

-----------------------------------------------------------------------------
(* The reference: what QEMU refuses, by the measurements the comments of   *)
(* vm.rs record.  A name is declared once and before its use, a drive, a   *)
(* network or a port has one user, and no two devices share a boot place.  *)

Resolves(args) ==
    /\ \A i \in DOMAIN args : \A id \in args[i].uses :
         \E j \in 1..(i - 1) : id \in args[j].declares
    /\ \A i, j \in DOMAIN args :
         i # j => /\ args[i].declares \cap args[j].declares = {}
                  /\ args[i].uses \cap args[j].uses = {}
                  /\ args[i].boot \cap args[j].boot = {}

FilesOpened(args) == UNION {args[i].opens : i \in DOMAIN args}

(* Nothing that is opened lies in a directory that may be missing.         *)
DirectoriesExist(config, dirs) ==
    \A file \in FilesOpened(QemuArgs(config)) :
        \/ Directory(file) \in dirs
        \/ file \in {OVMF_CODE} \cup config.install_iso
                        \cup config.driver_iso

=============================================================================
