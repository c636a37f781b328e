------------------------------- MODULE SysfsDemo -------------------------------
(***************************************************************************)
(* src/kernel-module/sysfs/demo_sysfs.c and demo_reader.c: the module puts *)
(* a device with three files under a root device, the reader opens and     *)
(* reads the files one after the other and compares what it got with the   *)
(* template.                                                               *)
(*                                                                         *)
(* Actors: the task that runs insmod or rmmod, and the readers, which may  *)
(* come at any moment, also while the files appear or disappear.  The      *)
(* driver core is external: device_add creates the files of the group in   *)
(* order, device_del removes them in order; removing a file breaks it for  *)
(* everyone who has it open and waits for the shows that run.              *)
(***************************************************************************)
EXTENDS Integers, FiniteSets, FiniteSetsExt

CONSTANT Readers   \* the processes that run demo_reader

\* root_attrs (magic, version) and root_bin_attrs (data), in the order of the group.
DeviceFiles == 1 .. 3
DataFile == 3

VARIABLES
  dmod,      \* the module: unloaded, the next statement of init or exit, or live
  root_dev,  \* is the root device registered?
  entity,    \* entity_dev: none, zeroed or filled
  private,   \* bin_attr_data.private: does it point to the entity?
  name,      \* the name of the last device: none, held, or lost with its device
  visible,   \* the files that can be opened
  rpc,       \* per reader: where it is in main, or how it ended
  rfile,     \* per reader: the file it opens, reads or shows
  rnode      \* per reader: is the file it has open still there (live or stale)?

deviceVars == <<root_dev, entity, private, name, visible>>
readerVars == <<rpc, rfile, rnode>>
sysfsVars == <<dmod, deviceVars, readerVars>>

Verdicts == {"failed", "matched", "unmatched"}

DeviceInit ==
  /\ dmod = "unloaded"
  /\ root_dev = FALSE
  /\ entity = "none" /\ private = FALSE /\ name = "none"
  /\ visible = {}
  /\ rpc = [r \in Readers |-> "idle"]
  /\ rfile = [r \in Readers |-> 1]
  /\ rnode = [r \in Readers |-> "none"]

-------------------------------------------------------------------------------
(* demo_sysfs_init                                                         *)

\* A freshly loaded module: bin_attr_data.private is NULL.
DeviceInsmod ==
  /\ dmod = "unloaded"
  /\ dmod' = "root_device_register"
  /\ private' = FALSE
  /\ UNCHANGED <<root_dev, entity, name, visible, readerVars>>

\* root_device_register; when it fails init returns -EPERM.
RootRegister ==
  /\ dmod = "root_device_register"
  /\ \/ root_dev' = TRUE /\ dmod' = "kzalloc"
     \/ UNCHANGED root_dev /\ dmod' = "unloaded"
  /\ UNCHANGED <<entity, private, name, visible, readerVars>>

\* kzalloc, or -ENOMEM
EntityAlloc ==
  /\ dmod = "kzalloc"
  /\ \/ entity' = "zeroed" /\ dmod' = "fill"
     \/ UNCHANGED entity /\ dmod' = "init_fails"
  /\ UNCHANGED <<root_dev, private, name, visible, readerVars>>

\* Mutant: the data pointer is forgotten.
NoBinAttr == UNCHANGED private

\* init_bin_attr_data
init_bin_attr_data == private' = TRUE

\* memcpy of the template, the binary attribute, and the fields of the device: all
\* before anyone can see a file.
EntityFill ==
  /\ dmod = "fill"
  /\ entity' = "filled"
  /\ init_bin_attr_data
  /\ dmod' = "dev_set_name"
  /\ UNCHANGED <<root_dev, name, visible, readerVars>>

\* dev_set_name; when it fails the entity is freed.
SetName ==
  /\ dmod = "dev_set_name"
  /\ \/ name' = "held" /\ dmod' = "device_add" /\ UNCHANGED entity
     \/ name' = "none" /\ dmod' = "init_fails" /\ entity' = "none"
  /\ UNCHANGED <<root_dev, private, visible, readerVars>>

\* device_add makes the next file visible ...
AddFile ==
  /\ dmod = "device_add"
  /\ visible # DeviceFiles
  /\ visible' = visible \cup {Min(DeviceFiles \ visible)}
  /\ UNCHANGED <<dmod, root_dev, entity, private, name, readerVars>>

\* ... and returns when all are; insmod is done.
AddReturns ==
  /\ dmod = "device_add"
  /\ visible = DeviceFiles
  /\ dmod' = "live"
  /\ UNCHANGED <<deviceVars, readerVars>>

\* device_add fails at any point, also after the files; it takes back what it made.
AddFails ==
  /\ dmod = "device_add"
  /\ dmod' = "undo"
  /\ UNCHANGED <<deviceVars, readerVars>>

\* No show of a file that is no longer visible is running.
Drained == \A r \in Readers : rpc[r] = "show" => rfile[r] \in visible

\* device_add, failing, or device_del removes the next file: whoever has it open holds a
\* stale file from now on.
RemoveFile ==
  /\ dmod \in {"undo", "device_del"}
  /\ Drained /\ visible # {}
  /\ visible' = visible \ {Min(visible)}
  /\ rnode' = [r \in Readers |->
                 IF rnode[r] = "live" /\ rfile[r] = Min(visible) THEN "stale" ELSE rnode[r]]
  /\ UNCHANGED <<dmod, root_dev, entity, private, name, rpc, rfile>>

\* The error path of create_and_online_entity_device: kfree without put_device, so that
\* nobody frees the name.
AddFailedFree ==
  /\ dmod = "undo"
  /\ Drained /\ visible = {}
  /\ entity' = "none"
  /\ name' = "lost"
  /\ dmod' = "init_fails"
  /\ UNCHANGED <<root_dev, private, visible, readerVars>>

\* Mutant: init returns without root_device_unregister.
RootForgotten ==
  /\ dmod = "init_fails"
  /\ dmod' = "unloaded"
  /\ UNCHANGED <<deviceVars, readerVars>>

\* create_and_online_entity_device failed: root_device_unregister, init returns the error.
InitUndo ==
  /\ dmod = "init_fails"
  /\ root_dev' = FALSE
  /\ dmod' = "unloaded"
  /\ UNCHANGED <<entity, private, name, visible, readerVars>>

-------------------------------------------------------------------------------
(* demo_sysfs_exit                                                         *)

\* Mutant: put_device, and with it kfree, before device_del.
PutsFirst ==
  /\ dmod = "live"
  /\ dmod' = "device_del"
  /\ entity' = "none"
  /\ UNCHANGED <<root_dev, private, name, visible, readerVars>>

\* rmmod: no file of the module holds a reference on it.
DeviceRmmod ==
  /\ dmod = "live"
  /\ dmod' = "device_del"
  /\ UNCHANGED <<deviceVars, readerVars>>

\* put_device drops the last reference: release_entity_device frees the entity, the
\* driver core the name.
PutDevice ==
  /\ dmod = "device_del"
  /\ Drained /\ visible = {}
  /\ entity' = "none"
  /\ name' = "none"
  /\ dmod' = "root_device_unregister"
  /\ UNCHANGED <<root_dev, private, visible, readerVars>>

RootUnregister ==
  /\ dmod = "root_device_unregister"
  /\ root_dev' = FALSE
  /\ dmod' = "unloaded"
  /\ UNCHANGED <<entity, private, name, visible, readerVars>>

-------------------------------------------------------------------------------
(* demo_reader                                                             *)

ReaderGoto(r, to) == rpc' = [rpc EXCEPT ![r] = to]

\* main; the process may be started again.
ReaderStart(r) ==
  /\ rpc[r] \in {"idle"} \cup Verdicts
  /\ ReaderGoto(r, "open")
  /\ rfile' = [rfile EXCEPT ![r] = 1]
  /\ UNCHANGED <<dmod, deviceVars, rnode>>

\* A failed text file ends the reader; read_entity ignores the result of
\* read_entity_binary, and the comparison finds a difference.
ReadFailed(r) == ReaderGoto(r, IF rfile[r] = DataFile THEN "unmatched" ELSE "failed")

\* fopen, open
ReaderOpen(r) ==
  /\ rpc[r] = "open"
  /\ IF rfile[r] \in visible
     THEN rnode' = [rnode EXCEPT ![r] = "live"] /\ ReaderGoto(r, "read")
     ELSE ReadFailed(r) /\ UNCHANGED rnode
  /\ UNCHANGED <<dmod, deviceVars, rfile>>

\* fscanf, read: the kernel calls the show of a file that is still there, and answers
\* -ENODEV for a stale one, also when a file of the same name has been made since.
ReaderRead(r) ==
  /\ rpc[r] = "read"
  /\ IF rnode[r] = "live"
     THEN ReaderGoto(r, "show") /\ UNCHANGED rnode
     ELSE ReadFailed(r) /\ rnode' = [rnode EXCEPT ![r] = "none"]
  /\ UNCHANGED <<dmod, deviceVars, rfile>>

\* magic_show, version_show and data_read deliver a field of the entity, the reader
\* closes the file and goes on with the next.
ReaderShown(r) ==
  /\ rpc[r] = "show"
  /\ rnode' = [rnode EXCEPT ![r] = "none"]
  /\ IF rfile[r] = DataFile
     THEN ReaderGoto(r, "matched") /\ UNCHANGED rfile
     ELSE ReaderGoto(r, "open") /\ rfile' = [rfile EXCEPT ![r] = @ + 1]
  /\ UNCHANGED <<dmod, deviceVars>>

-------------------------------------------------------------------------------
LoaderTask == \/ RootRegister \/ EntityAlloc \/ EntityFill \/ SetName
              \/ AddFile \/ AddReturns \/ AddFails \/ RemoveFile \/ AddFailedFree
              \/ InitUndo \/ PutDevice \/ RootUnregister

Reader(r) == ReaderOpen(r) \/ ReaderRead(r) \/ ReaderShown(r)

DeviceNext == \/ DeviceInsmod \/ DeviceRmmod
              \/ LoaderTask
              \/ \E r \in Readers : ReaderStart(r) \/ Reader(r)

\* insmod, rmmod and a reader that was started run on; nobody has to start one.
DeviceFairness == WF_sysfsVars(LoaderTask) /\ \A r \in Readers : WF_sysfsVars(Reader(r))

DeviceSpec == DeviceInit /\ [][DeviceNext]_sysfsVars /\ DeviceFairness

-------------------------------------------------------------------------------
(* Properties.                                                             *)

DeviceTypeOK ==
  /\ dmod \in {"unloaded", "root_device_register", "kzalloc", "fill", "dev_set_name",
               "device_add", "undo", "init_fails", "live", "device_del",
               "root_device_unregister"}
  /\ root_dev \in BOOLEAN
  /\ entity \in {"none", "zeroed", "filled"}
  /\ private \in BOOLEAN
  /\ name \in {"none", "held", "lost"}
  /\ visible \subseteq DeviceFiles
  /\ rpc \in [Readers -> {"idle", "open", "read", "show"} \cup Verdicts]
  /\ rfile \in [Readers -> DeviceFiles]
  /\ rnode \in [Readers -> {"none", "live", "stale"}]

\* A show finds the entity it reads from, with the template copied into it, and the data
\* pointer set "before the sysfs file is made online": whatever part of device_add,
\* its failure, device_del or another insmod the reader runs into.
ShowSeesEntity ==
  \A r \in Readers :
    rpc[r] = "show" => /\ entity = "filled"
                       /\ rfile[r] = DataFile => private

\* Every insmod, however it fails, ends with the device online or with nothing of it
\* left, and rmmod, which waits for the readers it meets, ends with nothing left: no
\* root device, no file, no entity.  A failed device_add alone loses the name.
NothingOfDeviceLeft ==
  LET nothing == ~root_dev /\ entity = "none" /\ visible = {} /\ name # "held"
  IN  /\ dmod = "root_device_register" ~> dmod = "live" \/ (dmod = "unloaded" /\ nothing)
      /\ dmod = "device_del" ~> (dmod = "unloaded" /\ nothing)
===============================================================================
