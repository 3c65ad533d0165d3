-------------------------- MODULE MCBrowserFileSink --------------------------
(* A recording to disk with its deadline, one to memory without, and one to  *)
(* disk without, whose writer is given all the time it wants.                *)
EXTENDS BrowserFileSink

ToDisk == [mode |-> "fsaccess", patient |-> FALSE]
ToMemory == [mode |-> "download", patient |-> TRUE]
ToDiskPatiently == [mode |-> "fsaccess", patient |-> TRUE]

DiskOrMemory == {ToDisk, ToMemory}
PatientDisk == {ToDiskPatiently}
=============================================================================
