---------------------------- MODULE WatchFolder ----------------------------
(***************************************************************************)
(* /watch and the protocol by which a .torrent gets into it:               *)
(* _write_watch_file writes a hidden .part file and renames it, while      *)
(* transmission-daemon takes whatever stands under a *.torrent name,       *)
(* whole or not, and renames it.  Every file operation is a step that may  *)
(* fail; the process may be killed between any two.                        *)
(***************************************************************************)
CONSTANTS Release

VARIABLES
    part,    \* .<name>.torrent.part
    torrent, \* <name>.torrent
    loaded,  \* <name>.torrent.added
    writing  \* where _write_watch_file is

folderVars == <<part, torrent, loaded>>
watchVars  == <<folderVars, writing>>

(* What a file holds.                                                      *)
File == {"absent", "partial", "whole"}

WatchTypeOK ==
    /\ part \in [Release -> File]
    /\ torrent \in [Release -> File]
    /\ loaded \in [Release -> File]
    /\ writing \in {"idle", "open", "write", "replace", "tidy", "saved", "failed"}

WatchInit ==
    /\ part = [r \in Release |-> "absent"]
    /\ torrent = [r \in Release |-> "absent"]
    /\ loaded = [r \in Release |-> "absent"]
    /\ writing = "idle"

-----------------------------------------------------------------------------
(* open(tmp_path, "wb"): what an earlier run left there is cut to nothing. *)
OpenPart(r) ==
    /\ writing = "open"
    /\ part' = [part EXCEPT ![r] = "partial"]
    /\ writing' = "write"
    /\ UNCHANGED <<torrent, loaded>>

WritePart(r) ==
    /\ writing = "write"
    /\ part' = [part EXCEPT ![r] = "whole"]
    /\ writing' = "replace"
    /\ UNCHANGED <<torrent, loaded>>

(* Mutant: os.replace as soon as the file is open.                         *)
ReplaceEarly(r) ==
    /\ writing \in {"write", "replace"}
    /\ torrent' = [torrent EXCEPT ![r] = part[r]]
    /\ part' = [part EXCEPT ![r] = "absent"]
    /\ writing' = "saved"
    /\ UNCHANGED loaded

(* os.replace(tmp_path, dest)                                              *)
Replace(r) ==
    /\ writing = "replace"
    /\ torrent' = [torrent EXCEPT ![r] = part[r]]
    /\ part' = [part EXCEPT ![r] = "absent"]
    /\ writing' = "saved"
    /\ UNCHANGED loaded

(* Any of the three raises.                                                *)
WriteFails ==
    /\ writing \in {"open", "write", "replace"}
    /\ writing' = "tidy"
    /\ UNCHANGED folderVars

(* os.remove(tmp_path), whose own failure is passed over.                  *)
TidyPart(r) ==
    /\ writing = "tidy"
    /\ part' = [part EXCEPT ![r] = "absent"] \/ UNCHANGED part
    /\ writing' = "failed"
    /\ UNCHANGED <<torrent, loaded>>

WriteStep(r) ==
    OpenPart(r) \/ WritePart(r) \/ Replace(r) \/ WriteFails \/ TidyPart(r)

-----------------------------------------------------------------------------
(* transmission-daemon loads a *.torrent and renames it.                   *)
LoadWatchFile(r) ==
    /\ torrent[r] # "absent"
    /\ loaded' = [loaded EXCEPT ![r] = torrent[r]]
    /\ torrent' = [torrent EXCEPT ![r] = "absent"]
    /\ UNCHANGED <<part, writing>>

(* Cleanup removes the torrent and its file (module Cleanup has the steps).*)
RemoveLoaded(r) ==
    /\ loaded[r] # "absent"
    /\ loaded' = [loaded EXCEPT ![r] = "absent"]
    /\ UNCHANGED <<part, torrent, writing>>

-----------------------------------------------------------------------------
(* "a write that dies part-way must never leave a partial file under       *)
(* dest's name": nothing the daemon looks at, or has loaded, is ever       *)
(* incomplete.                                                             *)
NoPartialFile ==
    \A r \in Release : torrent[r] # "partial" /\ loaded[r] # "partial"
=============================================================================
