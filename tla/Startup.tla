-------------------------------- MODULE Startup --------------------------------
(***************************************************************************)
(* Starts, stops and crashes of the program (user/main.c) and the thruster *)
(* configuration file that survives them.  A start checks the frame factor *)
(* table, loads the thruster file or, where there is none, writes a        *)
(* default one and gives up, and then starts the JSON-RPC server.          *)
(* The file is a text; what it stands for and what the default is written  *)
(* as are constant operators, which ThrusterConfig models from the code.   *)
(* The power may go between any two of the system calls.  The user edits   *)
(* the thruster file while no start is under way, and the program runs     *)
(* once at a time.                                                         *)
(***************************************************************************)
EXTENDS Integers, Sequences

CONSTANTS
    Absent,              \* no file, or a NULL char *
    Unset,               \* a NULL thruster_params_t *
    Params,              \* what a thruster_params_t may hold
    Default,             \* the default parameters
    NoneFails,           \* no allocation fails
    \* thruster_read_from_file and the first half of thruster_write_to_file:
    \* what they make of a text and of the default when the k-th allocation fails
    ReadThrusters(_, _),
    DefaultText(_),
    UserFiles,       \* what a user may put into the file, and what it stands for
    MaxAllocations,  \* bound: which allocation of a conversion can fail
    MaxCrashes,      \* bound: power losses
    MaxFailures,     \* bound: allocations, writes and binds that fail
    MaxEdits         \* bound: edits by the user

ASSUME BoundsAssumption ==
    MaxCrashes \in Nat /\ MaxFailures \in Nat /\ MaxEdits \in Nat

ASSUME UserFilesAssumption == \A file \in UserFiles : file.text # Absent

VARIABLES
    frame_factor,      \* is there a frame factor file?
    thruster,          \* the text in the thruster file, Absent if there is none
    pc,                \* where main is
    json_file_error, thruster_config,       \* init's locals
    str, ret,          \* thruster_write_to_file's locals
    listening,         \* the server's socket is open
    author,            \* history: who wrote the thruster file last
    meant,             \* history: the parameters it stands for, if that is known
    starved,           \* history: an allocation failed in this start
    crashes, failures, edits

files == <<frame_factor, thruster, author, meant>>
locals == <<json_file_error, thruster_config, str, ret, listening, starved>>
counts == <<crashes, failures, edits>>
vars == <<frame_factor, thruster, pc, json_file_error, thruster_config, str, ret,
          listening, author, meant, starved, crashes, failures, edits>>

Unknown == [known |-> FALSE, params |-> Unset]
Known(params) == [known |-> TRUE, params |-> params]

Starting == {"frame_factor", "thruster", "convert", "open", "write", "rpc"}

\* Which allocation of a conversion fails, if any.
FailAt == {NoneFails} \union IF failures < MaxFailures THEN 0..(MaxAllocations - 1) ELSE {}
Starve(failed) ==
    /\ starved' = (starved \/ failed)
    /\ failures' = IF failed THEN failures + 1 ELSE failures

Init ==
    /\ frame_factor \in BOOLEAN
    /\ thruster = Absent /\ author = "nobody" /\ meant = Known(Unset)
    /\ pc = "off"
    /\ json_file_error = FALSE /\ thruster_config = Unset
    /\ str = Absent /\ ret = "none"
    /\ listening = FALSE /\ starved = FALSE
    /\ crashes = 0 /\ failures = 0 /\ edits = 0

-----------------------------------------------------------------------------
(* The program.                                                            *)

Start ==
    /\ pc = "off"
    /\ pc' = "frame_factor"
    /\ json_file_error' = FALSE
    /\ thruster_config' = Unset
    /\ str' = Absent /\ ret' = "none"
    /\ starved' = FALSE
    /\ UNCHANGED <<files, listening, counts>>

\* return 1, or exit: nothing of the process is left.
Exit ==
    /\ pc' = "off"
    /\ listening' = FALSE
    /\ UNCHANGED <<json_file_error, thruster_config, str, ret>>

frame_factor_check_file_exist ==
    /\ pc = "frame_factor"
    /\ \/ frame_factor /\ pc' = "thruster" /\ UNCHANGED locals
       \/ ~frame_factor /\ Exit /\ UNCHANGED starved
    /\ UNCHANGED <<files, counts>>

\* What follows the json config in init.
AfterJson == IF json_file_error THEN "off" ELSE "rpc"

FileMissingUnchecked == TRUE
FileMissingOrDefault == thruster = Absent \/ meant = Known(Default)
FileMissing == thruster = Absent

ErrorForgotten == UNCHANGED json_file_error
NoteError == json_file_error' = TRUE

\* What init does with what was read.
ReadBy(read) ==
    \/ /\ ~read.crash
       /\ thruster_config' = read.params
       /\ pc' = AfterJson
       /\ Starve(read.starved)
       /\ UNCHANGED <<json_file_error, str, ret, listening>>
    \/ /\ read.crash
       /\ Exit
       /\ starved' = TRUE
       /\ failures' = failures + 1

thruster_check_file_exist ==
    /\ pc = "thruster"
    /\ \/ /\ FileMissing
          /\ NoteError
          /\ pc' = "convert"
          /\ UNCHANGED <<thruster_config, str, ret, listening, starved, failures>>
       \/ /\ ~FileMissing
          /\ \E k \in FailAt : ReadBy(ReadThrusters(k, thruster))
    /\ UNCHANGED <<files, crashes, edits>>

\* The default as a struct, a document and a text.
Converted(out) ==
    /\ str' = out.text
    /\ ret' = IF out.text = Absent THEN "FAIL" ELSE ret
    /\ pc' = IF out.text = Absent THEN AfterJson ELSE "open"
    /\ Starve(out.starved)

thruster_write_to_file ==
    /\ pc = "convert"
    /\ \E k \in FailAt : Converted(DefaultText(k))
    /\ UNCHANGED <<files, json_file_error, thruster_config, listening, crashes, edits>>

OpenFile ==
    /\ pc = "open"
    /\ \/ /\ thruster' = << >>                   \* fopen(file_path, "w")
          /\ author' = "program"
          /\ meant' = Known(Unset)
          /\ pc' = "write"
          /\ UNCHANGED <<ret, failures>>
       \/ /\ failures < MaxFailures
          /\ failures' = failures + 1
          /\ ret' = "FAIL"
          /\ pc' = AfterJson
          /\ UNCHANGED <<thruster, author, meant>>
    /\ UNCHANGED <<frame_factor, json_file_error, thruster_config, str, listening,
                   starved, crashes, edits>>

\* fprintf and fclose: a full disk leaves a part of the text, and neither is
\* reported.
WriteFile ==
    /\ pc = "write"
    /\ \/ /\ thruster' = str
          /\ meant' = IF starved THEN Unknown ELSE Known(Default)
          /\ UNCHANGED failures
       \/ /\ failures < MaxFailures
          /\ failures' = failures + 1
          /\ \E n \in 0..(Len(str) - 1) : thruster' = SubSeq(str, 1, n)
          /\ meant' = Known(Unset)
    /\ ret' = "SUCCESS"
    /\ pc' = AfterJson
    /\ UNCHANGED <<frame_factor, author, json_file_error, thruster_config, str,
                   listening, starved, crashes, edits>>

navi_jrpc_server_start ==
    /\ pc = "rpc"
    /\ \/ /\ pc' = "loop"
          /\ listening' = TRUE
          /\ UNCHANGED <<json_file_error, thruster_config, str, ret, failures>>
       \/ /\ failures < MaxFailures               \* the port is taken
          /\ failures' = failures + 1
          /\ Exit
    /\ UNCHANGED <<files, starved, crashes, edits>>

\* sigint_cb, from the event loop.
sigint_cb ==
    /\ pc = "loop"
    /\ Exit
    /\ UNCHANGED <<files, starved, counts>>

-----------------------------------------------------------------------------
(* The user and the power (external).                                      *)

\* The power goes, or a signal comes that nothing catches (SIGINT before the
\* loop is set up).
PowerLoss ==
    /\ pc # "off"
    /\ crashes < MaxCrashes
    /\ crashes' = crashes + 1
    /\ Exit
    /\ UNCHANGED <<files, starved, failures, edits>>

EditThruster ==
    /\ pc \in {"off", "loop"}
    /\ edits < MaxEdits
    /\ edits' = edits + 1
    /\ \/ \E file \in UserFiles :
              thruster' = file.text /\ meant' = Known(file.params) /\ author' = "user"
       \/ thruster' = Absent /\ meant' = Known(Unset) /\ author' = "nobody"
    /\ UNCHANGED <<frame_factor, pc, locals, crashes, failures>>

MakeFrameFactor ==
    /\ ~frame_factor
    /\ frame_factor' = TRUE
    /\ UNCHANGED <<thruster, author, meant, pc, locals, counts>>

-----------------------------------------------------------------------------
init ==
    \/ frame_factor_check_file_exist \/ thruster_check_file_exist
    \/ thruster_write_to_file \/ OpenFile \/ WriteFile \/ navi_jrpc_server_start

Next == Start \/ init \/ sigint_cb \/ PowerLoss \/ EditThruster \/ MakeFrameFactor

Spec == Init /\ [][Next]_vars

\* A start runs on by itself, every step of it to another place; the user makes
\* the missing table and starts the program as long as it is not running.
RunsOn == pc \in Starting /\ pc' \in (Starting \union {"off", "loop"}) \ {pc}
FairSpec == Spec /\ WF_pc(RunsOn) /\ WF_vars(Start) /\ WF_vars(MakeFrameFactor)

-----------------------------------------------------------------------------
TypeOK ==
    /\ frame_factor \in BOOLEAN
    /\ pc \in Starting \union {"off", "loop"}
    /\ json_file_error \in BOOLEAN
    /\ thruster_config \in Params \union {Unset}
    /\ ret \in {"none", "SUCCESS", "FAIL"}
    /\ listening \in BOOLEAN /\ starved \in BOOLEAN
    /\ author \in {"nobody", "program", "user"}
    /\ meant.known \in BOOLEAN
    /\ crashes \in 0..MaxCrashes /\ failures \in 0..MaxFailures /\ edits \in 0..MaxEdits

\* main.c:39-48: whatever failed before, a start never writes over a thruster
\* file that a user wrote.
UserFileKept == [][author' = "program" => author # "user"]_vars

\* main.c:38-60: a start that had to write the thruster file, or tried to, ends
\* before the server: only what a user has had a chance to see is served.
WriterNeverServes == pc \in {"rpc", "loop"} => ret = "none"

\* main.c:23-84: once the frame factor table is there, the program reaches
\* its loop after finitely many failed starts, the first run included.
ServesInTheEnd == <>(pc = "loop")

\* json_thruster.c:96-209: a start runs with the parameters the thruster file
\* stands for, those the program wrote or a user did, whatever the layout, the
\* order or the case of its names; it never takes a part of a text for a
\* configuration.  Out of this are an allocation that fails while the file is
\* read, and a file whose text was made while one failed: members are missing
\* from it, and count as zero.
ConfigSurvives == pc = "rpc" /\ ~starved /\ meant.known => thruster_config = meant.params
=============================================================================
