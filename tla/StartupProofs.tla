------------------------------ MODULE StartupProofs ------------------------------
(***************************************************************************)
(* The starts of Startup, for any user files, any bounds and any           *)
(* conversion between parameters and text.  Where a theorem needs          *)
(* something of the conversions it says so in its hypothesis, which speaks *)
(* of the contents that the thruster file can have and of no other text.   *)
(***************************************************************************)
EXTENDS Startup, TLAPS

Allocations == {NoneFails} \union 0..(MaxAllocations - 1)

\* The texts of the default, the parts of them that a full disk leaves, and
\* all that can be in the thruster file.
DefaultTexts == {DefaultText(k).text : k \in Allocations} \ {Absent}
Parts(text) == {SubSeq(text, 1, n) : n \in 0..(Len(text) - 1)}
Contents == {<< >>} \union {file.text : file \in UserFiles} \union DefaultTexts
                    \union UNION {Parts(text) : text \in DefaultTexts}

\* Conversions have results of the right type, and fail only if an allocation does.
OutcomesTyped ==
    /\ \A k \in Allocations, text \in Contents :
          /\ ReadThrusters(k, text).params \in Params \union {Unset}
          /\ ReadThrusters(k, text).crash \in BOOLEAN
          /\ ReadThrusters(k, text).starved \in BOOLEAN
    /\ \A text \in Contents :
          ~ ReadThrusters(NoneFails, text).crash /\ ~ ReadThrusters(NoneFails, text).starved
    /\ \A k \in Allocations : DefaultText(k).starved \in BOOLEAN
    /\ ~ DefaultText(NoneFails).starved

\* The text is read as these parameters, whatever allocation might have failed
\* and did not.
ReadsAs(text, params) ==
    \A k \in Allocations :
        ~ ReadThrusters(k, text).crash /\ ~ ReadThrusters(k, text).starved
            => ReadThrusters(k, text).params = params

\* Users and the program are understood: no part of a text passes for one.
ReadsBack ==
    /\ ReadsAs(<< >>, Unset)
    /\ \A file \in UserFiles : ReadsAs(file.text, file.params)
    /\ \A k \in Allocations :
          DefaultText(k).text # Absent /\ ~ DefaultText(k).starved
              => ReadsAs(DefaultText(k).text, Default)
    /\ \A text \in DefaultTexts : \A part \in Parts(text) : ReadsAs(part, Unset)

-----------------------------------------------------------------------------
(* What holds whatever the conversions do.                                 *)

\* A start that writes the file knows that it will give up.
GivesUp ==
    /\ pc \in {"frame_factor", "thruster", "rpc", "loop"} => ~ json_file_error /\ ret = "none"
    /\ pc \in {"convert", "open", "write"} => json_file_error

\* It writes where nothing was.
WritesNew ==
    /\ pc \in {"convert", "open"} => thruster = Absent
    /\ pc = "write" => author = "program"
    /\ thruster = Absent => author # "user"

Places == pc \in Starting \union {"off", "loop"}

FileInv == Places /\ GivesUp /\ WritesNew

LEMMA InitFileInv == ASSUME Init PROVE FileInv
BY DEF Init, FileInv, Places, GivesUp, WritesNew, Starting

LEMMA StepKeepsFileInv == ASSUME FileInv, [Next]_vars PROVE FileInv'
<1> USE DEF FileInv, Places, GivesUp, WritesNew, Starting, Exit, files, locals, counts, AfterJson
<1>1. CASE Start
  BY <1>1 DEF Start
<1>2. CASE frame_factor_check_file_exist
  BY <1>2 DEF frame_factor_check_file_exist
<1>3. CASE thruster_check_file_exist
  BY <1>3 DEF thruster_check_file_exist, FileMissing, NoteError, ReadBy
<1>4. CASE thruster_write_to_file
  BY <1>4 DEF thruster_write_to_file, Converted
<1>5. CASE OpenFile
  BY <1>5 DEF OpenFile
<1>6. CASE WriteFile
  BY <1>6 DEF WriteFile
<1>7. CASE navi_jrpc_server_start
  BY <1>7 DEF navi_jrpc_server_start
<1>8. CASE sigint_cb
  BY <1>8 DEF sigint_cb
<1>9. CASE PowerLoss
  BY <1>9 DEF PowerLoss
<1>10. CASE EditThruster
  BY <1>10, UserFilesAssumption DEF EditThruster
<1>11. CASE MakeFrameFactor
  BY <1>11 DEF MakeFrameFactor
<1>12. CASE UNCHANGED vars
  BY <1>12 DEF vars
<1>13. QED
  BY <1>1, <1>2, <1>3, <1>4, <1>5, <1>6, <1>7, <1>8, <1>9, <1>10, <1>11, <1>12 DEF Next, init

\* main.c:38-60: a start that had to write the thruster file, or tried to,
\* ends before the server.
THEOREM WriterStops == Spec => []WriterNeverServes
<1>1. FileInv => WriterNeverServes
  BY DEF FileInv, GivesUp, WriterNeverServes
<1>2. QED BY <1>1, InitFileInv, StepKeepsFileInv, PTL DEF Spec

\* main.c:39-48: whatever failed before, a start never writes over a thruster
\* file that a user wrote.
THEOREM UserFileSafe == Spec => UserFileKept
<1>1. ASSUME FileInv, [Next]_vars, author' = "program" PROVE author # "user"
  <2>1. CASE OpenFile
    BY <1>1, <2>1 DEF OpenFile, FileInv, WritesNew
  <2>2. CASE EditThruster
    BY <1>1, <2>2 DEF EditThruster
  <2>3. CASE ~ OpenFile /\ ~ EditThruster
    <3>1. author' = author
      BY <1>1, <2>3 DEF Next, init, vars, Start, frame_factor_check_file_exist,
            thruster_check_file_exist, thruster_write_to_file, WriteFile, navi_jrpc_server_start,
            sigint_cb, PowerLoss, MakeFrameFactor, files
    <3>2. QED BY <1>1, <3>1
  <2>4. QED BY <2>1, <2>2, <2>3
<1>2. FileInv /\ [Next]_vars => [author' = "program" => author # "user"]_vars
  BY <1>1
<1>3. QED BY <1>2, InitFileInv, StepKeepsFileInv, PTL DEF Spec, UserFileKept

-----------------------------------------------------------------------------
(* What holds if the conversions read what they write.                     *)

\* The text that waits to be written is one of the default.
TextInv ==
    pc \in {"open", "write"} =>
        \E k \in Allocations : /\ str = DefaultText(k).text /\ str # Absent
                               /\ ~ starved => ~ DefaultText(k).starved

\* What the file stands for, if it is known.
MeantInv == thruster # Absent /\ meant.known => ReadsAs(thruster, meant.params)

\* What was read in this start.
ReadInv == pc = "rpc" /\ ~ starved /\ meant.known => thruster_config = meant.params

ConfigInv == TextInv /\ MeantInv /\ ReadInv

LEMMA FailAtAllocations == FailAt \subseteq Allocations
BY DEF FailAt, Allocations

LEMMA StepKeepsConfigInv == ASSUME ReadsBack, FileInv, ConfigInv, [Next]_vars PROVE ConfigInv'
<1>1. CASE Start
  BY <1>1 DEF Start, ConfigInv, TextInv, MeantInv, ReadInv, files
<1>2. CASE frame_factor_check_file_exist
  BY <1>2 DEF frame_factor_check_file_exist, Exit, ConfigInv, TextInv, MeantInv, ReadInv, files
<1>3. CASE thruster_check_file_exist
  <2>1. pc = "thruster" /\ ~ json_file_error /\ UNCHANGED <<thruster, meant>>
    BY <1>3 DEF thruster_check_file_exist, files, FileInv, GivesUp
  <2>2. MeantInv'
    BY <2>1 DEF ConfigInv, MeantInv
  <2>3. CASE pc' # "rpc"
    <3>1. pc' \notin {"open", "write", "rpc"}
      BY <1>3, <2>1, <2>3 DEF thruster_check_file_exist, ReadBy, AfterJson, Exit
    <3>2. QED BY <2>2, <3>1 DEF ConfigInv, TextInv, ReadInv
  <2>4. CASE pc' = "rpc"
    <3>1. PICK k \in FailAt : ReadBy(ReadThrusters(k, thruster)) /\ thruster # Absent
      BY <1>3, <2>4 DEF thruster_check_file_exist, FileMissing
    <3>2. /\ k \in Allocations
          /\ ~ ReadThrusters(k, thruster).crash
          /\ thruster_config' = ReadThrusters(k, thruster).params
          /\ starved' = (starved \/ ReadThrusters(k, thruster).starved)
      BY <2>4, <3>1, FailAtAllocations DEF ReadBy, Starve, Exit
    <3>3. ReadInv'
      BY <2>1, <3>1, <3>2 DEF ConfigInv, MeantInv, ReadsAs, ReadInv
    <3>4. QED BY <2>2, <2>4, <3>3 DEF ConfigInv, TextInv
  <2>5. QED BY <2>3, <2>4
<1>4. CASE thruster_write_to_file
  <2>1. PICK k \in FailAt : Converted(DefaultText(k))
    BY <1>4 DEF thruster_write_to_file
  <2>2. /\ k \in Allocations /\ json_file_error /\ UNCHANGED <<thruster, meant>>
        /\ str' = DefaultText(k).text
        /\ pc' = IF str' = Absent THEN "off" ELSE "open"
        /\ starved' = (starved \/ DefaultText(k).starved)
    BY <1>4, <2>1, FailAtAllocations
       DEF thruster_write_to_file, Converted, Starve, AfterJson, files, FileInv, GivesUp
  <2>3. QED BY <2>2 DEF ConfigInv, TextInv, MeantInv, ReadInv
<1>5. CASE OpenFile
  <2>1. /\ pc = "open" /\ pc' \in {"write", "off"} /\ UNCHANGED <<str, starved>>
        /\ \/ thruster' = << >> /\ meant' = Known(Unset)
           \/ UNCHANGED <<thruster, meant>>
    BY <1>5 DEF OpenFile, AfterJson, FileInv, GivesUp
  <2>2. TextInv' /\ ReadInv'
    BY <2>1 DEF ConfigInv, TextInv, ReadInv
  <2>3. MeantInv'
    <3>1. Known(Unset).params = Unset
      BY DEF Known
    <3>2. QED BY <2>1, <3>1 DEF ConfigInv, MeantInv, ReadsBack, ReadsAs
  <2>4. QED BY <2>2, <2>3 DEF ConfigInv
<1>6. CASE WriteFile
  <2>1. /\ pc = "write" /\ pc' = "off"
        /\ \/ thruster' = str /\ meant' = IF starved THEN Unknown ELSE Known(Default)
           \/ thruster' \in Parts(str) /\ meant' = Known(Unset)
    BY <1>6 DEF WriteFile, AfterJson, FileInv, GivesUp, Parts
  <2>2. PICK k \in Allocations : /\ str = DefaultText(k).text /\ str # Absent
                                 /\ ~ starved => ~ DefaultText(k).starved
    BY <2>1 DEF ConfigInv, TextInv
  <2>3. MeantInv'
    <3>1. CASE thruster' = str /\ meant' = IF starved THEN Unknown ELSE Known(Default)
      <4>1. CASE starved
        BY <3>1, <4>1 DEF Unknown, MeantInv
      <4>2. CASE ~ starved
        <5>1. ReadsAs(str, Default) /\ meant' = Known(Default) /\ Known(Default).params = Default
          BY <2>2, <3>1, <4>2 DEF ReadsBack, Known
        <5>2. QED BY <3>1, <5>1 DEF MeantInv, ReadsAs
      <4>3. QED BY <4>1, <4>2
    <3>2. CASE thruster' \in Parts(str) /\ meant' = Known(Unset)
      <4>1. str \in DefaultTexts
        BY <2>2 DEF DefaultTexts
      <4>2. ReadsAs(thruster', Unset) /\ Known(Unset).params = Unset
        BY <3>2, <4>1 DEF ReadsBack, Known
      <4>3. QED BY <3>2, <4>2 DEF MeantInv, ReadsAs
    <3>3. QED BY <2>1, <3>1, <3>2
  <2>4. QED BY <2>1, <2>3 DEF ConfigInv, TextInv, ReadInv
<1>7. CASE navi_jrpc_server_start
  BY <1>7 DEF navi_jrpc_server_start, Exit, ConfigInv, TextInv, MeantInv, ReadInv, files
<1>8. CASE sigint_cb
  BY <1>8 DEF sigint_cb, Exit, ConfigInv, TextInv, MeantInv, ReadInv, files
<1>9. CASE PowerLoss
  BY <1>9 DEF PowerLoss, Exit, ConfigInv, TextInv, MeantInv, ReadInv, files
<1>10. CASE EditThruster
  <2>1. /\ pc' \in {"off", "loop"}
        /\ \/ \E file \in UserFiles : thruster' = file.text /\ meant' = Known(file.params)
           \/ thruster' = Absent
    BY <1>10 DEF EditThruster
  <2>2. MeantInv'
    <3>1. ASSUME NEW file \in UserFiles, thruster' = file.text, meant' = Known(file.params)
          PROVE  MeantInv'
      <4>1. ReadsAs(file.text, file.params) /\ Known(file.params).params = file.params
        BY DEF ReadsBack, Known
      <4>2. QED BY <3>1, <4>1 DEF MeantInv, ReadsAs
    <3>2. CASE thruster' = Absent
      BY <3>2 DEF MeantInv
    <3>3. QED BY <2>1, <3>1, <3>2
  <2>3. QED BY <2>1, <2>2 DEF ConfigInv, TextInv, ReadInv
<1>11. CASE MakeFrameFactor
  BY <1>11 DEF MakeFrameFactor, ConfigInv, TextInv, MeantInv, ReadInv, locals
<1>12. CASE UNCHANGED vars
  BY <1>12 DEF vars, ConfigInv, TextInv, MeantInv, ReadInv
<1>13. QED
  BY <1>1, <1>2, <1>3, <1>4, <1>5, <1>6, <1>7, <1>8, <1>9, <1>10, <1>11, <1>12 DEF Next, init

\* json_thruster.c:96-209: if the conversions read back what a user or the
\* program writes, and nothing from a part of it, then each start runs with the
\* parameters that the file stands for, through power losses, full disks,
\* failing allocations and edits.
THEOREM ParametersSurvive == ASSUME ReadsBack PROVE Spec => []ConfigSurvives
<1>1. Init => ConfigInv
  BY DEF Init, ConfigInv, TextInv, MeantInv, ReadInv
<1>2. FileInv /\ ConfigInv /\ [Next]_vars => ConfigInv'
  BY StepKeepsConfigInv
<1>3. ConfigInv => ConfigSurvives
  BY DEF ConfigInv, ReadInv, ConfigSurvives
<1>4. QED BY <1>1, <1>2, <1>3, InitFileInv, StepKeepsFileInv, PTL DEF Spec

-----------------------------------------------------------------------------
(* What the variables may hold.                                            *)

ContentInv ==
    /\ thruster \in Contents \union {Absent}
    /\ pc \in {"open", "write"} => str \in DefaultTexts

CountsInBounds ==
    crashes \in 0..MaxCrashes /\ failures \in 0..MaxFailures /\ edits \in 0..MaxEdits

LEMMA KnownOrNot ==
    Unknown.known \in BOOLEAN /\ \A params : Known(params).known \in BOOLEAN
BY DEF Known, Unknown

LEMMA InitTypes == ASSUME Init PROVE TypeOK /\ ContentInv
<1>1. CountsInBounds
  BY BoundsAssumption DEF Init, CountsInBounds
<1>2. thruster \in Contents \union {Absent} /\ pc = "off" /\ meant.known \in BOOLEAN
  BY KnownOrNot DEF Init
<1>3. QED BY <1>1, <1>2 DEF Init, CountsInBounds, TypeOK, ContentInv, Starting

\* A failure is counted only while there may be another.
LEMMA StarveInBounds ==
    ASSUME CountsInBounds, NEW failed \in BOOLEAN, failed => failures < MaxFailures, Starve(failed)
    PROVE  failures' \in 0..MaxFailures
BY BoundsAssumption DEF CountsInBounds, Starve

\* What the conversions that thruster_check_file_exist and
\* thruster_write_to_file call may return.
LEMMA ConversionOutcomes ==
    ASSUME OutcomesTyped, NEW k \in FailAt
    PROVE  /\ \A text \in Contents :
                 /\ ReadThrusters(k, text).params \in Params \union {Unset}
                 /\ ReadThrusters(k, text).crash \in BOOLEAN
                 /\ ReadThrusters(k, text).starved \in BOOLEAN
                 /\ ReadThrusters(k, text).crash \/ ReadThrusters(k, text).starved
                       => failures < MaxFailures
           /\ DefaultText(k).starved \in BOOLEAN
           /\ DefaultText(k).starved => failures < MaxFailures
           /\ DefaultText(k).text # Absent => DefaultText(k).text \in DefaultTexts
<1>1. k \in Allocations /\ (k = NoneFails \/ failures < MaxFailures)
  BY FailAtAllocations DEF FailAt
<1>2. QED BY <1>1 DEF OutcomesTyped, DefaultTexts

LEMMA StepKeepsCounts ==
    ASSUME OutcomesTyped, CountsInBounds, ContentInv, [Next]_vars
    PROVE  CountsInBounds'
<1> USE BoundsAssumption DEF CountsInBounds
<1>1. CASE thruster_check_file_exist
  <2>1. CASE FileMissing
    BY <1>1, <2>1 DEF thruster_check_file_exist, FileMissing
  <2>2. CASE ~ FileMissing
    <3>1. PICK k \in FailAt : ReadBy(ReadThrusters(k, thruster))
      BY <1>1, <2>2 DEF thruster_check_file_exist
    <3>2. thruster \in Contents
      BY <2>2 DEF FileMissing, ContentInv
    <3>3. /\ ReadThrusters(k, thruster).starved \in BOOLEAN
          /\ ReadThrusters(k, thruster).crash \/ ReadThrusters(k, thruster).starved
                => failures < MaxFailures
      BY <3>2, ConversionOutcomes
    <3>4. failures' \in 0..MaxFailures
      <4>1. CASE Starve(ReadThrusters(k, thruster).starved)
        BY <3>3, <4>1, StarveInBounds
      <4>2. CASE ReadThrusters(k, thruster).crash /\ failures' = failures + 1
        BY <3>3, <4>2
      <4>3. QED BY <3>1, <4>1, <4>2 DEF ReadBy
    <3>5. QED BY <1>1, <3>4 DEF thruster_check_file_exist
  <2>3. QED BY <2>1, <2>2
<1>2. CASE thruster_write_to_file
  <2>1. PICK k \in FailAt : Converted(DefaultText(k))
    BY <1>2 DEF thruster_write_to_file
  <2>2. failures' \in 0..MaxFailures
    <3>1. DefaultText(k).starved \in BOOLEAN /\ (DefaultText(k).starved => failures < MaxFailures)
      BY ConversionOutcomes
    <3>2. Starve(DefaultText(k).starved)
      BY <2>1 DEF Converted
    <3>3. QED BY <3>1, <3>2, StarveInBounds
  <2>3. QED BY <1>2, <2>2 DEF thruster_write_to_file
<1>3. CASE OpenFile \/ WriteFile \/ navi_jrpc_server_start
  BY <1>3 DEF OpenFile, WriteFile, navi_jrpc_server_start
<1>4. CASE PowerLoss \/ EditThruster
  BY <1>4 DEF PowerLoss, EditThruster
<1>5. CASE Start \/ frame_factor_check_file_exist \/ sigint_cb \/ MakeFrameFactor \/ UNCHANGED vars
  BY <1>5 DEF Start, frame_factor_check_file_exist, sigint_cb, MakeFrameFactor, vars, counts
<1>6. QED BY <1>1, <1>2, <1>3, <1>4, <1>5 DEF Next, init

LEMMA StepKeepsTypes ==
    ASSUME OutcomesTyped, TypeOK, ContentInv, [Next]_vars
    PROVE  TypeOK' /\ ContentInv'
<1> USE DEF TypeOK, ContentInv, CountsInBounds
<1>1. CountsInBounds'
  BY StepKeepsCounts
<1>2. CASE Start
  BY <1>1, <1>2 DEF Start, Starting, files
<1>3. CASE frame_factor_check_file_exist
  BY <1>1, <1>3 DEF frame_factor_check_file_exist, Exit, Starting, files, locals
<1>4. CASE thruster_check_file_exist
  <2>1. CASE FileMissing
    BY <1>1, <1>4, <2>1 DEF thruster_check_file_exist, FileMissing, NoteError, Starting, files
  <2>2. CASE ~ FileMissing
    <3>1. PICK k \in FailAt : ReadBy(ReadThrusters(k, thruster))
      BY <1>4, <2>2 DEF thruster_check_file_exist
    <3>2. thruster \in Contents
      BY <2>2 DEF FileMissing
    <3>3. /\ ReadThrusters(k, thruster).params \in Params \union {Unset}
          /\ ReadThrusters(k, thruster).starved \in BOOLEAN
      BY <3>2, ConversionOutcomes
    <3>4. starved' \in BOOLEAN /\ thruster_config' \in Params \union {Unset}
      BY <3>1, <3>3 DEF ReadBy, Exit, Starve
    <3>5. pc' \in {"off", "rpc"} /\ listening' \in BOOLEAN /\ UNCHANGED <<json_file_error, str, ret>>
      BY <1>4, <2>2, <3>1 DEF thruster_check_file_exist, ReadBy, Exit, AfterJson
    <3>6. UNCHANGED files
      BY <1>4 DEF thruster_check_file_exist
    <3>7. QED BY <1>1, <1>4, <3>4, <3>5, <3>6 DEF Starting, files, thruster_check_file_exist
  <2>3. QED BY <2>1, <2>2
<1>5. CASE thruster_write_to_file
  <2>1. PICK k \in FailAt : Converted(DefaultText(k))
    BY <1>5 DEF thruster_write_to_file
  <2>2. /\ DefaultText(k).starved \in BOOLEAN
        /\ DefaultText(k).text # Absent => DefaultText(k).text \in DefaultTexts
    BY ConversionOutcomes
  <2>3. /\ starved' \in BOOLEAN /\ ret' \in {"none", "SUCCESS", "FAIL"}
        /\ pc' \in {"off", "rpc", "open"}
        /\ pc' = "open" => str' \in DefaultTexts
    BY <2>1, <2>2 DEF Converted, Starve, AfterJson
  <2>4. QED BY <1>1, <1>5, <2>3 DEF thruster_write_to_file, Starting, files
<1>6. CASE OpenFile
  <2>1. /\ thruster' \in Contents \union {Absent} /\ meant'.known \in BOOLEAN
        /\ author' \in {"nobody", "program", "user"}
    <3>1. << >> \in Contents
      BY DEF Contents
    <3>2. QED BY <1>6, <3>1, KnownOrNot DEF OpenFile
  <2>2. pc = "open" /\ pc' \in {"off", "rpc", "write"} /\ ret' \in {"none", "SUCCESS", "FAIL"}
    BY <1>6 DEF OpenFile, AfterJson
  <2>3. QED BY <1>1, <1>6, <2>1, <2>2 DEF OpenFile, Starting
<1>7. CASE WriteFile
  <2>1. pc = "write" /\ (thruster' = str \/ thruster' \in Parts(str)) /\ str \in DefaultTexts
    BY <1>7 DEF WriteFile, Parts
  <2>2. thruster' \in Contents
    BY <2>1 DEF Contents
  <2>3. meant'.known \in BOOLEAN
    BY <1>7, KnownOrNot DEF WriteFile
  <2>4. pc' \in {"off", "rpc"} /\ ret' = "SUCCESS"
    BY <1>7 DEF WriteFile, AfterJson
  <2>5. QED BY <1>1, <1>7, <2>2, <2>3, <2>4 DEF WriteFile, Starting
<1>8. CASE navi_jrpc_server_start
  BY <1>1, <1>8 DEF navi_jrpc_server_start, Exit, Starting, files
<1>9. CASE sigint_cb
  BY <1>1, <1>9 DEF sigint_cb, Exit, Starting, files
<1>10. CASE PowerLoss
  BY <1>1, <1>10 DEF PowerLoss, Exit, Starting, files
<1>11. CASE EditThruster
  <2>1. /\ thruster' \in Contents \union {Absent} /\ meant'.known \in BOOLEAN
        /\ author' \in {"nobody", "program", "user"}
    <3>1. CASE thruster' = Absent /\ meant' = Known(Unset) /\ author' = "nobody"
      BY <3>1, KnownOrNot
    <3>2. ASSUME NEW file \in UserFiles, thruster' = file.text, meant' = Known(file.params),
                 author' = "user"
          PROVE  thruster' \in Contents /\ meant'.known \in BOOLEAN
      BY <3>2, KnownOrNot DEF Contents
    <3>3. QED BY <1>11, <3>1, <3>2 DEF EditThruster
  <2>2. pc \in {"off", "loop"} /\ UNCHANGED <<frame_factor, pc, locals>>
    BY <1>11 DEF EditThruster
  <2>3. QED BY <1>1, <2>1, <2>2 DEF locals
<1>12. CASE MakeFrameFactor
  BY <1>1, <1>12 DEF MakeFrameFactor, locals
<1>13. CASE UNCHANGED vars
  BY <1>1, <1>13 DEF vars
<1>14. QED
  BY <1>2, <1>3, <1>4, <1>5, <1>6, <1>7, <1>8, <1>9, <1>10, <1>11, <1>12, <1>13 DEF Next, init

\* Every variable of main.c's start stays in its type, and the bounds hold, if
\* the conversions return what their types say and fail only with an allocation.
THEOREM TypeCorrect == ASSUME OutcomesTyped PROVE Spec => []TypeOK
<1>1. TypeOK /\ ContentInv /\ [Next]_vars => (TypeOK /\ ContentInv)'
  BY StepKeepsTypes
<1>2. QED BY <1>1, InitTypes, PTL DEF Spec
=============================================================================
