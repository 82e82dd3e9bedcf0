--------------------------- MODULE CalibrationStore ---------------------------
(***************************************************************************)
(* Where the calibration of a scenario comes from: load_scenario chooses    *)
(* between calibration.fs.json and calibration.json, CalibrationStore::load *)
(* (src/src/vision/calibration.cpp) reads the file, and run_scenario turns  *)
(* its exceptions into events. Nothing locks the files: another process,    *)
(* save_file_storage_json or an editor, may write or remove them between    *)
(* any two steps, and leaves a file that is no JSON while it writes.        *)
(***************************************************************************)
EXTENDS CalibrationGeometry, FiniteSets

CONSTANTS
    Contents,      \* what complete files of each kind may hold, see FileContents
    Absent,        \* there is no such file
    Torn,          \* a file that holds no JSON: half written, or spoilt
    NoHomography,  \* findHomography finds none; the file has none
    Misshapen,     \* a stored matrix that is not three by three
    Matrices,      \* the homographies
    MaxWrites      \* bound: how often the files are written or removed

\* A file in which a field is missing or of a wrong type has fields = FALSE. The
\* homography is what findHomography finds for the points of a JSON file, and
\* what a FileStorage file holds.
FileContents ==
    [ fields : BOOLEAN, points_image : Nat, points_board : Nat,
      homography : Matrices \cup {NoHomography, Misshapen}, offset : Turns ]

Formats == {"fs", "json"} \* calibration.fs.json and calibration.json

\* The marks are neither files nor matrices, and a homography is three by three.
ASSUME StoreAssumption ==
    /\ Matrices \subseteq [1..3 -> [1..3 -> Int]]
    /\ NoHomography \notin Matrices /\ Misshapen \notin Matrices
    /\ Contents \in [Formats -> SUBSET FileContents]
    /\ \A c \in Contents["json"] : c.homography # Misshapen
    /\ Absent # Torn
    /\ \A f \in Formats : Absent \notin Contents[f] /\ Torn \notin Contents[f]
    /\ MaxWrites \in Nat

VARIABLES
    files,       \* what each of the two files holds
    writing,     \* the files somebody is writing
    writes,      \* counts against MaxWrites
    place,       \* where the load is
    path,        \* scenario.calibration_path
    content,     \* what the opened file held
    calibration, \* the calibration in use
    raised,      \* the exception that left load: "missing", "load" or another
    event,       \* what run_scenario answers; "thrown" when an exception leaves it
    disturbed    \* history: the files changed since the path was chosen

file_vars == <<files, writing, writes>>
load_vars == <<place, path, content, calibration, raised, event>>
store_vars == <<file_vars, load_vars, disturbed>>

MayHold(f) == Contents[f] \cup {Absent, Torn}

NoCalibration == [homography |-> NoHomography]

StoreInit ==
    /\ files \in [fs : MayHold("fs"), json : MayHold("json")]
    /\ writing = {}
    /\ writes = 0
    /\ place = "choose"
    /\ path = "json"
    /\ content = Torn
    /\ calibration = NoCalibration
    /\ raised = "none"
    /\ event = "none"
    /\ disturbed = FALSE
-----------------------------------------------------------------------------
(* Whoever writes the files *)

change(f, what) ==
    /\ files' = [files EXCEPT ![f] = what]
    /\ disturbed' = (place # "choose")
    /\ UNCHANGED load_vars

\* Opening a file for writing empties it.
begin_write(f) ==
    /\ writes < MaxWrites
    /\ f \notin writing
    /\ change(f, Torn)
    /\ writing' = writing \cup {f}
    /\ writes' = writes + 1

end_write(f, what) ==
    /\ f \in writing
    /\ change(f, what)
    /\ writing' = writing \ {f}
    /\ UNCHANGED writes

\* The writer dies: the file stays as it is.
abandon_write(f) ==
    /\ f \in writing
    /\ writing' = writing \ {f}
    /\ UNCHANGED <<files, writes, load_vars, disturbed>>

remove(f) ==
    /\ writes < MaxWrites
    /\ f \notin writing
    /\ change(f, Absent)
    /\ writes' = writes + 1
    /\ UNCHANGED writing

write_step ==
    \E f \in Formats :
        \/ begin_write(f) \/ abandon_write(f) \/ remove(f)
        \/ \E what \in Contents[f] : end_write(f, what)
-----------------------------------------------------------------------------
(* CalibrationStore::load *)

\* In the branch for JSON every exception becomes a CalibrationLoadError; the
\* branch for FileStorage has no handler.
converted_mutant(exception) == exception
converted(exception) == IF path = "json" THEN "load" ELSE exception

raise(exception) ==
    /\ raised' = exception
    /\ place' = "answer"
    /\ UNCHANGED <<path, content, calibration, event, file_vars, disturbed>>

proceed(to) ==
    /\ place' = to
    /\ UNCHANGED <<path, calibration, raised, event, file_vars, disturbed>>

check_exists ==
    /\ place = "exists"
    /\ IF files[path] = Absent THEN raise("missing") ELSE proceed("open") /\ UNCHANGED content

open_json ==
    /\ place = "open" /\ path = "json"
    /\ IF files[path] = Absent THEN raise(converted("load"))
       ELSE proceed("parse") /\ content' = files[path]

parse_json ==
    /\ place = "parse"
    /\ IF content = Torn \/ ~ content.fields THEN raise(converted("other"))
       ELSE proceed("compute") /\ UNCHANGED content

loaded ==
    /\ calibration' = [homography |-> content.homography, offset |-> content.offset]
    /\ place' = "answer"
    /\ UNCHANGED <<path, content, raised, event, file_vars, disturbed>>

too_few_points_mutant(c) == c.points_image < 4 \/ c.points_board < 4
too_few_points(c) ==
    c.points_image < 4 \/ c.points_board < 4 \/ c.points_image # c.points_board

\* findHomography finds a matrix of three by three, or none.
compute_calibration ==
    /\ place = "compute"
    /\ IF too_few_points(content) \/ content.homography = NoHomography
       THEN raise(converted("other"))
       ELSE loaded

\* cv::FileStorage does not open a file that is not there. One that is no JSON it
\* refuses with a cv::Exception, or does not open.
open_file_storage ==
    /\ place = "open" /\ path = "fs"
    /\ \/ files[path] \in {Absent, Torn} /\ raise("load")
       \/ files[path] = Torn /\ raise(converted("other"))
       \/ files[path] \in Contents[path] /\ proceed("read") /\ content' = files[path]

is_valid(homography) == homography \in Matrices

\* operator>> throws a cv::Exception on a node of the wrong type.
read_file_storage ==
    /\ place = "read"
    /\ IF ~ content.fields THEN raise(converted("other"))
       ELSE IF ~ is_valid(content.homography) THEN raise("load")
       ELSE loaded

load ==
    \/ check_exists \/ open_json \/ parse_json \/ compute_calibration
    \/ open_file_storage \/ read_file_storage
-----------------------------------------------------------------------------
(* load_scenario and run_scenario *)

preferred_mutant == IF files["json"] # Absent THEN "json" ELSE "fs"
preferred == IF files["fs"] # Absent THEN "fs" ELSE "json"

choose_path ==
    /\ place = "choose"
    /\ path' = preferred
    /\ place' = "exists"
    /\ UNCHANGED <<content, calibration, raised, event, file_vars, disturbed>>

\* The two catch blocks of run_scenario; any other exception leaves it.
caught(exception) ==
    CASE exception = "none" -> "shot"
      [] exception = "missing" -> "calibration_required"
      [] exception = "load" -> "calibration_load_failure"
      [] OTHER -> "thrown"

answer ==
    /\ place = "answer"
    /\ event' = caught(raised)
    /\ place' = "done"
    /\ UNCHANGED <<path, content, calibration, raised, file_vars, disturbed>>

\* The next scenario begins with nothing of the last one.
next_scenario ==
    /\ place = "done"
    /\ place' = "choose" /\ path' = "json" /\ content' = Torn
    /\ calibration' = NoCalibration /\ raised' = "none" /\ event' = "none" /\ disturbed' = FALSE
    /\ UNCHANGED file_vars

StoreNext == choose_path \/ load \/ answer \/ next_scenario \/ write_step

StoreSpec == StoreInit /\ [][StoreNext]_store_vars
-----------------------------------------------------------------------------
(* What must hold. *)

complete(c) == c.fields /\ c.homography \in Matrices
paired(c) == c.points_image = c.points_board /\ c.points_image >= 4

\* What OfflineEngine takes a calibration file to be.
worth(f) ==
    IF files[f] = Absent THEN "calibration_required"
    ELSE IF files[f] # Torn /\ complete(files[f]) /\ (f = "json" => paired(files[f]))
    THEN "shot"
    ELSE "calibration_load_failure"

\* What a scenario with these files should be answered.
deserved == IF files["fs"] # Absent THEN worth("fs") ELSE worth("json")

(***************************************************************************)
(* When nobody touches the files meanwhile, the preferred file decides what *)
(* happens to a scenario: it gives a shot exactly if that file is sound,    *)
(* calibration_required exactly if there is no file, and with a             *)
(* calibration.json every way of being wrong is the event                   *)
(* calibration_load_failure. A second file, however sound, never hides the  *)
(* fault of the first. (load_scenario, load, compute_calibration.)          *)
(***************************************************************************)
PreferredFileDecides ==
    (place = "done" /\ ~ disturbed) =>
        /\ \A what \in {"shot", "calibration_required"} : event = what <=> deserved = what
        /\ files["fs"] = Absent => event = deserved

(***************************************************************************)
(* The fix log says that an invalid FileStorage is a CalibrationLoadError   *)
(* too and gives calibration_load_failure: every scenario whose files       *)
(* nobody touches meanwhile is answered as they deserve, and no exception   *)
(* leaves run_scenario.                                                     *)
(***************************************************************************)
UndisturbedAnswerIsDeserved == (place = "done" /\ ~ disturbed) => event = deserved

(***************************************************************************)
(* Whoever writes or removes a calibration.json while it is loaded, no      *)
(* exception leaves run_scenario: the batch goes on. (The nested handlers   *)
(* of load.)                                                                *)
(***************************************************************************)
JsonNeverThrows == (path = "json" /\ event # "none") => event # "thrown"

(***************************************************************************)
(* A file that disappears or is half written while it is loaded never gives *)
(* a calibration: what is used was complete, with a homography the          *)
(* projection accepts, and with four pairs of points or more if it was      *)
(* computed. (is_valid and the tests of compute_calibration.)               *)
(***************************************************************************)
UsedCalibrationIsSound ==
    event = "shot" =>
        /\ content # Torn /\ complete(content)
        /\ path = "json" => paired(content)
        /\ calibration = [homography |-> content.homography, offset |-> content.offset]
=============================================================================
