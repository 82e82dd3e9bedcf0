--------------------------- MODULE CalibrationCheck ---------------------------
(***************************************************************************)
(* The tool vision_calibration_check (src/apps/vision_calibration_check.cpp) *)
(* loads a calibration and prints where the points of its arguments lie on  *)
(* the board.                                                               *)
(***************************************************************************)
EXTENDS CalibrationStore, Sequences

CONSTANTS
    Numbers, \* the arguments std::stod accepts
    Junk,    \* an argument it does not
    MaxArguments \* bound: the number of arguments after the file

ASSUME CheckAssumption ==
    /\ Numbers \subseteq Int
    /\ Junk \notin Numbers
    /\ MaxArguments \in Nat

VARIABLES
    arguments, \* argv from 2 on
    index,     \* the position in arguments of the loop
    output,    \* the array of image points with their board points
    printed,   \* standard output
    exit_code  \* what main returned; -1: it has not returned
check_vars == <<store_vars, arguments, index, output, printed, exit_code>>

CheckInit ==
    /\ StoreInit
    /\ arguments \in UNION {[1..n -> Numbers \cup {Junk}] : n \in 0..MaxArguments}
    /\ index = 1
    /\ output = <<>>
    /\ printed = <<>>
    /\ exit_code = -1

return(code) ==
    /\ exit_code' = code
    /\ UNCHANGED <<store_vars, arguments, index, output>>

\* argc counts the program and the file as well.
usage_ok == Len(arguments) >= 2 /\ Len(arguments) % 2 = 0

refuse_usage ==
    /\ place = "choose" /\ exit_code = -1
    /\ ~ usage_ok
    /\ return(1) /\ UNCHANGED printed

\* The file is argv[1], of either kind.
begin_load ==
    /\ place = "choose" /\ exit_code = -1
    /\ usage_ok
    /\ path' \in Formats
    /\ place' = "exists"
    /\ UNCHANGED <<content, calibration, raised, event, file_vars, disturbed>>
    /\ UNCHANGED <<arguments, index, output, printed, exit_code>>

load_step == (load \/ write_step) /\ UNCHANGED <<arguments, index, output, printed, exit_code>>

running == place = "answer" /\ exit_code = -1

next_index == index + 2

parsed(i) == arguments[i] # Junk

project_next ==
    /\ running /\ raised = "none"
    /\ index < Len(arguments)
    /\ parsed(index) /\ parsed(index + 1)
    /\ LET image == Point(arguments[index], arguments[index + 1]) IN
       output' = Append(output, [image |-> image, board |-> project_image_point(calibration, image)])
    /\ index' = next_index
    /\ UNCHANGED <<store_vars, arguments, printed, exit_code>>

\* load or std::stod threw: nothing was printed yet.
catch_exception ==
    /\ running
    /\ \/ raised # "none"
       \/ index < Len(arguments) /\ ~ (parsed(index) /\ parsed(index + 1))
    /\ return(1) /\ UNCHANGED printed

print_all ==
    /\ running /\ raised = "none"
    /\ index >= Len(arguments)
    /\ printed' = output
    /\ return(0)

CheckNext ==
    refuse_usage \/ begin_load \/ load_step \/ project_next \/ catch_exception \/ print_all

CheckSpec == CheckInit /\ [][CheckNext]_check_vars
-----------------------------------------------------------------------------
(* What must hold. *)

\* Exit code 0 means that every pair of arguments was printed, in order, and any
\* other that nothing was.
AllOrNothing ==
    /\ exit_code = 0 =>
        /\ 2 * Len(printed) = Len(arguments)
        /\ \A k \in 1..Len(printed) :
            printed[k].image = Point(arguments[2 * k - 1], arguments[2 * k])
    /\ exit_code # 0 => printed = <<>>

\* project_board_point_to_image leads back, except from the horizon.
LeadsBack(entry) ==
    (determinant(calibration.homography) # 0 /\ ~ on_horizon(calibration.homography, entry.image)) =>
        same_point(project_board_point_to_image(calibration, entry.board), entry.image)

\* The board point has the distance of the unturned one to the centre, and the
\* scalar and cross product with it have the cosine and the sine of the offset.
IsTurned(entry) ==
    LET p == perspectiveTransform(calibration.homography, entry.image)
        q == entry.board
        square == p.x * p.x + p.y * p.y
    IN
    /\ p.x * q.x + p.y * q.y = calibration.offset.cos * square
    /\ p.x * q.y - p.y * q.x = calibration.offset.sin * square
    /\ (q.x * q.x + q.y * q.y) * p.w * p.w = square * q.w * q.w

(***************************************************************************)
(* What the tool prints can be relied on: all the points asked for or none, *)
(* also when it is the last number that cannot be read, each turned by the  *)
(* offset in the direction of its sign, and each the board point that       *)
(* project_board_point_to_image takes back to the image. (The loop of main, *)
(* and two projections with their own order of rotation and matrix.)        *)
(***************************************************************************)
PrintedPointsAreRight ==
    /\ AllOrNothing
    /\ \A k \in 1..Len(printed) : LeadsBack(printed[k]) /\ IsTurned(printed[k])
=============================================================================
