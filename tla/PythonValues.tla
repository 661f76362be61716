---------------------------- MODULE PythonValues ----------------------------
(* The values that the dict-like modules share. *)
CONSTANTS
    None,      \* Python's None: an argument left out, or a value
    Missing    \* no such item; as a result, KeyError

ASSUME ValueAssumption == None # Missing
=============================================================================
