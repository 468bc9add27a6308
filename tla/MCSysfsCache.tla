---------------------------- MODULE MCSysfsCache ----------------------------
(* SysfsCache on small instances: the change detectors scaled down with the *)
(* values they compare.                                                     *)
EXTENDS SysfsCache

CONSTANTS Kinds,     \* which detectors the instance chooses from
          MaxValue   \* the largest value a node takes

MCValues == 0..MaxValue
MCStrats == {s \in {[type |-> "ABS",    thresh |-> 2],
                    [type |-> "REL",    thresh |-> 8],
                    [type |-> "STRICT", thresh |-> 0]} : s.type \in Kinds}
=============================================================================
