----------------------------- MODULE MCRecords -----------------------------
(* Records with one client that may update everything but not read it, and   *)
(* one that may update less than it reads.                                   *)
EXTENDS Records

CONSTANTS editor, reader, free, guarded

MCReadable  == [c \in {editor, reader} |->
                  IF c = editor THEN {guarded} ELSE {free, guarded}]
MCUpdatable == [c \in {editor, reader} |->
                  IF c = editor THEN {free, guarded} ELSE {free}]

=============================================================================
