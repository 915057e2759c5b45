------------------------------- MODULE Brands -------------------------------
(***************************************************************************)
(* manufacturers/*.cpp: which request each brand hands to which handler.   *)
(*                                                                         *)
(* Every brand answers physical requests (0x7E0) of two bytes or more with *)
(* one frame from 0x7E8, or none where a service finds too few bytes, and  *)
(* refuses a service that is not in its table with 0x11.  It drops its own *)
(* frames and those addressed to anyone else; Chevrolet answers functional *)
(* requests too, with the same frame whatever they ask.  A table maps the  *)
(* service to the handler of BaseManufacturer that runs; "fixed" stands    *)
(* for the handlers that read no state and change none, and whose answer   *)
(* depends on the identifier asked for alone.                              *)
(***************************************************************************)
EXTENDS Naturals

Services == {"01", "02", "03", "04", "05", "06", "07", "08", "09", "0A",
             "10", "11", "15", "16", "22", "27", "2E", "31", "3E"}

Chevrolet == [s \in {"01", "02", "03", "04", "05", "06", "07", "08", "09", "0A",
                     "10", "22", "27", "3E"} |->
                IF s \in {"01", "05", "06", "08", "09", "22"} THEN "fixed" ELSE s]

\* Every OBD-II mode but 03 falls through to mode 01.
Ford == [s \in {"01", "02", "03", "04", "05", "06", "07", "08", "09", "0A",
                "22", "27", "2E"} |->
           IF s \in {"03", "27"} THEN s ELSE "fixed"]

Toyota == [s \in {"01", "03", "04", "07", "09", "15", "16", "27"} |->
             IF s \in {"03", "04", "07", "27"} THEN s ELSE "fixed"]

BMW == [s \in {"10", "22", "27", "2E", "31", "3E"} |->
          IF s \in {"10", "27", "3E"} THEN s ELSE "fixed"]

\* 0x11 answers and resets nothing.
Volkswagen == [s \in {"01", "03", "04", "09", "10", "11", "22", "27", "2E", "3E"} |->
                 IF s \in {"03", "04", "10", "27", "3E"} THEN s ELSE "fixed"]

Mercedes == [s \in {"10", "22", "27", "31", "3E"} |->
               IF s \in {"10", "27", "3E"} THEN s ELSE "fixed"]

Honda == [s \in {"01", "03", "04", "09", "10", "22", "27", "3E"} |->
            IF s \in {"03", "04", "10", "27", "3E"} THEN s ELSE "fixed"]

Nissan == [s \in {"01", "03", "04", "09", "10", "22", "27", "3E"} |->
             IF s \in {"03", "04", "10", "27", "3E"} THEN s ELSE "fixed"]

\* The brands main registers with the router; it selects one of them at start.
Brands == {"chevrolet", "ford", "toyota", "bmw", "volkswagen", "mercedes",
           "honda", "nissan"}

Table(b) == CASE b = "chevrolet"  -> Chevrolet
              [] b = "ford"       -> Ford
              [] b = "toyota"     -> Toyota
              [] b = "bmw"        -> BMW
              [] b = "volkswagen" -> Volkswagen
              [] b = "mercedes"   -> Mercedes
              [] b = "honda"      -> Honda
              [] b = "nissan"     -> Nissan

\* The handler the brand runs for the service; "refuse" answers 7F 11.
Handler(b, s) == IF s \in DOMAIN Table(b) THEN Table(b)[s] ELSE "refuse"
=============================================================================
