--------------------------- MODULE MCHartRestore ----------------------------
(* Builds, checkpoints and hosts for TLC.                                  *)
EXTENDS HartRestore

(* Hart 1 of a dual-core checkpoint in S-mode, with everything on.         *)
Usual ==
  [config |-> "dual_core", start |-> MemoryBase, display |-> FALSE, cpu |-> 1,
   magic |-> {MemoryBase}, misa |-> {"D", "F", "V", "H"}, fs |-> 3, vs |-> 3, mpv |-> FALSE,
   mode |-> 1, distance |-> 0, locked |-> {}, tor |-> {},
   host |-> {"D", "F", "V", "H"}, stateen |-> TRUE, vlenb |-> 16, fs0 |-> 0, vs0 |-> 0]

(* Combinations of extensions of the checkpoint and of the machine, with   *)
(* every value of FS and VS.                                               *)
Exts == {{}, {"F"}, {"D", "F"}, {"D", "F", "V"}, {"D", "F", "H"}, {"D", "F", "V", "H"}}

States(ext, states) == IF ext THEN states ELSE {0}

ExtScenarios ==
  UNION {{[Usual EXCEPT !.misa = m, !.host = h, !.fs = s, !.vs = t, !.mpv = g, !.fs0 = s0,
                        !.vs0 = s0] :
            s \in States("F" \in m, {0, 1, 2}), t \in States("V" \in m, {0, 2, 3}),
            g \in {"H" \in m}, s0 \in {0, 3}} : m \in Exts, h \in Exts}

(* Builds, places and harts, displayed, with and without an M-mode target. *)
AreaScenarios ==
  {[Usual EXCEPT !.config = c, !.start = s, !.cpu = n, !.mode = m, !.display = TRUE] :
     c \in Configs, s \in {MemoryBase}, n \in {0, 1, 127}, m \in {0, 3}}
  \cup {[Usual EXCEPT !.config = c, !.start = FlashBase, !.cpu = n, !.magic = g] :
          c \in Configs, n \in {0, 2}, g \in SUBSET {MemoryBase, FlashBase}}

(* Targets at both ends of the reach of a jal, and beyond.                 *)
JumpScenarios ==
  {[Usual EXCEPT !.mode = 3, !.cpu = n, !.distance = d] :
     n \in {0, 2, 127},
     d \in {-1048578, -1048576, -4096, -2048, -2, 2, 2046, 2048, 4096, 1048574, 1048576,
            OffsetModulus \div 2 - 2, OffsetModulus + 8}}

(* Locked pmp entries, a machine without Smstateen, long vectors.          *)
CsrScenarios ==
  {[Usual EXCEPT !.locked = e, !.tor = t] :
     e \in {{0}, {1, 15}, {8}}, t \in {{}, {0, 1, 8}}}
  \cup {[Usual EXCEPT !.stateen = FALSE, !.mpv = g] : g \in BOOLEAN}
  \cup {[Usual EXCEPT !.vlenb = 32]}

AllScenarios == ExtScenarios \cup AreaScenarios \cup JumpScenarios \cup CsrScenarios

(* Harts of a dual-core machine, displayed, and those of one in flash.     *)
DisplayScenarios == {s \in AreaScenarios : s.config = "dual_core" /\ s.start = MemoryBase}

FlashScenarios == {s \in AreaScenarios : s.config = "dual_core" /\ s.start = FlashBase}
=============================================================================
