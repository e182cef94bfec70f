------------------------------ MODULE MCRender ------------------------------
(***************************************************************************)
(* The parts of the terminal front end that share no state with each other *)
(* (the renderer, the input line, the quit protocol and the scheduler),    *)
(* checked in one run: part says which of them runs, the others stay in    *)
(* their initial states.                                                   *)
(***************************************************************************)
EXTENDS TokenStream, FrameBuffer, Scrollback, MCLayout, MessageBlock,
        DiffBlock, ToolBlocks, InputLine, Program, Scheduler

VARIABLE part

MCFbSizes == {<<3, 1>>, <<2, 2>>}

MCSbHeight == [short |-> <<1, 1>>, long |-> <<3, 2>>, bad |-> <<0, 0>>]
MCSbViewports == {<<1, 2>>, <<2, 2>>}

MCInit ==
    /\ part \in {"stream", "frame", "scrollback", "layout", "message", "diff",
                 "tools", "input", "quit", "scheduler"}
    /\ TsInit /\ FbInit /\ SbInit /\ FlexInit /\ MsgInit /\ DbInit /\ TbInit /\ IlInit
    /\ PgInit /\ Init

MCNext ==
    /\ UNCHANGED part
    /\ \/ /\ part = "stream" /\ TsNext
          /\ UNCHANGED <<fbVars, sbVars, flexVars, text, dbVars, tbVars, ilVars, pgVars, vars>>
       \/ /\ part = "frame" /\ FbNext
          /\ UNCHANGED <<tsVars, sbVars, flexVars, text, dbVars, tbVars, ilVars, pgVars, vars>>
       \/ /\ part = "scrollback" /\ SbNext
          /\ UNCHANGED <<tsVars, fbVars, flexVars, text, dbVars, tbVars, ilVars, pgVars, vars>>
       \/ /\ part = "layout" /\ FlexNext
          /\ UNCHANGED <<tsVars, fbVars, sbVars, text, dbVars, tbVars, ilVars, pgVars, vars>>
       \/ /\ part = "message" /\ MsgNext
          /\ UNCHANGED <<tsVars, fbVars, sbVars, flexVars, dbVars, tbVars, ilVars, pgVars, vars>>
       \/ /\ part = "diff" /\ DbNext
          /\ UNCHANGED <<tsVars, fbVars, sbVars, flexVars, text, tbVars, ilVars, pgVars, vars>>
       \/ /\ part = "tools" /\ TbNext
          /\ UNCHANGED <<tsVars, fbVars, sbVars, flexVars, text, dbVars, ilVars, pgVars, vars>>
       \/ /\ part = "input" /\ IlNext
          /\ UNCHANGED <<tsVars, fbVars, sbVars, flexVars, text, dbVars, tbVars, pgVars, vars>>
       \/ /\ part = "quit" /\ PgNext
          /\ UNCHANGED <<tsVars, fbVars, sbVars, flexVars, text, dbVars, tbVars, ilVars, vars>>
       \/ /\ part = "scheduler" /\ Next
          /\ UNCHANGED <<tsVars, fbVars, sbVars, flexVars, text, dbVars, tbVars, ilVars, pgVars>>

MCSpec ==
    /\ MCInit
    /\ [][MCNext]_<<part, tsVars, fbVars, sbVars, flexVars, text, dbVars, tbVars, ilVars, pgVars,
                 vars>>
=============================================================================
