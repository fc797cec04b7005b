------------------------------ MODULE MCParts ------------------------------
(* The parts that share no state, side by side: `focus' says which of them   *)
(* a behaviour is about, and the others stand still.                        *)
EXTENDS Timer0, CallStack, Eeprom, Toolchain, Accumulator, Expressions

VARIABLE focus

peripheralVars == <<timerVars, stackVars, eepromVars>>
computingVars  == <<toolchainVars, aluVars, exprVars>>
mcVars == <<peripheralVars, computingVars, focus>>

(* TMR0 has five values and the rates 1:1, 1:2, 1:4 and 1:8, the ring four   *)
(* levels, the EEPROM two bytes and one address beyond them.                *)
McInstrCosts == {1, 2}
McLoads == {0, 3}
McOptions == [t0cs : {0, 1}, psa : {0}, ps : {0, 1}]
               \cup {[t0cs |-> 0, psa |-> 1, ps |-> 1], [t0cs |-> 0, psa |-> 0, ps |-> 2]}
McAddr == {1, 2, 3}
McData == {7, 255}
McAddresses == {0, 3}
McKeys == {KEY1, KEY2, 0}

(* All 16384 words, statements with operands at the edges of their ranges    *)
(* and outside them; every byte in the register against operands whose       *)
(* nibbles are next to where they carry.                                    *)
McRegisters == {-1, 0, 1, 32, 127, 128, 134, 511, 512}
McLiterals == -130..257
McTargets == {-1, 0, 1, 4, 255, 256, 1023, 1024, 2047, 2048}
McOperands == {16 * high + low : high, low \in {0, 1, 7, 8, 9, 15}}

(* Every sequence of up to four tokens, and longer operands with two binary  *)
(* operators, signs and parentheses.                                        *)
McValueOf == [a |-> 3, b |-> 5]
Terms == {<<"a">>, <<"b">>, <<"-", "a">>, <<"~", "b">>}
Joined(S, T) == {s \o <<o>> \o t : s \in S, o \in DOMAIN PREC, t \in T}
InParens(S) == {<<"(">> \o s \o <<")">> : s \in S}
McTexts ==
  LET two == Joined(Terms, Terms)
  IN UNION {[1..n -> {"a", "b", "+", "*", "-", "~", "(", ")"}] : n \in 0..4}
       \cup Joined(two \cup InParens(two), Terms) \cup Joined(Terms, InParens(two))
       \cup {<<sign>> \o e : sign \in Signs, e \in InParens(two)}

NoStatement == place = "rejected" /\ stmt = NoStmt /\ word = 0 /\ instr = NoInstr
NoText == text = <<>> /\ next = 1 /\ out = <<>> /\ ops = <<>> /\ expectVal = TRUE
            /\ verdict = "reading"

McInit ==
  /\ TimerInit /\ StackInit /\ EepromInit /\ AluInit
  /\ focus \in {"timer", "stack", "eeprom", "program", "arithmetic", "operand"}
  /\ IF focus = "program" THEN ToolchainInit ELSE NoStatement
  /\ IF focus = "operand" THEN ExprInit ELSE NoText

McNext ==
  \/ /\ \/ focus = "timer" /\ TimerNext /\ UNCHANGED <<stackVars, eepromVars>>
        \/ focus = "stack" /\ StackNext /\ UNCHANGED <<timerVars, eepromVars>>
        \/ focus = "eeprom" /\ EepromNext /\ UNCHANGED <<timerVars, stackVars>>
     /\ UNCHANGED computingVars /\ UNCHANGED focus
  \/ /\ \/ focus = "program" /\ ToolchainNext /\ UNCHANGED <<aluVars, exprVars>>
        \/ focus = "arithmetic" /\ AluNext /\ UNCHANGED <<toolchainVars, exprVars>>
        \/ focus = "operand" /\ ExprNext /\ UNCHANGED <<toolchainVars, aluVars>>
     /\ UNCHANGED peripheralVars /\ UNCHANGED focus

McSpec == McInit /\ [][McNext]_mcVars

=============================================================================
