------------------------------- MODULE MCUnits ------------------------------
(***************************************************************************)
(* Instances of UnitsProps for TLC: two cores with one array group each.   *)
(***************************************************************************)
EXTENDS UnitsProps, TLC

CONSTANTS c1, c2, g1

LocalMemory  == [data_width |-> 2, read_latency_cycle |-> 1, write_latency_cycle |-> 2, period |-> 1]
GlobalMemory == [data_width |-> 4, read_latency_cycle |-> 2, write_latency_cycle |-> 1, period |-> 2]

Matrix ==
  [rows |-> 2, columns |-> 2, cell_precision |-> 8, period |-> 1, pipeline_mode |-> TRUE,
   dac_resolution |-> 4, dac_count |-> 1, adc_count |-> 1, input_buffer |-> 0, dac |-> 1,
   xbar_read |-> 1, sample_hold |-> 0, adc |-> 1, shift_adder |-> 0, output_buffer |-> 0]
Crossbars == g1 :> 1

\* An instruction with operands at rd, rs1 and rs2, lengths n, and widths in bits.
E(op, rd, rs1, rs2, n, input, output) ==
  [op |-> op, rd_value |-> rd, rs1_value |-> rs1, rs2_value |-> rs2, len |-> n, size |-> n,
   offset_value |-> 0, offset_select |-> 0, group |-> g1, mbiw |-> 8,
   input_bitwidth |-> input, output_bitwidth |-> output]
Byte(op, rd, rs1, n) == E(op, rd, rs1, rs1 + n, n, 8, 8)

Alone(s) == c1 :> s @@ c2 :> <<>>

\* Units that keep asking the same memory: all of one core, and two cores that
\* use the global memory; some of the instructions depend on older ones, and one asks
\* for no bytes, which takes no time but its turn.
Busy ==
  { c1 :> << Byte("vvadd", 0, 10, 2), Byte("mvmul", 20, 30, 2), Byte("lmv", 40, 50, 3) >>
      @@ c2 :> <<>>,
    c1 :> << Byte("mvmul", 20, 30, 2), Byte("vvadd", 20, 10, 2), Byte("recv", 40, 0, 1),
             Byte("vtanh", 60, 40, 1) >>
      @@ c2 :> <<>>,
    c1 :> << Byte("vvadd", 0, 10, 2), Byte("lmv", 40, 50, 0) >>
      @@ c2 :> <<>>,
    c1 :> << Byte("ld", 0, 0, 3), Byte("vrelu", 10, 0, 3) >>
      @@ c2 :> << Byte("st", 0, 8, 2), Byte("vrelu", 20, 8, 2) >>,
    c1 :> << Byte("st", 0, 4, 4), Byte("vvmul", 8, 20, 1) >>
      @@ c2 :> << Byte("ld", 0, 0, 8), Byte("send", 4, 4, 2) >> }

\* Any vector instruction, of any widths, next to a transfer that writes a byte it
\* may read or reads one that it may write.
Widths == {8, 12, 16}
Results ==
  {e \in {E(op, 10, 0, 5, 2, w[1], w[2]) : op \in VectorOp, w \in Widths \X Widths} :
     AccessIsChecked(e)}
Neighbours ==
  {Alone(<<e, Byte("recv", a, 0, 1)>>) : e \in Results, a \in {0, 1, 3, 8}}
    \cup {Alone(<<e, Byte("st", 0, a, 1)>>) : e \in Results, a \in {10, 11, 13}}

\* Offsets that are written for some operands and not for others.
Offsets ==
  {Alone(<<[Byte("vvadd", 10, 0, 2) EXCEPT !.offset_value = v, !.offset_select = s]>>) :
     v \in 0..7, s \in 0..7}

Contention == Busy \cup Neighbours
=============================================================================
