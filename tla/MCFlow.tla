------------------------------- MODULE MCFlow -------------------------------
(* Flow on small programs, one for each way blocks can nest.                   *)
EXTENDS Flow

MCPrograms == {
  << Group("g", << Repeat(2, << Request >>) >>), DataRequest >>,
  << Retry(2, << Choice(<< << Request >>, << >> >>), Request >>) >>,
  << Random("r", << << Rendezvous >>, << While(1, << Request >>) >> >>), Rendezvous >>,
  << Group("g", << Parallel(<< << Request >>, << DataRequest >> >>) >>), RetryUntil(2, << >>) >> }
=============================================================================
