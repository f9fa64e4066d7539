----------------------------- MODULE MCReqSketch -----------------------------
EXTENDS ReqSketch

MCInputs == {<<2>>, <<1, 2, 2>>, <<1, 2, 1, 2, 1>>, <<2, 1, 1, 2, 2, 1, 1, 2>>}
===============================================================================
