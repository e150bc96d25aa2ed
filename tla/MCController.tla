----------------------------- MODULE MCController -----------------------------
EXTENDS Controller
==============================================================================
