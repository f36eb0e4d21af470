------------------------------ MODULE MCPipeline ------------------------------
EXTENDS Pipeline

\* The script with no further arguments, with -llvmtosource, with an
\* optimisation, and with -O2.
MCScriptLists ==
  { << "supermutate" >>,
    << "supermutate", "llvmtosource" >>,
    << "supermutate", "simplify" >>,
    << "supermutate", "simplify", "llvmtosource", "supermutate" >> }

\* opt with one pass, with both, and -O2 alone.
MCUserLists ==
  { << "supermutate" >>,
    << "llvmtosource" >>,
    << "llvmtosource", "supermutate" >>,
    << "supermutate", "llvmtosource" >>,
    << "simplify", "llvmtosource", "supermutate" >> }
===============================================================================
