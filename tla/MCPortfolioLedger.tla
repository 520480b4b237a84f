-------------------------- MODULE MCPortfolioLedger --------------------------
EXTENDS PortfolioLedger

\* Three prices, so that closes win, lose and break even; quantities 1..3, so
\* that a fill reduces, closes and flips what one or two others opened.
MCFills == [side : Side, qty : 1..3, price : {8, 10, 13}, commission : {1}]
==============================================================================
